------------------------ MODULE ConfirmationsProofs ------------------------
(***************************************************************************)
(* Proofs about Confirmations, for any number of accounts, addresses,      *)
(* requests, codes and rowids and any limit of attempts.                   *)
(***************************************************************************)
EXTENDS Confirmations, FiniteSetTheorems, TLAPS

LEMMA TypeInit == Init => TypeOK
    BY ConfirmationsAssumption DEF Init, TypeOK, Cookie

\* What a request carries is typed, and so are the slots afterwards.
LEMMA TypeCarry ==
    ASSUME TypeOK, NEW r \in Requests, NEW op, NEW u, NEW e, NEW id, NEW code, NEW matches,
           [op |-> op, user |-> u, email |-> e, id |-> id, code |-> code,
            matches |-> matches] \in Request,
           Carry(r, op, u, e, id, code, matches)
    PROVE  requests' \in [Requests -> Request \union {NULL}]
<1> DEFINE request == [op |-> op, user |-> u, email |-> e, id |-> id, code |-> code,
                       matches |-> matches]
<1>1. requests' = [requests EXCEPT ![r] = request]
    BY DEF Carry
<1>2. request \in Request
    OBVIOUS
<1> HIDE DEF request
<1> QED
    BY <1>1, <1>2 DEF TypeOK

LEMMA TypeFinish ==
    ASSUME TypeOK, NEW r \in Requests, Finish(r)
    PROVE  requests' \in [Requests -> Request \union {NULL}]
    BY DEF TypeOK, Finish

LEMMA RowIsTyped ==
    ASSUME TypeOK, NEW id \in Ids, IsRow(id)
    PROVE  confirmations[id] \in EmailConfirmation
    BY DEF TypeOK, IsRow

LEMMA TypeRead ==
    ASSUME TypeOK, NEW r \in Requests, NEW id \in Ids, IsRow(id), NEW matches \in BOOLEAN,
           NEW op,
           \/ op \in {"verify", "create_account"}
           \/ op = "verify_change" /\ confirmations[id].user \in Users,
           Read(r, op, id, matches)
    PROVE  requests' \in [Requests -> Request \union {NULL}]
<1> DEFINE row == confirmations[id]
<1>1. row \in EmailConfirmation
    BY RowIsTyped
<1>2. [op |-> op, user |-> row.user, email |-> row.email, id |-> id, code |-> row.code,
       matches |-> matches] \in Request
    BY <1>1 DEF Request, Carried, EmailConfirmation
<1> QED
    BY <1>2, TypeCarry DEF Read

\* A request in the slot, by what it is for.
LEMMA RequestIsTyped ==
    ASSUME TypeOK, NEW r \in Requests, requests[r] # NULL
    PROVE  /\ requests[r] \in Request
           /\ requests[r].user \in Users \union {NULL}
           /\ requests[r].email \in Emails
           /\ requests[r].op \in {"sign_up", "email_change"} => requests[r].code = 0
           /\ requests[r].op \notin {"sign_up", "email_change"} =>
                requests[r].id \in Ids /\ requests[r].code \in Codes
           /\ requests[r].op \in {"email_change", "verify_change"} => requests[r].user \in Users
           /\ requests[r].op \in {"sign_up", "signed_up"} => requests[r].user = NULL
<1>1. requests[r] \in Request
    BY DEF TypeOK
<1> QED
    BY <1>1 DEF Request, Carried

\* Deleting rows, counting an attempt and stamping leave a table.
LEMMA TypeRows ==
    ASSUME TypeOK, NEW ids, NEW id
    PROVE  /\ Without(ids) \in [Ids -> EmailConfirmation \union {NULL}]
           /\ IncrementFailedAttempts(id) \in [Ids -> EmailConfirmation \union {NULL}]
           /\ Succeed(id) \in [Ids -> EmailConfirmation \union {NULL}]
<1>1. Without(ids) \in [Ids -> EmailConfirmation \union {NULL}]
    BY DEF TypeOK, Without
<1>2. \A i \in Ids : IsRow(i) =>
        [confirmations[i] EXCEPT !.failed = @ + 1] \in EmailConfirmation
    BY RowIsTyped DEF EmailConfirmation
<1>3. IncrementFailedAttempts(id) \in [Ids -> EmailConfirmation \union {NULL}]
    BY <1>2 DEF TypeOK, IncrementFailedAttempts
<1>4. Succeed(id) \in [Ids -> EmailConfirmation \union {NULL}]
    BY DEF TypeOK, Succeed, IsRow, EmailConfirmation
<1> QED
    BY <1>1, <1>3, <1>4

LEMMA TypeNewRow ==
    ASSUME TypeOK, NEW u \in Users \union {NULL}, NEW e \in Emails, IssueCode(u, e)
    PROVE  /\ NewRow(u, e) \in EmailConfirmation
           /\ issued + 1 \in Codes
           /\ issued' \in 0..MaxCodes
           /\ issues' \in [Codes -> Issue \union {NULL}]
           /\ accepted' \subseteq Codes
           /\ emailCodes' \in [Users -> 0..MaxCodes]
<1>1. issued + 1 \in Codes /\ issued' \in 0..MaxCodes
    BY ConfirmationsAssumption DEF IssueCode, TypeOK, Codes
<1>2. NewRow(u, e) \in EmailConfirmation
    BY <1>1 DEF NewRow, EmailConfirmation
<1>3. issues' \in [Codes -> Issue \union {NULL}]
    BY <1>1 DEF IssueCode, TypeOK, Issue
<1> QED
    BY <1>1, <1>2, <1>3 DEF IssueCode, TypeOK

LEMMA TypeInserted ==
    ASSUME NEW rows \in [Ids -> EmailConfirmation \union {NULL}], NEW id \in Ids,
           NEW row \in EmailConfirmation
    PROVE  [rows EXCEPT ![id] = row] \in [Ids -> EmailConfirmation \union {NULL}]
    OBVIOUS

LEMMA TypeCreateSignUp ==
    ASSUME TypeOK, NEW r \in Requests, NEW id \in Ids, CreateSignUp(r, id)
    PROVE  TypeOK'
<1> DEFINE e == requests[r].email
<1>1. e \in Emails
    BY RequestIsTyped DEF CreateSignUp, At
<1>2. IssueCode(NULL, e)
    BY DEF CreateSignUp
<1>3. confirmations' \in [Ids -> EmailConfirmation \union {NULL}]
  <2>1. confirmations' = [confirmations EXCEPT ![id] = NewRow(NULL, e)]
      BY DEF CreateSignUp
  <2> QED
      BY <1>1, <1>2, <2>1, TypeNewRow, TypeInserted DEF TypeOK
<1>4. requests' \in [Requests -> Request \union {NULL}]
  <2>1. [op |-> "signed_up", user |-> NULL, email |-> e, id |-> id, code |-> issued + 1,
         matches |-> FALSE] \in Request
      BY <1>1, <1>2, TypeNewRow DEF Request, Carried
  <2> QED
      BY <2>1, TypeCarry DEF CreateSignUp
<1> QED
    BY <1>1, <1>2, <1>3, <1>4, TypeNewRow DEF CreateSignUp, TypeOK

LEMMA TypeCreateEmailChange ==
    ASSUME TypeOK, NEW r \in Requests, NEW id \in Ids, CreateEmailChange(r, id)
    PROVE  TypeOK'
<1> DEFINE u == requests[r].user
           e == requests[r].email
<1>1. u \in Users \union {NULL} /\ e \in Emails
    BY RequestIsTyped DEF CreateEmailChange, At
<1>2. IssueCode(u, e)
    BY DEF CreateEmailChange
<1>3. confirmations' \in [Ids -> EmailConfirmation \union {NULL}]
  <2>1. confirmations' = [Without(Superseded(r)) EXCEPT ![id] = NewRow(u, e)]
      BY DEF CreateEmailChange
  <2> QED
      BY <1>1, <1>2, <2>1, TypeNewRow, TypeInserted, TypeRows
<1>4. requests' \in [Requests -> Request \union {NULL}]
    BY TypeFinish DEF CreateEmailChange
<1> QED
    BY <1>1, <1>2, <1>3, <1>4, TypeNewRow DEF CreateEmailChange, TypeOK

LEMMA TypeUpdateEmail ==
    ASSUME TypeOK, NEW r \in Requests, UpdateEmail(r)
    PROVE  TypeOK'
<1>1. requests[r].email \in Emails /\ requests[r].code \in Codes
    BY RequestIsTyped DEF UpdateEmail, At
<1>2. confirmations' \in [Ids -> EmailConfirmation \union {NULL}]
    BY TypeRows DEF UpdateEmail
<1>3. requests' \in [Requests -> Request \union {NULL}]
    BY TypeFinish DEF UpdateEmail
<1>4. emails' \in [Users -> Emails \union {NULL}] /\ accepted' \subseteq Codes
    BY <1>1 DEF UpdateEmail, NewAddress, TypeOK
<1>5. emailCodes' \in [Users -> 0..MaxCodes]
  <2>1. requests[r].code \in 0..MaxCodes
      BY <1>1, ConfirmationsAssumption DEF Codes
  <2> QED
      BY <2>1 DEF UpdateEmail, TypeOK
<1> QED
    BY <1>2, <1>3, <1>4, <1>5 DEF UpdateEmail, TypeOK

LEMMA TypeSignUpStep == ASSUME TypeOK, SignUpStep PROVE TypeOK'
<1> USE DEF history
<1>1. ASSUME NEW r \in Requests, NEW e \in Emails, SignUp(r, e) PROVE TypeOK'
  <2>1. [op |-> "sign_up", user |-> NULL, email |-> e, id |-> 0, code |-> 0,
         matches |-> FALSE] \in Request
      BY <1>1 DEF Request, Carried
  <2>2. requests' \in [Requests -> Request \union {NULL}]
      BY <1>1, <2>1, TypeCarry DEF SignUp
  <2> QED
      BY <1>1, <2>2 DEF SignUp, TypeOK
<1>2. ASSUME NEW r \in Requests, NEW id \in Ids, CreateSignUp(r, id) PROVE TypeOK'
    BY <1>2, TypeCreateSignUp
<1>3. ASSUME NEW r \in Requests, SetEmailConfirmationID(r) PROVE TypeOK'
  <2>1. [id |-> requests[r].id, code |-> requests[r].code] \in Cookie
      BY <1>3, RequestIsTyped DEF SetEmailConfirmationID, At, Cookie
  <2>2. requests' \in [Requests -> Request \union {NULL}]
      BY <1>3, TypeFinish DEF SetEmailConfirmationID
  <2> QED
      BY <1>3, <2>1, <2>2 DEF SetEmailConfirmationID, TypeOK
<1>4. ASSUME NEW r \in Requests, NEW cookie \in cookies, NEW matches \in BOOLEAN,
             Verify(r, cookie, matches)
      PROVE  TypeOK'
  <2>1. cookie.id \in Ids /\ IsRow(cookie.id)
      BY <1>4 DEF Verify, Active, Pending, TypeOK, Cookie
  <2>2. requests' \in [Requests -> Request \union {NULL}]
      BY <1>4, <2>1, TypeRead DEF Verify
  <2> QED
      BY <1>4, <2>2 DEF Verify, TypeOK
<1>5. ASSUME NEW r \in Requests, VerifyRight(r) PROVE TypeOK'
  <2>1. requests[r].code \in Codes
      BY <1>5, RequestIsTyped DEF VerifyRight, At
  <2>2. requests' \in [Requests -> Request \union {NULL}]
      BY <1>5, TypeFinish DEF VerifyRight
  <2>3. confirmations' \in [Ids -> EmailConfirmation \union {NULL}]
      BY <1>5, TypeRows DEF VerifyRight
  <2> QED
      BY <1>5, <2>1, <2>2, <2>3 DEF VerifyRight, TypeOK
<1>6. ASSUME NEW r \in Requests, NEW cookie \in cookies, StartAccount(r, cookie)
      PROVE  TypeOK'
  <2>1. cookie.id \in Ids /\ IsRow(cookie.id)
      BY <1>6 DEF StartAccount, TypeOK, Cookie
  <2>2. requests' \in [Requests -> Request \union {NULL}]
      BY <1>6, <2>1, TypeRead DEF StartAccount
  <2> QED
      BY <1>6, <2>2 DEF StartAccount, TypeOK
<1>7. ASSUME NEW r \in Requests, NEW u \in Users, CreateAccount(r, u) PROVE TypeOK'
  <2>1. requests[r].email \in Emails /\ requests[r].code \in 0..MaxCodes
      BY <1>7, RequestIsTyped, ConfirmationsAssumption DEF CreateAccount, At, Codes
  <2>2. requests' \in [Requests -> Request \union {NULL}]
      BY <1>7, TypeFinish DEF CreateAccount
  <2> QED
      BY <1>7, <2>1, <2>2 DEF CreateAccount, TypeOK
<1>8. ASSUME NEW cookie \in cookies, DropCookie(cookie) PROVE TypeOK'
    BY <1>8 DEF DropCookie, TypeOK
<1> QED
    BY <1>1, <1>2, <1>3, <1>4, <1>5, <1>6, <1>7, <1>8 DEF SignUpStep

LEMMA TypeChangeStep == ASSUME TypeOK, ChangeStep PROVE TypeOK'
<1> USE DEF history
<1>1. ASSUME NEW r \in Requests, NEW u \in Users, NEW e \in Emails, ChangeEmail(r, u, e)
      PROVE  TypeOK'
  <2>1. [op |-> "email_change", user |-> u, email |-> e, id |-> 0, code |-> 0,
         matches |-> FALSE] \in Request
      BY <1>1 DEF Request, Carried
  <2>2. requests' \in [Requests -> Request \union {NULL}]
      BY <1>1, <2>1, TypeCarry DEF ChangeEmail
  <2> QED
      BY <1>1, <2>2 DEF ChangeEmail, TypeOK
<1>2. ASSUME NEW r \in Requests, NEW id \in Ids, CreateEmailChange(r, id) PROVE TypeOK'
    BY <1>2, TypeCreateEmailChange
<1>3. ASSUME NEW r \in Requests, NEW u \in Users, NEW id \in Ids, NEW matches \in BOOLEAN,
             VerifyChange(r, u, id, matches)
      PROVE  TypeOK'
  <2>1. IsRow(id) /\ confirmations[id].user \in Users
      BY <1>3 DEF VerifyChange, Active, Pending
  <2>2. requests' \in [Requests -> Request \union {NULL}]
      BY <1>3, <2>1, TypeRead DEF VerifyChange
  <2> QED
      BY <1>3, <2>2 DEF VerifyChange, TypeOK
<1>4. ASSUME NEW r \in Requests, UpdateEmail(r) PROVE TypeOK'
    BY <1>4, TypeUpdateEmail
<1>5. ASSUME NEW r \in Requests, VerifyWrong(r) PROVE TypeOK'
  <2>1. requests' \in [Requests -> Request \union {NULL}]
      BY <1>5, TypeFinish DEF VerifyWrong
  <2>2. confirmations' \in [Ids -> EmailConfirmation \union {NULL}]
      BY <1>5, TypeRows DEF VerifyWrong
  <2> QED
      BY <1>5, <2>1, <2>2 DEF VerifyWrong, TypeOK
<1>6. ASSUME NEW r \in Requests, Fail(r) PROVE TypeOK'
    BY <1>6, TypeFinish DEF Fail, TypeOK
<1> QED
    BY <1>1, <1>2, <1>3, <1>4, <1>5, <1>6 DEF ChangeStep

LEMMA TypeWorldStep == ASSUME TypeOK, WorldStep PROVE TypeOK'
<1>1. ASSUME NEW u \in Users, Withdraw(u) PROVE TypeOK'
    BY <1>1, ConfirmationsAssumption DEF Withdraw, TypeOK
<1>2. ASSUME NEW u \in Users, Purge(u) PROVE TypeOK'
  <2>1. confirmations' \in [Ids -> EmailConfirmation \union {NULL}]
      BY <1>2, TypeRows DEF Purge
  <2>2. emailCodes' \in [Users -> 0..MaxCodes]
      BY <1>2, ConfirmationsAssumption DEF Purge, TypeOK
  <2>3. issues' \in [Codes -> Issue \union {NULL}]
      BY <1>2 DEF Purge, TypeOK
  <2> QED
      BY <1>2, <2>1, <2>2, <2>3 DEF Purge, TypeOK
<1> QED
    BY <1>1, <1>2 DEF WorldStep

LEMMA TypeStep == TypeOK /\ [Next]_vars => TypeOK'
<1>1. TypeOK /\ UNCHANGED vars => TypeOK'
    BY DEF TypeOK, vars
<1> QED
    BY <1>1, TypeSignUpStep, TypeChangeStep, TypeWorldStep DEF Next

\* Every variable stays of its type, with what a request carries by what it is for: only a
\* request for a change carries an account, and only one that has read a row carries a code.
THEOREM ConfirmationsTypeCorrect == Spec => []TypeOK
    BY TypeInit, TypeStep, PTL DEF Spec

-----------------------------------------------------------------------------
(* Rows.  Most steps leave every row what it was, and only a purge or a new change deletes
   any; the rows of sign-ups stay. *)

RowsKept ==
    \A id \in Ids : confirmations'[id] # NULL =>
        /\ IsRow(id)
        /\ confirmations'[id].user = confirmations[id].user
        /\ confirmations'[id].email = confirmations[id].email
        /\ confirmations'[id].code = confirmations[id].code
        /\ confirmations[id].succeeded => confirmations'[id].succeeded

SignUpsStay ==
    \A id \in Ids : IsRow(id) /\ confirmations[id].user = NULL => confirmations'[id] # NULL

LEMMA KeptUnchanged ==
    ASSUME UNCHANGED confirmations
    PROVE  RowsKept /\ SignUpsStay
    BY DEF RowsKept, SignUpsStay, IsRow

LEMMA KeptIncremented ==
    ASSUME TypeOK, NEW n, confirmations' = IncrementFailedAttempts(n)
    PROVE  RowsKept /\ SignUpsStay
<1>1. \A id \in Ids : IsRow(id) =>
        /\ confirmations[id] \in EmailConfirmation
        /\ [confirmations[id] EXCEPT !.failed = @ + 1] \in EmailConfirmation
    BY RowIsTyped DEF EmailConfirmation
<1>2. NULL \notin EmailConfirmation
    BY ConfirmationsAssumption
<1>3. \A id \in Ids : confirmations'[id] # NULL <=> IsRow(id)
    BY <1>1, <1>2 DEF IncrementFailedAttempts, IsRow
<1>4. \A id \in Ids : IsRow(id) =>
        /\ confirmations'[id].user = confirmations[id].user
        /\ confirmations'[id].email = confirmations[id].email
        /\ confirmations'[id].code = confirmations[id].code
        /\ confirmations'[id].succeeded = confirmations[id].succeeded
    BY <1>1 DEF IncrementFailedAttempts, EmailConfirmation
<1> QED
    BY <1>3, <1>4 DEF RowsKept, SignUpsStay

LEMMA KeptSucceeded ==
    ASSUME TypeOK, NEW n, confirmations' = Succeed(n)
    PROVE  RowsKept /\ SignUpsStay
<1>1. \A id \in Ids : IsRow(id) =>
        /\ confirmations[id] \in EmailConfirmation
        /\ [confirmations[id] EXCEPT !.succeeded = TRUE] \in EmailConfirmation
    BY RowIsTyped DEF EmailConfirmation
<1>2. NULL \notin EmailConfirmation
    BY ConfirmationsAssumption
<1>3. \A id \in Ids : confirmations'[id] # NULL <=> IsRow(id)
    BY <1>1, <1>2 DEF Succeed, IsRow
<1>4. \A id \in Ids : IsRow(id) =>
        /\ confirmations'[id].user = confirmations[id].user
        /\ confirmations'[id].email = confirmations[id].email
        /\ confirmations'[id].code = confirmations[id].code
        /\ confirmations[id].succeeded => confirmations'[id].succeeded
    BY <1>1 DEF Succeed, EmailConfirmation
<1> QED
    BY <1>3, <1>4 DEF RowsKept, SignUpsStay

LEMMA KeptPurged ==
    ASSUME TypeOK, NEW u \in Users, Purge(u)
    PROVE  RowsKept /\ SignUpsStay
<1>1. NULL \notin Users
    BY ConfirmationsAssumption
<1> QED
    BY <1>1 DEF Purge, Without, ConfirmationsOf, RowsKept, SignUpsStay, IsRow

\* The steps that make a row, and all others.
LEMMA RowsStep ==
    ASSUME TypeOK, [Next]_vars
    PROVE  \/ RowsKept /\ SignUpsStay
           \/ \E r \in Requests, id \in Ids : CreateSignUp(r, id) \/ CreateEmailChange(r, id)
<1>1. CASE UNCHANGED vars
    BY <1>1, KeptUnchanged DEF vars
<1>2. CASE SignUpStep
    BY <1>2, KeptUnchanged, KeptSucceeded DEF SignUpStep, SignUp, SetEmailConfirmationID,
       Verify, VerifyRight, StartAccount, CreateAccount, DropCookie
<1>3. CASE ChangeStep
    BY <1>3, KeptUnchanged, KeptSucceeded, KeptIncremented DEF ChangeStep, ChangeEmail,
       VerifyChange, UpdateEmail, VerifyWrong, Fail
<1>4. CASE WorldStep
    BY <1>4, KeptUnchanged, KeptPurged DEF WorldStep, Withdraw
<1> QED
    BY <1>1, <1>2, <1>3, <1>4 DEF Next

-----------------------------------------------------------------------------
(* One pending change *)

LEMMA NewRowFields ==
    ASSUME NEW u, NEW e
    PROVE  /\ NewRow(u, e).user = u
           /\ NewRow(u, e).email = e
           /\ NewRow(u, e).code = issued + 1
           /\ NewRow(u, e).failed = 0
           /\ ~NewRow(u, e).succeeded
    BY DEF NewRow

\* The new row of a sign-up is of no account, and a rowid that is next was free.
LEMMA RowsAfterSignUp ==
    ASSUME TypeOK, NEW r \in Requests, NEW id \in Ids, CreateSignUp(r, id)
    PROVE  /\ ~IsRow(id)
           /\ confirmations'[id] = NewRow(NULL, requests[r].email)
           /\ \A i \in Ids \ {id} : confirmations'[i] = confirmations[i]
<1>1. confirmations' = [confirmations EXCEPT ![id] = NewRow(NULL, requests[r].email)]
    BY DEF CreateSignUp
<1>2. ~IsRow(id)
    BY DEF CreateSignUp, IsNextId, IsRow, Ids
<1> QED
    BY <1>1, <1>2 DEF TypeOK

LEMMA RowsAfterChange ==
    ASSUME TypeOK, NEW r \in Requests, NEW id \in Ids, CreateEmailChange(r, id)
    PROVE  /\ confirmations'[id] = NewRow(requests[r].user, requests[r].email)
           /\ IsRow(id) => id \in Superseded(r)
           /\ \A i \in Ids \ {id} :
                confirmations'[i] = IF i \in Superseded(r) THEN NULL ELSE confirmations[i]
<1>1. confirmations' = [Without(Superseded(r)) EXCEPT
                            ![id] = NewRow(requests[r].user, requests[r].email)]
    BY DEF CreateEmailChange
<1>2. Without(Superseded(r))[id] = NULL
    BY DEF CreateEmailChange, IsNextId, Ids
<1>3. IsRow(id) => id \in Superseded(r)
    BY <1>2 DEF Without, IsRow
<1> QED
    BY <1>1, <1>3 DEF Without

LEMMA OnePendingStep ==
    ASSUME TypeOK, OnePendingChange, [Next]_vars
    PROVE  OnePendingChange'
<1>1. CASE RowsKept
    BY <1>1 DEF RowsKept, OnePendingChange, Pending, IsRow
<1>2. ASSUME NEW r \in Requests, NEW id \in Ids, CreateSignUp(r, id)
      PROVE  OnePendingChange'
  <2>1. confirmations'[id].user = NULL
      BY <1>2, RowsAfterSignUp, NewRowFields
  <2> QED
      BY <1>2, <2>1, RowsAfterSignUp DEF OnePendingChange, Pending, IsRow
<1>3. ASSUME NEW r \in Requests, NEW id \in Ids, CreateEmailChange(r, id)
      PROVE  OnePendingChange'
  <2> DEFINE u == requests[r].user
  <2>1. confirmations'[id].user = u
      BY <1>3, RowsAfterChange, NewRowFields
  <2>2. \A i \in Ids \ {id} : Pending(i)' =>
            confirmations'[i] = confirmations[i] /\ Pending(i) /\ confirmations[i].user # u
      BY <1>3, RowsAfterChange DEF Superseded, Pending, IsRow
  <2> HIDE DEF u
  <2> QED
      BY <2>1, <2>2 DEF OnePendingChange
<1> QED
    BY <1>1, <1>2, <1>3, RowsStep

\* However requests for a change race, an account has one code pending.
THEOREM OnePendingChangeAlways == Spec => []OnePendingChange
<1>1. Init => OnePendingChange
    BY DEF Init, OnePendingChange, Pending, IsRow
<1>2. TypeOK /\ OnePendingChange /\ [Next]_vars => OnePendingChange'
    BY OnePendingStep
<1> QED
    BY <1>1, <1>2, ConfirmationsTypeCorrect, PTL DEF Spec

-----------------------------------------------------------------------------
(* Cookies *)

\* The row of a sign-up that got this code.
Named(id, code) ==
    /\ IsRow(id)
    /\ confirmations[id].user = NULL
    /\ confirmations[id].code = code

\* What is needed besides: so does the answer that is about to set a cookie.
AnswersNameTheirConfirmation ==
    \A r \in Requests : At(r, "signed_up") => Named(requests[r].id, requests[r].code)

CookiesHold == CookiesNameTheirConfirmation /\ AnswersNameTheirConfirmation

LEMMA NamedKept ==
    ASSUME RowsKept, SignUpsStay, NEW id \in Ids, NEW code, Named(id, code)
    PROVE  Named(id, code)'
    BY DEF RowsKept, SignUpsStay, Named, IsRow

\* Steps that make no row hand out no rowid.
AnswersKept ==
    /\ \A r \in Requests : At(r, "signed_up")' => requests'[r] = requests[r]
    /\ \A cookie \in cookies' : cookie \in cookies \/
        \E r \in Requests : At(r, "signed_up") /\ cookie.id = requests[r].id
                                               /\ cookie.code = requests[r].code

LEMMA AnswersKeptByFinish ==
    ASSUME TypeOK, NEW r \in Requests, Finish(r), UNCHANGED cookies
    PROVE  AnswersKept
    BY DEF TypeOK, Finish, AnswersKept, At

LEMMA AnswersKeptByCarry ==
    ASSUME TypeOK, NEW r \in Requests, NEW op, NEW u, NEW e, NEW id, NEW code, NEW matches,
           Carry(r, op, u, e, id, code, matches), op # "signed_up", cookies' = cookies
    PROVE  AnswersKept
    BY DEF TypeOK, Carry, AnswersKept, At

LEMMA AnswersKeptByRead ==
    ASSUME TypeOK, NEW r \in Requests, NEW op, NEW id, NEW matches,
           Read(r, op, id, matches), op # "signed_up", cookies' = cookies
    PROVE  AnswersKept
    BY AnswersKeptByCarry DEF Read

LEMMA AnswersStep ==
    ASSUME TypeOK, [Next]_vars,
           ~\E r \in Requests, id \in Ids : CreateSignUp(r, id)
    PROVE  AnswersKept
<1>1. CASE UNCHANGED vars
    BY <1>1 DEF vars, AnswersKept, At
<1>2. CASE SignUpStep
  <2>1. ASSUME NEW r \in Requests, NEW e \in Emails, SignUp(r, e) PROVE AnswersKept
      BY <2>1, AnswersKeptByCarry DEF SignUp
  <2>2. ASSUME NEW r \in Requests, SetEmailConfirmationID(r) PROVE AnswersKept
      BY <2>2 DEF SetEmailConfirmationID, TypeOK, Finish, AnswersKept, At
  <2>3. ASSUME NEW r \in Requests, NEW cookie \in cookies, NEW matches \in BOOLEAN,
               Verify(r, cookie, matches)
        PROVE  AnswersKept
      BY <2>3, AnswersKeptByRead DEF Verify
  <2>4. ASSUME NEW r \in Requests, VerifyRight(r) PROVE AnswersKept
      BY <2>4, AnswersKeptByFinish DEF VerifyRight
  <2>5. ASSUME NEW r \in Requests, NEW cookie \in cookies, StartAccount(r, cookie)
        PROVE  AnswersKept
      BY <2>5, AnswersKeptByRead DEF StartAccount
  <2>6. ASSUME NEW r \in Requests, NEW u \in Users, CreateAccount(r, u) PROVE AnswersKept
      BY <2>6, AnswersKeptByFinish DEF CreateAccount
  <2>7. ASSUME NEW cookie \in cookies, DropCookie(cookie) PROVE AnswersKept
      BY <2>7 DEF DropCookie, AnswersKept, At
  <2> QED
      BY <1>2, <2>1, <2>2, <2>3, <2>4, <2>5, <2>6, <2>7 DEF SignUpStep
<1>3. CASE ChangeStep
  <2>1. ASSUME NEW r \in Requests, NEW u \in Users, NEW e \in Emails, ChangeEmail(r, u, e)
        PROVE  AnswersKept
      BY <2>1, AnswersKeptByCarry DEF ChangeEmail
  <2>2. ASSUME NEW r \in Requests, NEW id \in Ids, CreateEmailChange(r, id)
        PROVE  AnswersKept
      BY <2>2, AnswersKeptByFinish DEF CreateEmailChange
  <2>3. ASSUME NEW r \in Requests, NEW u \in Users, NEW id \in Ids, NEW matches \in BOOLEAN,
               VerifyChange(r, u, id, matches)
        PROVE  AnswersKept
      BY <2>3, AnswersKeptByRead DEF VerifyChange
  <2>4. ASSUME NEW r \in Requests, UpdateEmail(r) PROVE AnswersKept
      BY <2>4, AnswersKeptByFinish DEF UpdateEmail
  <2>5. ASSUME NEW r \in Requests, VerifyWrong(r) PROVE AnswersKept
      BY <2>5, AnswersKeptByFinish DEF VerifyWrong
  <2>6. ASSUME NEW r \in Requests, Fail(r) PROVE AnswersKept
      BY <2>6, AnswersKeptByFinish DEF Fail
  <2> QED
      BY <1>3, <2>1, <2>2, <2>3, <2>4, <2>5, <2>6 DEF ChangeStep
<1>4. CASE WorldStep
    BY <1>4 DEF WorldStep, Withdraw, Purge, AnswersKept, At
<1> QED
    BY <1>1, <1>2, <1>3, <1>4 DEF Next

\* The names that are out there are good in the next state, and nothing else is handed out.
LEMMA CookiesKept ==
    ASSUME TypeOK, CookiesHold, AnswersKept,
           \A id \in Ids, code \in Codes : Named(id, code) => Named(id, code)'
    PROVE  CookiesHold'
<1>1. AnswersNameTheirConfirmation'
  <2> SUFFICES ASSUME NEW r \in Requests, At(r, "signed_up")'
               PROVE  Named(requests[r].id, requests[r].code)'
      BY DEF AnswersNameTheirConfirmation
  <2>1. requests'[r] = requests[r] /\ At(r, "signed_up")
      BY DEF AnswersKept, At
  <2>2. PICK id \in Ids, code \in Codes : requests[r].id = id /\ requests[r].code = code
      BY <2>1, RequestIsTyped DEF At
  <2>3. Named(id, code)'
      BY <2>1, <2>2 DEF CookiesHold, AnswersNameTheirConfirmation
  <2> QED
      BY <2>1, <2>2, <2>3 DEF Named, IsRow
<1>2. CookiesNameTheirConfirmation'
  <2> SUFFICES ASSUME NEW cookie \in cookies'
               PROVE  IsRow(cookie.id)' /\ confirmations'[cookie.id].user = NULL
                        /\ confirmations'[cookie.id].code = cookie.code
      BY DEF CookiesNameTheirConfirmation
  <2>1. CASE cookie \in cookies
    <3>1. cookie.id \in Ids /\ cookie.code \in Codes
        BY <2>1 DEF TypeOK, Cookie
    <3>2. Named(cookie.id, cookie.code)
        BY <2>1 DEF CookiesHold, CookiesNameTheirConfirmation, Named
    <3> QED
        BY <3>1, <3>2 DEF Named
  <2>2. CASE cookie \notin cookies
    <3>1. PICK r \in Requests : At(r, "signed_up") /\ cookie.id = requests[r].id
                                    /\ cookie.code = requests[r].code
        BY <2>2 DEF AnswersKept
    <3>2. Named(cookie.id, cookie.code)
        BY <3>1 DEF CookiesHold, AnswersNameTheirConfirmation
    <3>3. cookie.id \in Ids /\ cookie.code \in Codes
        BY <3>1, RequestIsTyped DEF At
    <3> QED
        BY <3>2, <3>3 DEF Named
  <2> QED
      BY <2>1, <2>2
<1> QED
    BY <1>1, <1>2 DEF CookiesHold

LEMMA CookiesSignUp ==
    ASSUME TypeOK, CookiesHold, NEW r \in Requests, NEW id \in Ids, CreateSignUp(r, id)
    PROVE  CookiesHold'
<1> DEFINE row == NewRow(NULL, requests[r].email)
           answer == [op |-> "signed_up", user |-> NULL, email |-> requests[r].email, id |-> id,
                      code |-> issued + 1, matches |-> FALSE]
<1>1. /\ confirmations'[id] = row
      /\ \A i \in Ids \ {id} : confirmations'[i] = confirmations[i]
      /\ ~IsRow(id)
    BY RowsAfterSignUp
<1>2. row.user = NULL /\ row.code = issued + 1
    BY NewRowFields
<1>3. row # NULL
  <2>1. requests[r].email \in Emails /\ IssueCode(NULL, requests[r].email)
      BY RequestIsTyped DEF CreateSignUp, At
  <2> QED
      BY <2>1, TypeNewRow, ConfirmationsAssumption
<1>4. requests' = [requests EXCEPT ![r] = answer] /\ cookies' = cookies
    BY DEF CreateSignUp, Carry
<1>5. answer.id = id /\ answer.code = issued + 1
    OBVIOUS
<1> HIDE DEF row, answer
<1>6. \A i \in Ids, c \in Codes : Named(i, c) => Named(i, c)'
    BY <1>1 DEF Named, IsRow
<1>7. ASSUME NEW q \in Requests, At(q, "signed_up")'
      PROVE  Named(requests[q].id, requests[q].code)'
  <2>1. CASE q = r
    <3>1. requests'[q].id = id /\ requests'[q].code = issued + 1
        BY <1>4, <1>5, <2>1 DEF TypeOK
    <3> QED
        BY <3>1, <1>1, <1>2, <1>3 DEF Named, IsRow
  <2>2. CASE q # r
    <3>1. requests'[q] = requests[q] /\ At(q, "signed_up")
        BY <1>4, <1>7, <2>2 DEF TypeOK, At
    <3>2. PICK i \in Ids, c \in Codes : requests[q].id = i /\ requests[q].code = c
        BY <3>1, RequestIsTyped DEF At
    <3>3. Named(i, c)'
        BY <1>6, <3>1, <3>2 DEF CookiesHold, AnswersNameTheirConfirmation
    <3> QED
        BY <3>1, <3>2, <3>3 DEF Named, IsRow
  <2> QED
      BY <2>1, <2>2
<1>8. CookiesNameTheirConfirmation'
  <2> SUFFICES ASSUME NEW cookie \in cookies
               PROVE  IsRow(cookie.id)' /\ confirmations'[cookie.id].user = NULL
                        /\ confirmations'[cookie.id].code = cookie.code
      BY <1>4 DEF CookiesNameTheirConfirmation
  <2>1. cookie.id \in Ids /\ cookie.code \in Codes
      BY DEF TypeOK, Cookie
  <2>2. Named(cookie.id, cookie.code)
      BY DEF CookiesHold, CookiesNameTheirConfirmation, Named
  <2> QED
      BY <1>6, <2>1, <2>2 DEF Named
<1> QED
    BY <1>7, <1>8 DEF CookiesHold, AnswersNameTheirConfirmation

\* A change deletes codes of its account only, and sign-ups are of no account.
LEMMA NamedAfterChange ==
    ASSUME TypeOK, NEW r \in Requests, NEW id \in Ids, CreateEmailChange(r, id),
           NEW i \in Ids, NEW c \in Codes, Named(i, c)
    PROVE  Named(i, c)'
<1>1. requests[r].user # NULL
    BY RequestIsTyped, ConfirmationsAssumption DEF CreateEmailChange, At
<1>2. i \notin Superseded(r)
    BY <1>1 DEF Superseded, Named
<1>3. i # id
    BY <1>2, RowsAfterChange DEF Named
<1> QED
    BY <1>2, <1>3, RowsAfterChange DEF Named, IsRow

LEMMA CookiesStep ==
    ASSUME TypeOK, CookiesHold, [Next]_vars
    PROVE  CookiesHold'
<1>1. CASE \E r \in Requests, id \in Ids : CreateSignUp(r, id)
    BY <1>1, CookiesSignUp
<1>2. CASE ~\E r \in Requests, id \in Ids : CreateSignUp(r, id)
  <2>1. \A i \in Ids, c \in Codes : Named(i, c) => Named(i, c)'
    <3>1. CASE RowsKept /\ SignUpsStay
        BY <3>1, NamedKept
    <3>2. CASE \E r \in Requests, id \in Ids : CreateEmailChange(r, id)
        BY <3>2, NamedAfterChange
    <3> QED
        BY <1>2, <3>1, <3>2, RowsStep
  <2> QED
      BY <1>2, <2>1, AnswersStep, CookiesKept
<1> QED
    BY <1>1, <1>2

LEMMA CookiesAlways == Spec => [](TypeOK /\ CookiesHold)
<1>1. Init => CookiesHold
    BY DEF Init, CookiesHold, CookiesNameTheirConfirmation, AnswersNameTheirConfirmation, At
<1>2. TypeOK /\ CookiesHold /\ [Next]_vars => CookiesHold'
    BY CookiesStep
<1> QED
    BY <1>1, <1>2, ConfirmationsTypeCorrect, PTL DEF Spec

\* The cookie of a sign-up names its own row for as long as it lives.
THEOREM CookiesNameTheirs == Spec => []CookiesNameTheirConfirmation
<1>1. CookiesHold => CookiesNameTheirConfirmation
    BY DEF CookiesHold
<1> QED
    BY <1>1, CookiesAlways, PTL

-----------------------------------------------------------------------------
(* What a code was issued for *)

\* The code went out for this account, or a sign-up, and this address.
Fits(code, u, e) ==
    /\ code \in Codes
    /\ code <= issued
    /\ issues[code] # NULL
    /\ issues[code] = [user |-> u, email |-> e]

RowFits(id) ==
    IsRow(id) =>
        Fits(confirmations[id].code, confirmations[id].user, confirmations[id].email)

\* A request that creates an account read the row of a sign-up: its cookie named one.
RequestFits(r) ==
    requests[r] # NULL /\ requests[r].code # 0 =>
        /\ Fits(requests[r].code, requests[r].user, requests[r].email)
        /\ requests[r].op = "create_account" => requests[r].user = NULL

AddressFits(u) ==
    emailCodes[u] # 0 =>
        \/ Fits(emailCodes[u], NULL, emails[u])
        \/ Fits(emailCodes[u], u, emails[u]) /\ emailCodes[u] \in accepted

CodesFit ==
    /\ \A id \in Ids : RowFits(id)
    /\ \A r \in Requests : RequestFits(r)
    /\ \A u \in Users : AddressFits(u)

\* What becomes of the record of issues.
LEMMA IssuesStep ==
    ASSUME [Next]_vars
    PROVE  \/ UNCHANGED <<issued, issues>>
           \/ \E u, e : IssueCode(u, e)
           \/ \E w \in Users : Purge(w)
<1>1. CASE UNCHANGED vars
    BY <1>1 DEF vars
<1>2. CASE SignUpStep
    BY <1>2 DEF SignUpStep, SignUp, CreateSignUp, SetEmailConfirmationID, Verify, VerifyRight,
       StartAccount, CreateAccount, DropCookie, history
<1>3. CASE ChangeStep
    BY <1>3 DEF ChangeStep, ChangeEmail, CreateEmailChange, VerifyChange, UpdateEmail,
       VerifyWrong, Fail, history
<1>4. CASE WorldStep
    BY <1>4 DEF WorldStep, Withdraw
<1> QED
    BY <1>1, <1>2, <1>3, <1>4 DEF Next

\* A code stays what it was issued for until its account is purged.
LEMMA FitsKept ==
    ASSUME TypeOK, [Next]_vars, NEW code, NEW u, NEW e, Fits(code, u, e),
           \A w \in Users : Purge(w) => w # u
    PROVE  Fits(code, u, e)'
<1>1. CASE UNCHANGED <<issued, issues>>
    BY <1>1 DEF Fits
<1>2. CASE \E v, f : IssueCode(v, f)
  <2>1. PICK v, f : IssueCode(v, f)
      BY <1>2
  <2>2. issued \in Nat /\ code \in Nat
      BY ConfirmationsAssumption DEF TypeOK, Fits, Codes
  <2>3. issued' = issued + 1
      BY <2>1 DEF IssueCode
  <2>4. issues' = [issues EXCEPT ![issued + 1] = [user |-> v, email |-> f]]
      BY <2>1 DEF IssueCode
  <2>5. code # issued + 1 /\ code <= issued'
      BY <2>2, <2>3 DEF Fits
  <2>6. issues'[code] = issues[code]
      BY <2>4, <2>5 DEF TypeOK, Fits
  <2> QED
      BY <2>5, <2>6 DEF Fits
<1>3. ASSUME NEW w \in Users, Purge(w) PROVE Fits(code, u, e)'
  <2>1. w # u /\ issues[code].user = u
      BY <1>3 DEF Fits
  <2>2. issues'[code] = issues[code]
      BY <1>3, <2>1 DEF Purge, Fits
  <2> QED
      BY <1>3, <2>2 DEF Purge, Fits
<1> QED
    BY <1>1, <1>2, <1>3, IssuesStep

\* A code that goes out is issued for the new row.
LEMMA NewCodeFits ==
    ASSUME TypeOK, NEW u \in Users \union {NULL}, NEW e \in Emails, IssueCode(u, e),
           NEW code, code = issued + 1
    PROVE  Fits(code, u, e)'
<1>1. code \in Codes
    BY TypeNewRow
<1>2. issued' = code /\ issues' = [issues EXCEPT ![code] = [user |-> u, email |-> e]]
    BY DEF IssueCode
<1>3. issues'[code] = [user |-> u, email |-> e]
    BY <1>1, <1>2 DEF TypeOK
<1>4. code <= issued'
    BY <1>1, <1>2, ConfirmationsAssumption DEF Codes
<1>5. [user |-> u, email |-> e] \in Issue
    BY DEF Issue
<1>6. [user |-> u, email |-> e] # NULL
    BY <1>5, ConfirmationsAssumption
<1> QED
    BY <1>1, <1>3, <1>4, <1>6 DEF Fits

\* A purge deletes the rows of the account.
LEMMA PurgedRows ==
    ASSUME TypeOK, NEW w \in Users, Purge(w), NEW id \in Ids, IsRow(id)'
    PROVE  confirmations[id].user # w
    BY DEF Purge, Without, ConfirmationsOf, IsRow

LEMMA RowsFitStep ==
    ASSUME TypeOK, CodesFit, [Next]_vars, NEW id \in Ids
    PROVE  RowFits(id)'
<1> DEFINE row == confirmations[id]
<1>1. ASSUME IsRow(id)', IsRow(id), confirmations'[id].user = row.user,
             confirmations'[id].email = row.email, confirmations'[id].code = row.code
      PROVE  RowFits(id)'
  <2>1. Fits(row.code, row.user, row.email)
      BY <1>1 DEF CodesFit, RowFits
  <2>2. \A w \in Users : Purge(w) => w # row.user
      BY <1>1, PurgedRows
  <2>3. PICK c, u, e : c = row.code /\ u = row.user /\ e = row.email
      OBVIOUS
  <2>4. Fits(c, u, e)'
      BY <2>1, <2>2, <2>3, FitsKept
  <2> QED
      BY <1>1, <2>3, <2>4 DEF RowFits, Fits
<1>2. ASSUME NEW u \in Users \union {NULL}, NEW e \in Emails, IssueCode(u, e),
             confirmations'[id] = NewRow(u, e)
      PROVE  RowFits(id)'
  <2>1. PICK c : c = issued + 1
      OBVIOUS
  <2>2. Fits(c, u, e)'
      BY <1>2, <2>1, NewCodeFits
  <2>3. confirmations'[id].code = c /\ confirmations'[id].user = u /\ confirmations'[id].email = e
      BY <1>2, <2>1, NewRowFields
  <2> QED
      BY <2>2, <2>3 DEF RowFits, Fits
<1>3. CASE RowsKept
    BY <1>1, <1>3 DEF RowsKept, RowFits, IsRow
<1>4. ASSUME NEW r \in Requests, NEW i \in Ids, CreateSignUp(r, i) PROVE RowFits(id)'
  <2>1. requests[r].email \in Emails /\ IssueCode(NULL, requests[r].email)
      BY <1>4, RequestIsTyped DEF CreateSignUp, At
  <2>2. CASE id = i
      BY <1>2, <1>4, <2>1, <2>2, RowsAfterSignUp
  <2>3. CASE id # i
      BY <1>1, <1>4, <2>3, RowsAfterSignUp DEF RowFits, IsRow
  <2> QED
      BY <2>2, <2>3
<1>5. ASSUME NEW r \in Requests, NEW i \in Ids, CreateEmailChange(r, i) PROVE RowFits(id)'
  <2>1. /\ requests[r].email \in Emails
        /\ requests[r].user \in Users \union {NULL}
        /\ IssueCode(requests[r].user, requests[r].email)
      BY <1>5, RequestIsTyped DEF CreateEmailChange, At
  <2>2. CASE id = i
      BY <1>2, <1>5, <2>1, <2>2, RowsAfterChange
  <2>3. CASE id # i
      BY <1>1, <1>5, <2>3, RowsAfterChange DEF RowFits, IsRow
  <2> QED
      BY <2>2, <2>3
<1> QED
    BY <1>3, <1>4, <1>5, RowsStep

\* A slot that is emptied, asks, or reads a row: what it carries afterwards fits.
LEMMA FitsFinish ==
    ASSUME TypeOK, NEW r \in Requests, Finish(r), NEW q \in Requests
    PROVE  RequestFits(q)' \/ requests'[q] = requests[q]
    BY DEF TypeOK, Finish, RequestFits

LEMMA FitsAsk ==
    ASSUME TypeOK, NEW r \in Requests, NEW op, NEW u, NEW e,
           Carry(r, op, u, e, 0, 0, FALSE), NEW q \in Requests
    PROVE  RequestFits(q)' \/ requests'[q] = requests[q]
    BY DEF TypeOK, Carry, RequestFits

LEMMA FitsRead ==
    ASSUME TypeOK, CodesFit, NEW r \in Requests, NEW op, NEW id \in Ids, NEW matches,
           IsRow(id), Read(r, op, id, matches), UNCHANGED <<issued, issues>>,
           op = "create_account" => confirmations[id].user = NULL,
           NEW q \in Requests
    PROVE  RequestFits(q)' \/ requests'[q] = requests[q]
<1> DEFINE row == confirmations[id]
           request == [op |-> op, user |-> row.user, email |-> row.email, id |-> id,
                       code |-> row.code, matches |-> matches]
<1>1. requests' = [requests EXCEPT ![r] = request]
    BY DEF Read, Carry
<1>2. /\ request.op = op /\ request.user = row.user /\ request.email = row.email
      /\ request.code = row.code
    OBVIOUS
<1>3. Fits(row.code, row.user, row.email)
    BY DEF CodesFit, RowFits
<1> HIDE DEF row, request
<1>4. q = r => requests'[q] = request
    BY <1>1 DEF TypeOK
<1>5. q # r => requests'[q] = requests[q]
    BY <1>1 DEF TypeOK
<1>6. q = r => RequestFits(q)'
    BY <1>2, <1>3, <1>4 DEF RequestFits, Fits, row
<1> QED
    BY <1>5, <1>6

LEMMA FitsSignedUp ==
    ASSUME TypeOK, NEW r \in Requests, NEW id \in Ids, CreateSignUp(r, id), NEW q \in Requests
    PROVE  RequestFits(q)' \/ requests'[q] = requests[q]
<1> DEFINE e == requests[r].email
<1>1. PICK c : c = issued + 1
    OBVIOUS
<1> DEFINE answer == [op |-> "signed_up", user |-> NULL, email |-> e, id |-> id,
                      code |-> c, matches |-> FALSE]
<1>2. requests' = [requests EXCEPT ![r] = answer]
    BY <1>1 DEF CreateSignUp, Carry
<1>3. Fits(c, NULL, e)'
  <2>1. PICK f \in Emails : f = e
      BY RequestIsTyped DEF CreateSignUp, At
  <2>2. Fits(c, NULL, f)'
      BY <1>1, <2>1, NewCodeFits DEF CreateSignUp
  <2>3. requests'[r].email = f
      BY <1>2, <2>1 DEF TypeOK
  <2> QED
      BY <2>2, <2>3
<1>4. requests'[r] = answer /\ (q # r => requests'[q] = requests[q])
    BY <1>2 DEF TypeOK
<1>5. answer.op = "signed_up" /\ answer.user = NULL /\ answer.email = e /\ answer.code = c
    OBVIOUS
<1> HIDE DEF answer
<1>6. q = r => RequestFits(q)'
    BY <1>3, <1>4, <1>5 DEF RequestFits, Fits
<1> QED
    BY <1>4, <1>6

LEMMA NewRequestsFit ==
    ASSUME TypeOK, CookiesHold, CodesFit, [Next]_vars, NEW q \in Requests
    PROVE  RequestFits(q)' \/ requests'[q] = requests[q]
<1> DEFINE Goal == RequestFits(q)' \/ requests'[q] = requests[q]
<1> USE DEF history
<1>1. CASE UNCHANGED vars
    BY <1>1 DEF vars
<1>2. CASE SignUpStep
  <2>1. ASSUME NEW r \in Requests, NEW e \in Emails, SignUp(r, e) PROVE Goal
      BY <2>1, FitsAsk DEF SignUp
  <2>2. ASSUME NEW r \in Requests, NEW id \in Ids, CreateSignUp(r, id) PROVE Goal
      BY <2>2, FitsSignedUp
  <2>3. ASSUME NEW r \in Requests, SetEmailConfirmationID(r) PROVE Goal
      BY <2>3, FitsFinish DEF SetEmailConfirmationID
  <2>4. ASSUME NEW r \in Requests, NEW cookie \in cookies, NEW matches \in BOOLEAN,
               Verify(r, cookie, matches)
        PROVE  Goal
    <3>1. cookie.id \in Ids /\ IsRow(cookie.id)
        BY <2>4 DEF Verify, Active, Pending, TypeOK, Cookie
    <3> QED
        BY <2>4, <3>1, FitsRead DEF Verify
  <2>5. ASSUME NEW r \in Requests, VerifyRight(r) PROVE Goal
      BY <2>5, FitsFinish DEF VerifyRight
  <2>6. ASSUME NEW r \in Requests, NEW cookie \in cookies, StartAccount(r, cookie) PROVE Goal
    <3>1. cookie.id \in Ids /\ IsRow(cookie.id) /\ confirmations[cookie.id].user = NULL
        BY <2>6 DEF TypeOK, Cookie, CookiesHold, CookiesNameTheirConfirmation
    <3> QED
        BY <2>6, <3>1, FitsRead DEF StartAccount
  <2>7. ASSUME NEW r \in Requests, NEW u \in Users, CreateAccount(r, u) PROVE Goal
      BY <2>7, FitsFinish DEF CreateAccount
  <2>8. ASSUME NEW cookie \in cookies, DropCookie(cookie) PROVE Goal
      BY <2>8 DEF DropCookie
  <2> QED
      BY <1>2, <2>1, <2>2, <2>3, <2>4, <2>5, <2>6, <2>7, <2>8 DEF SignUpStep
<1>3. CASE ChangeStep
  <2>1. ASSUME NEW r \in Requests, NEW u \in Users, NEW e \in Emails, ChangeEmail(r, u, e)
        PROVE  Goal
      BY <2>1, FitsAsk DEF ChangeEmail
  <2>2. ASSUME NEW r \in Requests, NEW id \in Ids, CreateEmailChange(r, id) PROVE Goal
      BY <2>2, FitsFinish DEF CreateEmailChange
  <2>3. ASSUME NEW r \in Requests, NEW u \in Users, NEW id \in Ids, NEW matches \in BOOLEAN,
               VerifyChange(r, u, id, matches)
        PROVE  Goal
    <3>1. IsRow(id)
        BY <2>3 DEF VerifyChange, Active, Pending
    <3> QED
        BY <2>3, <3>1, FitsRead DEF VerifyChange
  <2>4. ASSUME NEW r \in Requests, UpdateEmail(r) PROVE Goal
      BY <2>4, FitsFinish DEF UpdateEmail
  <2>5. ASSUME NEW r \in Requests, VerifyWrong(r) PROVE Goal
      BY <2>5, FitsFinish DEF VerifyWrong
  <2>6. ASSUME NEW r \in Requests, Fail(r) PROVE Goal
      BY <2>6, FitsFinish DEF Fail
  <2> QED
      BY <1>3, <2>1, <2>2, <2>3, <2>4, <2>5, <2>6 DEF ChangeStep
<1>4. CASE WorldStep
    BY <1>4 DEF WorldStep, Withdraw, Purge
<1> QED
    BY <1>1, <1>2, <1>3, <1>4 DEF Next

LEMMA RequestsFitStep ==
    ASSUME TypeOK, CookiesHold, CodesFit, [Next]_vars, NEW q \in Requests
    PROVE  RequestFits(q)'
<1>1. CASE requests'[q] = requests[q] /\ requests[q] # NULL /\ requests[q].code # 0
  <2>1. PICK c, u, e : c = requests[q].code /\ u = requests[q].user /\ e = requests[q].email
      OBVIOUS
  <2>2. Fits(c, u, e) /\ (requests[q].op = "create_account" => u = NULL)
      BY <1>1, <2>1 DEF CodesFit, RequestFits
  <2>3. \A w \in Users : Purge(w) => w # u
      BY <1>1, <2>1 DEF Purge
  <2>4. Fits(c, u, e)'
      BY <2>2, <2>3, FitsKept
  <2> QED
      BY <1>1, <2>1, <2>2, <2>4 DEF RequestFits, Fits
<1>2. CASE requests'[q] = requests[q] /\ (requests[q] = NULL \/ requests[q].code = 0)
    BY <1>2 DEF RequestFits
<1> QED
    BY <1>1, <1>2, NewRequestsFit

LEMMA AddressesStep ==
    ASSUME [Next]_vars
    PROVE  \/ UNCHANGED <<emails, emailCodes>> /\ accepted \subseteq accepted'
           \/ \E r \in Requests, u \in Users : CreateAccount(r, u)
           \/ \E r \in Requests : UpdateEmail(r)
           \/ \E u \in Users : Withdraw(u) \/ Purge(u)
<1>1. CASE UNCHANGED vars
    BY <1>1 DEF vars
<1>2. CASE SignUpStep
    BY <1>2 DEF SignUpStep, SignUp, CreateSignUp, SetEmailConfirmationID, Verify, VerifyRight,
       StartAccount, DropCookie, history, IssueCode
<1>3. CASE ChangeStep
    BY <1>3 DEF ChangeStep, ChangeEmail, CreateEmailChange, VerifyChange,
       VerifyWrong, Fail, history, IssueCode
<1>4. CASE WorldStep
    BY <1>4 DEF WorldStep
<1> QED
    BY <1>1, <1>2, <1>3, <1>4 DEF Next

\* An account whose address a step does not touch.
LEMMA AddressKept ==
    ASSUME TypeOK, CodesFit, [Next]_vars, NEW u \in Users, ~Purge(u),
           emails'[u] = emails[u], emailCodes'[u] = emailCodes[u], accepted \subseteq accepted'
    PROVE  AddressFits(u)'
<1>1. PICK c, e : c = emailCodes[u] /\ e = emails[u]
    OBVIOUS
<1>2. u # NULL /\ \A w \in Users : w # NULL
    BY ConfirmationsAssumption
<1>3. ASSUME Fits(c, NULL, e) PROVE Fits(c, NULL, e)'
    BY <1>2, <1>3, FitsKept
<1>4. ASSUME Fits(c, u, e) PROVE Fits(c, u, e)'
    BY <1>4, FitsKept
<1>5. c # 0 => Fits(c, NULL, e) \/ (Fits(c, u, e) /\ c \in accepted)
    BY <1>1 DEF CodesFit, AddressFits
<1> QED
    BY <1>1, <1>3, <1>4, <1>5 DEF AddressFits, Fits

LEMMA AddressesFitStep ==
    ASSUME TypeOK, CodesFit, [Next]_vars, NEW v \in Users
    PROVE  AddressFits(v)'
<1>1. CASE UNCHANGED <<emails, emailCodes>> /\ accepted \subseteq accepted' /\ ~Purge(v)
    BY <1>1, AddressKept
<1>2. ASSUME NEW r \in Requests, NEW u \in Users, CreateAccount(r, u), ~Purge(v)
      PROVE  AddressFits(v)'
  <2>1. CASE v # u
      BY <1>2, <2>1, AddressKept DEF CreateAccount, TypeOK
  <2>2. CASE v = u
    <3>1. PICK c, e : c = requests[r].code /\ e = requests[r].email
        OBVIOUS
    <3>2. requests[r] # NULL /\ requests[r].op = "create_account" /\ c \in Codes
        BY <1>2, <3>1, RequestIsTyped DEF CreateAccount, At
    <3>3. c # 0
        BY <3>2 DEF Codes
    <3>4. Fits(c, NULL, e)
        BY <3>1, <3>2, <3>3 DEF CodesFit, RequestFits
    <3>5. emails'[v] = e /\ emailCodes'[v] = c /\ UNCHANGED <<issued, issues>>
        BY <1>2, <2>2, <3>1 DEF CreateAccount, TypeOK
    <3> QED
        BY <3>4, <3>5 DEF AddressFits, Fits
  <2> QED
      BY <2>1, <2>2
<1>3. ASSUME NEW r \in Requests, UpdateEmail(r), ~Purge(v)
      PROVE  AddressFits(v)'
  <2>1. CASE v # requests[r].user
      BY <1>3, <2>1, AddressKept DEF UpdateEmail, TypeOK
  <2>2. CASE v = requests[r].user
    <3>1. PICK c, e : c = requests[r].code /\ e = requests[r].email
        OBVIOUS
    <3>2. requests[r] # NULL /\ c \in Codes
        BY <1>3, <3>1, RequestIsTyped DEF UpdateEmail, At
    <3>3. c # 0
        BY <3>2 DEF Codes
    <3>4. Fits(c, v, e)
        BY <2>2, <3>1, <3>2, <3>3 DEF CodesFit, RequestFits
    <3>5. /\ emails'[v] = e /\ emailCodes'[v] = c /\ c \in accepted'
          /\ UNCHANGED <<issued, issues>>
        BY <1>3, <2>2, <3>1 DEF UpdateEmail, NewAddress, TypeOK
    <3> QED
        BY <3>4, <3>5 DEF AddressFits, Fits
  <2> QED
      BY <2>1, <2>2
<1>4. ASSUME NEW u \in Users, Withdraw(u) \/ Purge(u)
      PROVE  AddressFits(v)'
  <2>1. CASE v = u
    <3>1. emailCodes'[v] = 0
        BY <1>4, <2>1 DEF Withdraw, Purge, TypeOK
    <3> QED
        BY <3>1 DEF AddressFits
  <2>2. CASE v # u /\ ~Purge(v)
      BY <1>4, <2>2, AddressKept DEF Withdraw, Purge, TypeOK
  <2>3. CASE Purge(v)
    <3>1. emailCodes'[v] = 0
        BY <2>3 DEF Purge, TypeOK
    <3> QED
        BY <3>1 DEF AddressFits
  <2> QED
      BY <2>1, <2>2, <2>3
<1> QED
    BY <1>1, <1>2, <1>3, <1>4, AddressesStep

LEMMA CodesAlways == Spec => [](TypeOK /\ CookiesHold /\ CodesFit)
<1>1. Init => CodesFit
    BY DEF Init, CodesFit, RowFits, RequestFits, AddressFits, IsRow
<1>2. TypeOK /\ CookiesHold /\ CodesFit /\ [Next]_vars => CodesFit'
    BY RowsFitStep, RequestsFitStep, AddressesFitStep DEF CodesFit
<1> QED
    BY <1>1, <1>2, CookiesAlways, PTL DEF Spec

\* The address of an account is one that was proved for it, whatever became of the rows and
\* their rowids between the reading of a code and the transaction.
THEOREM AddressesAreProven == Spec => []AddressesComeFromOwnCodes
<1>1. CodesFit => AddressesComeFromOwnCodes
  <2> SUFFICES ASSUME CodesFit, NEW u \in Users, emailCodes[u] # 0
               PROVE  LET issue == issues[emailCodes[u]]
                      IN  /\ issue # NULL
                          /\ issue.email = emails[u]
                          /\ issue.user = NULL \/ (issue.user = u /\ emailCodes[u] \in accepted)
      BY DEF AddressesComeFromOwnCodes
  <2>1. PICK c, e : c = emailCodes[u] /\ e = emails[u]
      OBVIOUS
  <2>2. Fits(c, NULL, e) \/ (Fits(c, u, e) /\ c \in accepted)
      BY <2>1 DEF CodesFit, AddressFits
  <2>3. /\ issues[c] # NULL
        /\ issues[c].email = e
        /\ issues[c].user = NULL \/ (issues[c].user = u /\ c \in accepted)
      BY <2>2 DEF Fits
  <2> QED
      BY <2>1, <2>3
<1> QED
    BY <1>1, CodesAlways, PTL

-----------------------------------------------------------------------------
(* Attempts *)

\* The requests that have read a row, or an earlier one of its rowid, to check a code.
Checking(id) ==
    {r \in Requests :
        /\ requests[r] # NULL
        /\ requests[r].op \in {"verify", "verify_change"}
        /\ requests[r].id = id}

\* What makes FailuresConverge inductive: every request that is still to count its attempt is
\* counted in advance.
AttemptsAreCounted ==
    \A id \in Ids : IsRow(id) =>
        confirmations[id].failed + Cardinality(Checking(id)) <=
            MaxAttempts - 1 + Cardinality(Requests)

LEMMA CheckingFinite ==
    ASSUME NEW S \in SUBSET Requests
    PROVE  IsFiniteSet(S) /\ Cardinality(S) \in Nat /\ Cardinality(S) <= Cardinality(Requests)
<1>1. IsFiniteSet(Requests)
    BY ConfirmationsAssumption
<1> QED
    BY <1>1, FS_Subset, FS_CardinalityType

\* Of a row that has no more failures and no more checks than before, or that is new.
LEMMA AttemptsKept ==
    ASSUME TypeOK, AttemptsAreCounted, NEW id \in Ids, IsRow(id),
           confirmations'[id].failed = confirmations[id].failed,
           Checking(id)' \subseteq Checking(id)
    PROVE  confirmations'[id].failed + Cardinality(Checking(id)') <=
                MaxAttempts - 1 + Cardinality(Requests)
<1>1. Checking(id) \in SUBSET Requests /\ Checking(id)' \in SUBSET Checking(id)
    BY DEF Checking
<1>2. /\ IsFiniteSet(Checking(id)) /\ Cardinality(Checking(id)) \in Nat
      /\ Cardinality(Requests) \in Nat
    BY <1>1, CheckingFinite
<1>3. Cardinality(Checking(id)') <= Cardinality(Checking(id)) /\ Cardinality(Checking(id)') \in Nat
    BY <1>1, <1>2, FS_Subset, FS_CardinalityType
<1>4. confirmations[id].failed \in Nat
    BY RowIsTyped DEF EmailConfirmation
<1>5. confirmations[id].failed + Cardinality(Checking(id)) <=
        MaxAttempts - 1 + Cardinality(Requests)
    BY DEF AttemptsAreCounted
<1> QED
    BY <1>2, <1>3, <1>4, <1>5, ConfirmationsAssumption

LEMMA AttemptsFew ==
    ASSUME NEW id \in Ids, confirmations'[id].failed \in Nat,
           confirmations'[id].failed <= MaxAttempts - 1
    PROVE  confirmations'[id].failed + Cardinality(Checking(id)') <=
                MaxAttempts - 1 + Cardinality(Requests)
<1>1. Checking(id)' \in SUBSET Requests
    BY DEF Checking
<1>2. Cardinality(Checking(id)') \in Nat /\ Cardinality(Checking(id)') <= Cardinality(Requests)
    BY <1>1, CheckingFinite
<1>3. Cardinality(Requests) \in Nat
    BY CheckingFinite
<1> QED
    BY <1>2, <1>3, ConfirmationsAssumption

\* Steps that read no row to check a code.
ChecksKept == \A id \in Ids : Checking(id)' \subseteq Checking(id)

LEMMA ChecksKeptByFinish ==
    ASSUME TypeOK, NEW r \in Requests, Finish(r)
    PROVE  ChecksKept
    BY DEF TypeOK, Finish, ChecksKept, Checking

LEMMA ChecksKeptByCarry ==
    ASSUME TypeOK, NEW r \in Requests, NEW op, NEW u, NEW e, NEW id, NEW code, NEW matches,
           Carry(r, op, u, e, id, code, matches), op # "verify", op # "verify_change"
    PROVE  ChecksKept
<1> DEFINE request == [op |-> op, user |-> u, email |-> e, id |-> id, code |-> code,
                       matches |-> matches]
<1>1. requests' = [requests EXCEPT ![r] = request]
    BY DEF Carry
<1>2. request.op # "verify" /\ request.op # "verify_change"
    OBVIOUS
<1> HIDE DEF request
<1> QED
    BY <1>1, <1>2 DEF TypeOK, ChecksKept, Checking

\* A request that reads a row checks that row and no other.
LEMMA ChecksAfterRead ==
    ASSUME TypeOK, NEW r \in Requests, NEW op, NEW id \in Ids, NEW matches,
           Read(r, op, id, matches), NEW other \in Ids, other # id
    PROVE  Checking(other)' \subseteq Checking(other)
<1> DEFINE row == confirmations[id]
           request == [op |-> op, user |-> row.user, email |-> row.email, id |-> id,
                       code |-> row.code, matches |-> matches]
<1>1. requests' = [requests EXCEPT ![r] = request]
    BY DEF Read, Carry
<1>2. request.id = id
    OBVIOUS
<1> HIDE DEF request
<1> QED
    BY <1>1, <1>2 DEF TypeOK, Checking

LEMMA ChecksStep ==
    ASSUME TypeOK, [Next]_vars
    PROVE  \/ ChecksKept
           \/ \E r \in Requests, cookie \in cookies, matches \in BOOLEAN :
                Verify(r, cookie, matches)
           \/ \E r \in Requests, u \in Users, id \in Ids, matches \in BOOLEAN :
                VerifyChange(r, u, id, matches)
<1>1. CASE UNCHANGED vars
    BY <1>1 DEF vars, ChecksKept, Checking
<1>2. CASE SignUpStep
  <2>1. ASSUME NEW r \in Requests, NEW e \in Emails, SignUp(r, e) PROVE ChecksKept
      BY <2>1, ChecksKeptByCarry DEF SignUp
  <2>2. ASSUME NEW r \in Requests, NEW id \in Ids, CreateSignUp(r, id) PROVE ChecksKept
    <3>1. PICK e, c : Carry(r, "signed_up", NULL, e, id, c, FALSE)
        BY <2>2 DEF CreateSignUp
    <3> QED
        BY <3>1, ChecksKeptByCarry
  <2>3. ASSUME NEW r \in Requests, SetEmailConfirmationID(r) PROVE ChecksKept
      BY <2>3, ChecksKeptByFinish DEF SetEmailConfirmationID
  <2>4. ASSUME NEW r \in Requests, VerifyRight(r) PROVE ChecksKept
      BY <2>4, ChecksKeptByFinish DEF VerifyRight
  <2>5. ASSUME NEW r \in Requests, NEW cookie \in cookies, StartAccount(r, cookie)
        PROVE  ChecksKept
    <3>1. PICK u, e, id, c : Carry(r, "create_account", u, e, id, c, TRUE)
        BY <2>5 DEF StartAccount, Read
    <3> QED
        BY <3>1, ChecksKeptByCarry
  <2>6. ASSUME NEW r \in Requests, NEW u \in Users, CreateAccount(r, u) PROVE ChecksKept
      BY <2>6, ChecksKeptByFinish DEF CreateAccount
  <2>7. ASSUME NEW cookie \in cookies, DropCookie(cookie) PROVE ChecksKept
      BY <2>7 DEF DropCookie, ChecksKept, Checking
  <2> QED
      BY <1>2, <2>1, <2>2, <2>3, <2>4, <2>5, <2>6, <2>7 DEF SignUpStep
<1>3. CASE ChangeStep
  <2>1. ASSUME NEW r \in Requests, NEW u \in Users, NEW e \in Emails, ChangeEmail(r, u, e)
        PROVE  ChecksKept
      BY <2>1, ChecksKeptByCarry DEF ChangeEmail
  <2>2. ASSUME NEW r \in Requests, NEW id \in Ids, CreateEmailChange(r, id) PROVE ChecksKept
      BY <2>2, ChecksKeptByFinish DEF CreateEmailChange
  <2>3. ASSUME NEW r \in Requests, UpdateEmail(r) PROVE ChecksKept
      BY <2>3, ChecksKeptByFinish DEF UpdateEmail
  <2>4. ASSUME NEW r \in Requests, VerifyWrong(r) PROVE ChecksKept
      BY <2>4, ChecksKeptByFinish DEF VerifyWrong
  <2>5. ASSUME NEW r \in Requests, Fail(r) PROVE ChecksKept
      BY <2>5, ChecksKeptByFinish DEF Fail
  <2> QED
      BY <1>3, <2>1, <2>2, <2>3, <2>4, <2>5 DEF ChangeStep
<1>4. CASE WorldStep
    BY <1>4 DEF WorldStep, Withdraw, Purge, ChecksKept, Checking
<1> QED
    BY <1>1, <1>2, <1>3, <1>4 DEF Next

\* Counting a wrong code takes its request out of those that check.
LEMMA AttemptsAfterWrong ==
    ASSUME TypeOK, AttemptsAreCounted, NEW r \in Requests, VerifyWrong(r), NEW id,
           id = requests[r].id, IsRow(id)
    PROVE  confirmations'[id].failed + Cardinality(Checking(id)') <=
                MaxAttempts - 1 + Cardinality(Requests)
<1>1. id = requests[r].id
    OBVIOUS
<1>2. id \in Ids /\ requests[r] # NULL /\ requests[r].op \in {"verify", "verify_change"}
    BY <1>1, RequestIsTyped DEF VerifyWrong, At
<1>3. r \in Checking(id) /\ Checking(id) \in SUBSET Requests
    BY <1>1, <1>2 DEF Checking
<1>4. requests' = [requests EXCEPT ![r] = NULL]
    BY DEF VerifyWrong, Finish
<1>5. Checking(id)' = Checking(id) \ {r}
    BY <1>4 DEF TypeOK, Checking
<1>6. /\ IsFiniteSet(Checking(id)) /\ Cardinality(Checking(id)) \in Nat
      /\ Cardinality(Requests) \in Nat
    BY <1>3, CheckingFinite
<1>7. Cardinality(Checking(id)') = Cardinality(Checking(id)) - 1
    BY <1>3, <1>5, <1>6, FS_RemoveElement
<1>8. confirmations[id] \in EmailConfirmation /\ IsRow(id)
    BY <1>1, <1>2, RowIsTyped
<1>9. confirmations'[id].failed = confirmations[id].failed + 1
  <2>1. confirmations'[id] = [confirmations[id] EXCEPT !.failed = @ + 1]
      BY <1>1, <1>2, <1>8 DEF VerifyWrong, IncrementFailedAttempts
  <2> QED
      BY <1>8, <2>1 DEF EmailConfirmation
<1>10. confirmations[id].failed + Cardinality(Checking(id)) <=
        MaxAttempts - 1 + Cardinality(Requests)
    BY <1>2, <1>8 DEF AttemptsAreCounted
<1>11. confirmations[id].failed \in Nat
    BY <1>8 DEF EmailConfirmation
<1> QED
    BY <1>6, <1>7, <1>9, <1>10, <1>11, ConfirmationsAssumption

\* A row that no wrong code was counted for is the one before, or new.
LEMMA FailuresStep ==
    ASSUME TypeOK, [Next]_vars, NEW id \in Ids, IsRow(id)'
    PROVE  \/ IsRow(id) /\ confirmations'[id].failed = confirmations[id].failed
           \/ confirmations'[id].failed = 0
           \/ \E r \in Requests : VerifyWrong(r) /\ requests[r].id = id /\ IsRow(id)
<1> DEFINE Goal == \/ IsRow(id) /\ confirmations'[id].failed = confirmations[id].failed
                   \/ confirmations'[id].failed = 0
                   \/ \E r \in Requests : VerifyWrong(r) /\ requests[r].id = id /\ IsRow(id)
<1>1. CASE UNCHANGED confirmations
    BY <1>1 DEF IsRow
<1>2. ASSUME NEW r \in Requests, NEW n \in Ids, CreateSignUp(r, n) PROVE Goal
  <2>1. CASE n = id
      BY <1>2, <2>1, RowsAfterSignUp, NewRowFields
  <2>2. CASE n # id
      BY <1>2, <2>2, RowsAfterSignUp DEF IsRow
  <2> QED
      BY <2>1, <2>2
<1>3. ASSUME NEW r \in Requests, NEW n \in Ids, CreateEmailChange(r, n) PROVE Goal
  <2>1. CASE n = id
      BY <1>3, <2>1, RowsAfterChange, NewRowFields
  <2>2. CASE n # id
      BY <1>3, <2>2, RowsAfterChange DEF IsRow
  <2> QED
      BY <2>1, <2>2
<1>4. ASSUME NEW n, confirmations' = Succeed(n) PROVE Goal
  <2>1. IsRow(id)
      BY <1>4, KeptSucceeded DEF RowsKept, IsRow
  <2>2. confirmations[id] \in EmailConfirmation
      BY <2>1, RowIsTyped
  <2> QED
      BY <1>4, <2>1, <2>2 DEF Succeed, EmailConfirmation
<1>5. ASSUME NEW r \in Requests, VerifyWrong(r) PROVE Goal
  <2>1. confirmations' = IncrementFailedAttempts(requests[r].id)
      BY <1>5 DEF VerifyWrong
  <2>2. IsRow(id)
      BY <2>1, KeptIncremented DEF RowsKept, IsRow
  <2>3. CASE requests[r].id = id
      BY <1>5, <2>2, <2>3
  <2>4. CASE requests[r].id # id
      BY <2>1, <2>2, <2>4 DEF IncrementFailedAttempts
  <2> QED
      BY <2>3, <2>4
<1>6. ASSUME NEW u \in Users, Purge(u) PROVE Goal
    BY <1>6 DEF Purge, Without, IsRow
<1>7. \/ UNCHANGED confirmations
      \/ \E r \in Requests, n \in Ids : CreateSignUp(r, n) \/ CreateEmailChange(r, n)
      \/ \E n : confirmations' = Succeed(n)
      \/ \E r \in Requests : VerifyWrong(r)
      \/ \E u \in Users : Purge(u)
  <2>1. CASE UNCHANGED vars
      BY <2>1 DEF vars
  <2>2. CASE SignUpStep
      BY <2>2 DEF SignUpStep, SignUp, SetEmailConfirmationID, Verify, VerifyRight, StartAccount,
         CreateAccount, DropCookie
  <2>3. CASE ChangeStep
      BY <2>3 DEF ChangeStep, ChangeEmail, VerifyChange, UpdateEmail, Fail
  <2>4. CASE WorldStep
      BY <2>4 DEF WorldStep, Withdraw
  <2> QED
      BY <2>1, <2>2, <2>3, <2>4 DEF Next
<1> QED
    BY <1>1, <1>2, <1>3, <1>4, <1>5, <1>6, <1>7

\* A row that a request reads to check a code has a failure left.
LEMMA AttemptsAfterRead ==
    ASSUME TypeOK, AttemptsAreCounted, NEW r \in Requests, NEW op, NEW n \in Ids, NEW matches,
           Active(n), Read(r, op, n, matches), UNCHANGED confirmations, NEW id \in Ids, IsRow(id)
    PROVE  confirmations'[id].failed + Cardinality(Checking(id)') <=
                MaxAttempts - 1 + Cardinality(Requests)
<1>1. CASE id = n
  <2>1. confirmations[id].failed \in Nat /\ confirmations[id].failed < MaxAttempts
      BY <1>1, RowIsTyped DEF Active, EmailConfirmation
  <2>2. confirmations'[id].failed \in Nat /\ confirmations'[id].failed <= MaxAttempts - 1
      BY <2>1, ConfirmationsAssumption
  <2> QED
      BY <2>2, AttemptsFew
<1>2. CASE id # n
    BY <1>2, ChecksAfterRead, AttemptsKept
<1> QED
    BY <1>1, <1>2

LEMMA AttemptsStep ==
    ASSUME TypeOK, AttemptsAreCounted, [Next]_vars
    PROVE  AttemptsAreCounted'
<1> SUFFICES ASSUME NEW id \in Ids, IsRow(id)'
             PROVE  confirmations'[id].failed + Cardinality(Checking(id)') <=
                        MaxAttempts - 1 + Cardinality(Requests)
    BY DEF AttemptsAreCounted
<1>1. CASE confirmations'[id].failed = 0
    BY <1>1, AttemptsFew, ConfirmationsAssumption
<1>2. ASSUME NEW r \in Requests, VerifyWrong(r), requests[r].id = id, IsRow(id)
      PROVE  confirmations'[id].failed + Cardinality(Checking(id)') <=
                MaxAttempts - 1 + Cardinality(Requests)
    BY <1>2, AttemptsAfterWrong
<1>3. CASE IsRow(id) /\ confirmations'[id].failed = confirmations[id].failed
  <2>1. CASE ChecksKept
      BY <1>3, <2>1, AttemptsKept DEF ChecksKept
  <2>2. ASSUME NEW r \in Requests, NEW cookie \in cookies, NEW matches \in BOOLEAN,
               Verify(r, cookie, matches)
        PROVE  confirmations'[id].failed + Cardinality(Checking(id)') <=
                    MaxAttempts - 1 + Cardinality(Requests)
    <3>1. cookie.id \in Ids
        BY <2>2 DEF TypeOK, Cookie
    <3> QED
        BY <1>3, <2>2, <3>1, AttemptsAfterRead DEF Verify
  <2>3. ASSUME NEW r \in Requests, NEW u \in Users, NEW n \in Ids, NEW matches \in BOOLEAN,
               VerifyChange(r, u, n, matches)
        PROVE  confirmations'[id].failed + Cardinality(Checking(id)') <=
                    MaxAttempts - 1 + Cardinality(Requests)
      BY <1>3, <2>3, AttemptsAfterRead DEF VerifyChange
  <2> QED
      BY <2>1, <2>2, <2>3, ChecksStep
<1> QED
    BY <1>1, <1>2, <1>3, FailuresStep

\* Wrong codes run out, whatever the number of requests that race.
THEOREM FailuresConvergeAlways == Spec => []FailuresConverge
<1>1. Init => AttemptsAreCounted
    BY DEF Init, AttemptsAreCounted, IsRow
<1>2. TypeOK /\ AttemptsAreCounted /\ [Next]_vars => AttemptsAreCounted'
    BY AttemptsStep
<1>3. TypeOK /\ AttemptsAreCounted => FailuresConverge
  <2> SUFFICES ASSUME TypeOK, AttemptsAreCounted, NEW id \in Ids, IsRow(id)
               PROVE  confirmations[id].failed <= MaxAttempts - 1 + Cardinality(Requests)
      BY DEF FailuresConverge
  <2>1. Cardinality(Checking(id)) \in Nat /\ Cardinality(Requests) \in Nat
      BY CheckingFinite DEF Checking
  <2>2. confirmations[id].failed \in Nat
      BY RowIsTyped DEF EmailConfirmation
  <2>3. confirmations[id].failed + Cardinality(Checking(id)) <=
            MaxAttempts - 1 + Cardinality(Requests)
      BY DEF AttemptsAreCounted
  <2> QED
      BY <2>1, <2>2, <2>3, ConfirmationsAssumption
<1> QED
    BY <1>1, <1>2, <1>3, ConfirmationsTypeCorrect, PTL DEF Spec

=============================================================================
