--------------------------- MODULE Confirmations ---------------------------
(***************************************************************************)
(* Proving an address with a code in a mail: the sign-up, where the proof  *)
(* comes before the account, and the change of the address of an account.  *)
(* Both keep their codes in email_confirmations.                           *)
(*                                                                         *)
(* A sign-up finds its row by the rowid in a cookie, a change by the       *)
(* account of the session.  Each step reads outside the transaction that   *)
(* writes, and the transaction goes by what was read: the rowid, the       *)
(* account, the address.  Rowids of deleted rows are given again.          *)
(***************************************************************************)
EXTENDS Integers, FiniteSets

CONSTANTS
    Users,       \* rowids of accounts
    Emails,      \* addresses, equal up to case
    Requests,    \* slots for requests in flight
    NULL,
    MaxAttempts, \* failed_attempts_count < 5
    MaxId,       \* bound: the greatest rowid of email_confirmations
    MaxCodes     \* bound: how many codes are ever issued

Ids == 1..MaxId
Codes == 1..MaxCodes

\* Codes are numbered in the order of their issue.  user is NULL for a sign-up.
\* A row that is past its fifteen minutes is one that nobody asks for any more.
EmailConfirmation ==
    [user : Users \union {NULL}, email : Emails, code : Codes, failed : Nat,
     succeeded : BOOLEAN]

\* What a request carries from the read to the transaction: the account, the address, the
\* rowid and the code of the row, and whether the code that was sent matches.
Carried(ops, accounts, ids, codes) ==
    [op : ops, user : accounts, email : Emails, id : ids, code : codes, matches : BOOLEAN]

Request ==
    Carried({"sign_up"}, {NULL}, {0}, {0})
        \union Carried({"signed_up"}, {NULL}, Ids, Codes)
        \union Carried({"verify", "create_account"}, Users \union {NULL}, Ids, Codes)
        \union Carried({"email_change"}, Users, {0}, {0})
        \union Carried({"verify_change"}, Users, Ids, Codes)

Cookie == [id : Ids, code : Codes]
Issue == [user : Users \union {NULL}, email : Emails]

ASSUME ConfirmationsAssumption ==
    /\ MaxAttempts \in Nat \ {0}
    /\ MaxId \in Nat
    /\ MaxCodes \in Nat
    /\ IsFiniteSet(Requests)
    /\ NULL \notin Users \union Emails \union EmailConfirmation \union Request \union Issue

VARIABLES
    users,         \* the state of each account
    emails,        \* users.email: NULL for no row, or a value nobody can register
    confirmations, \* email_confirmations, by rowid
    cookies,       \* the hand-over cookies of sign-ups: a rowid, and the code it was set for
    issued,        \* how many codes have been issued
    issues,        \* history: for whom and for what address each code was issued
    accepted,      \* history: the codes that were accepted
    emailCodes,    \* history: the code each account got its address through, 0 for none
    requests       \* the request in each slot

vars == <<users, emails, confirmations, cookies, issued, issues, accepted,
          emailCodes, requests>>

\* The variables that only issuing a code or accepting one changes.
history == <<issued, issues, accepted, emailCodes>>

TypeOK ==
    /\ users \in [Users -> {"absent", "member", "withdrawn"}]
    /\ emails \in [Users -> Emails \union {NULL}]
    /\ confirmations \in [Ids -> EmailConfirmation \union {NULL}]
    /\ cookies \subseteq Cookie
    /\ issued \in 0..MaxCodes
    /\ issues \in [Codes -> Issue \union {NULL}]
    /\ accepted \subseteq Codes
    /\ emailCodes \in [Users -> 0..MaxCodes]
    /\ requests \in [Requests -> Request \union {NULL}]

\* Accounts may be there from the start: the subcommand that seeds a community makes them
\* without a confirmation.
Init ==
    /\ users \in [Users -> {"absent", "member"}]
    /\ emails \in [Users -> Emails \union {NULL}]
    /\ \A u \in Users : emails[u] # NULL <=> users[u] = "member"
    /\ \A u, v \in Users : emails[u] = emails[v] => u = v \/ emails[u] = NULL
    /\ confirmations = [id \in Ids |-> NULL]
    /\ cookies = {}
    /\ issued = 0
    /\ issues = [c \in Codes |-> NULL]
    /\ accepted = {}
    /\ emailCodes = [u \in Users |-> 0]
    /\ requests = [r \in Requests |-> NULL]

-----------------------------------------------------------------------------
(* The rows *)

IsRow(id) == confirmations[id] # NULL

\* A code that is still waiting to be entered.
Pending(id) == IsRow(id) /\ ~confirmations[id].succeeded

\* Mutation of Active: the query forgets the limit of attempts.
ActiveForever(id) == Pending(id)

\* The predicate both lookups of a code share.
Active(id) == Pending(id) /\ confirmations[id].failed < MaxAttempts

\* The rowid that SQLite gives to a new row: one above the greatest in use.
IsNextId(rows, id) ==
    /\ \A i \in Ids : rows[i] # NULL => i < id
    /\ id > 1 => rows[id - 1] # NULL

NewRow(u, e) ==
    [user |-> u, email |-> e, code |-> issued + 1, failed |-> 0, succeeded |-> FALSE]

\* The code of a new row goes out.
IssueCode(u, e) ==
    /\ issued < MaxCodes
    /\ issued' = issued + 1
    /\ issues' = [issues EXCEPT ![issued + 1] = [user |-> u, email |-> e]]
    /\ UNCHANGED <<accepted, emailCodes>>

\* UPDATEs by rowid, of no row if there is none.
IncrementFailedAttempts(id) ==
    [i \in Ids |->
        IF i = id /\ IsRow(i)
        THEN [confirmations[i] EXCEPT !.failed = @ + 1]
        ELSE confirmations[i]]

Succeed(id) ==
    [i \in Ids |->
        IF i = id /\ IsRow(i)
        THEN [confirmations[i] EXCEPT !.succeeded = TRUE]
        ELSE confirmations[i]]

\* users.email is UNIQUE, over the accounts that have withdrawn too.
Free(e, u) == \A v \in Users : emails[v] = e => v = u

\* FindByEmail sees accounts that have not withdrawn.
TakenByOther(e, u) == \E v \in Users \ {u} : users[v] = "member" /\ emails[v] = e

-----------------------------------------------------------------------------
(* Requests *)

At(r, op) == requests[r] # NULL /\ requests[r].op = op

Carry(r, op, u, e, id, code, matches) ==
    requests' = [requests EXCEPT ![r] =
        [op |-> op, user |-> u, email |-> e, id |-> id, code |-> code,
         matches |-> matches]]

Finish(r) == requests' = [requests EXCEPT ![r] = NULL]

\* A request that read the row, with a code that matches it or not.
Read(r, op, id, matches) ==
    LET row == confirmations[id]
    IN  Carry(r, op, row.user, row.email, id, row.code, matches)

-----------------------------------------------------------------------------
(* Signing up *)

\* The validator refuses an address that is taken.
SignUp(r, e) ==
    /\ requests[r] = NULL
    /\ ~TakenByOther(e, NULL)
    /\ Carry(r, "sign_up", NULL, e, 0, 0, FALSE)
    /\ UNCHANGED <<users, emails, confirmations, cookies, history>>

\* createSignUp: one statement.
CreateSignUp(r, id) ==
    /\ At(r, "sign_up")
    /\ IsNextId(confirmations, id)
    /\ confirmations' = [confirmations EXCEPT ![id] = NewRow(NULL, requests[r].email)]
    /\ IssueCode(NULL, requests[r].email)
    /\ Carry(r, "signed_up", NULL, requests[r].email, id, issued + 1, FALSE)
    /\ UNCHANGED <<users, emails, cookies>>

\* The mail is in the queue; the answer hands the rowid over.  Where the mail cannot be
\* queued no cookie is set (Fail), and the row stays.
SetEmailConfirmationID(r) ==
    /\ At(r, "signed_up")
    /\ cookies' = cookies \union {[id |-> requests[r].id, code |-> requests[r].code]}
    /\ Finish(r)
    /\ UNCHANGED <<users, emails, confirmations, history>>

\* EmailConfirmationCreateValidator.  FindActiveByID does not ask what the row is for.
\* A row that is not active is answered without a write.
Verify(r, cookie, matches) ==
    /\ requests[r] = NULL
    /\ cookie \in cookies
    /\ Active(cookie.id)
    /\ Read(r, "verify", cookie.id, matches)
    /\ UNCHANGED <<users, emails, confirmations, cookies, history>>

\* The code is compared with the row that was read.
VerifyWrong(r) ==
    /\ At(r, "verify") \/ At(r, "verify_change")
    /\ ~requests[r].matches
    /\ confirmations' = IncrementFailedAttempts(requests[r].id)
    /\ Finish(r)
    /\ UNCHANGED <<users, emails, cookies, history>>

VerifyRight(r) ==
    /\ At(r, "verify")
    /\ requests[r].matches
    /\ confirmations' = Succeed(requests[r].id)
    /\ accepted' = accepted \union {requests[r].code}
    /\ Finish(r)
    /\ UNCHANGED <<users, emails, cookies, issued, issues, emailCodes>>

\* FindSucceededByID, and then the hash of the password.
StartAccount(r, cookie) ==
    /\ requests[r] = NULL
    /\ cookie \in cookies
    /\ IsRow(cookie.id)
    /\ confirmations[cookie.id].succeeded
    /\ Read(r, "create_account", cookie.id, TRUE)
    /\ UNCHANGED <<users, emails, confirmations, cookies, history>>

\* createAccount.  The confirmation is not spent; an address that is taken fails (Fail).
CreateAccount(r, u) ==
    /\ At(r, "create_account")
    /\ users[u] = "absent"
    /\ Free(requests[r].email, u)
    /\ users' = [users EXCEPT ![u] = "member"]
    /\ emails' = [emails EXCEPT ![u] = requests[r].email]
    /\ emailCodes' = [emailCodes EXCEPT ![u] = requests[r].code]
    /\ Finish(r)
    /\ UNCHANGED <<confirmations, cookies, issued, issues, accepted>>

\* The answer of an account that was created, or of a confirmation that is not there,
\* clears the cookie; so do its fifteen minutes.  An answer may be lost.
DropCookie(cookie) ==
    /\ cookie \in cookies
    /\ cookies' = cookies \ {cookie}
    /\ UNCHANGED <<users, emails, confirmations, history, requests>>

-----------------------------------------------------------------------------
(* Changing the address of an account *)

\* SettingsEmailUpdateValidator, with the password of the account.
ChangeEmail(r, u, e) ==
    /\ requests[r] = NULL
    /\ users[u] = "member"
    /\ emails[u] # e
    /\ ~TakenByOther(e, u)
    /\ Carry(r, "email_change", u, e, 0, 0, FALSE)
    /\ UNCHANGED <<users, emails, confirmations, cookies, history>>

\* Mutation of Superseded: the earlier codes stay.
SupersededNever(r) == {}

\* Mutation of Superseded: the WHERE asks for the address and not for the account.
SupersededByAddress(r) ==
    {id \in Ids : Pending(id) /\ confirmations[id].email = requests[r].email}

\* The rows that DeleteUnusedEmailChangesByUserID deletes.  The rows of a sign-up have no
\* account.
Superseded(r) == {id \in Ids : Pending(id) /\ confirmations[id].user = requests[r].user}

Without(ids) == [id \in Ids |-> IF id \in ids THEN NULL ELSE confirmations[id]]

\* createEmailChange: one transaction deletes and inserts.
CreateEmailChange(r, id) ==
    LET u == requests[r].user
        e == requests[r].email
        kept == Without(Superseded(r))
    IN  /\ At(r, "email_change")
        /\ IsNextId(kept, id)
        /\ confirmations' = [kept EXCEPT ![id] = NewRow(u, e)]
        /\ IssueCode(u, e)
        /\ Finish(r)
        /\ UNCHANGED <<users, emails, cookies>>

\* FindActiveEmailChangeByUserID, and FindByID for the account.
VerifyChange(r, u, id, matches) ==
    /\ requests[r] = NULL
    /\ users[u] = "member"
    /\ Active(id)
    /\ confirmations[id].user = u
    /\ Read(r, "verify_change", id, matches)
    /\ UNCHANGED <<users, emails, confirmations, cookies, history>>

\* Mutation of NewAddress: the row is looked at again, by its rowid.
NewAddressAgain(r) ==
    IF IsRow(requests[r].id) THEN confirmations[requests[r].id].email
    ELSE requests[r].email

\* The address that was read with the code.
NewAddress(r) == requests[r].email

\* verify.  UpdateEmail does not ask whether the account has withdrawn since.  An address
\* that is taken rolls the stamp back (Fail).
UpdateEmail(r) ==
    LET u == requests[r].user
    IN  /\ At(r, "verify_change")
        /\ requests[r].matches
        /\ Free(NewAddress(r), u)
        /\ confirmations' = Succeed(requests[r].id)
        /\ emails' = [emails EXCEPT ![u] = NewAddress(r)]
        /\ emailCodes' = [emailCodes EXCEPT ![u] = requests[r].code]
        /\ accepted' = accepted \union {requests[r].code}
        /\ Finish(r)
        /\ UNCHANGED <<users, cookies, issued, issues>>

-----------------------------------------------------------------------------
(* The rest of the world *)

\* BEGIN, a statement or COMMIT fails, the address is taken, the mail cannot be queued, or
\* the process dies: what was not committed is rolled back.
Fail(r) ==
    /\ requests[r] # NULL
    /\ Finish(r)
    /\ UNCHANGED <<users, emails, confirmations, cookies, history>>

\* deleteAccount: the address is released, and the codes stay.
Withdraw(u) ==
    /\ users[u] = "member"
    /\ users' = [users EXCEPT ![u] = "withdrawn"]
    /\ emails' = [emails EXCEPT ![u] = NULL]
    /\ emailCodes' = [emailCodes EXCEPT ![u] = 0]
    /\ UNCHANGED <<confirmations, cookies, issued, issues, accepted, requests>>

ConfirmationsOf(u) == {id \in Ids : IsRow(id) /\ confirmations[id].user = u}

\* Thirty days after the withdrawal, and no request is that old.  The codes of the account
\* go with it, and its rowid is given again.
Purge(u) ==
    /\ users[u] = "withdrawn"
    /\ \A r \in Requests : requests[r] # NULL => requests[r].user # u
    /\ users' = [users EXCEPT ![u] = "absent"]
    /\ emails' = [emails EXCEPT ![u] = NULL]
    /\ emailCodes' = [emailCodes EXCEPT ![u] = 0]
    /\ confirmations' = Without(ConfirmationsOf(u))
    /\ issues' = [c \in Codes |->
            IF issues[c] # NULL /\ issues[c].user = u THEN NULL ELSE issues[c]]
    /\ UNCHANGED <<cookies, issued, accepted, requests>>

-----------------------------------------------------------------------------
SignUpStep ==
    \/ \E r \in Requests :
        \/ \E e \in Emails : SignUp(r, e)
        \/ \E id \in Ids : CreateSignUp(r, id)
        \/ SetEmailConfirmationID(r)
        \/ \E cookie \in cookies, matches \in BOOLEAN : Verify(r, cookie, matches)
        \/ VerifyRight(r)
        \/ \E cookie \in cookies : StartAccount(r, cookie)
        \/ \E u \in Users : CreateAccount(r, u)
    \/ \E cookie \in cookies : DropCookie(cookie)

ChangeStep ==
    \E r \in Requests :
        \/ \E u \in Users, e \in Emails : ChangeEmail(r, u, e)
        \/ \E id \in Ids : CreateEmailChange(r, id)
        \/ \E u \in Users, id \in Ids, matches \in BOOLEAN : VerifyChange(r, u, id, matches)
        \/ UpdateEmail(r)
        \/ VerifyWrong(r)
        \/ Fail(r)

WorldStep == \E u \in Users : Withdraw(u) \/ Purge(u)

Next == SignUpStep \/ ChangeStep \/ WorldStep

Spec == Init /\ [][Next]_vars

-----------------------------------------------------------------------------
(* What makes the codes correct *)

\* A change of address has one code: however requests race, the code that was issued last is the
\* only one that waits to be entered (createEmailChange deletes and inserts in one transaction),
\* so that the lookup by account has nothing to choose from.
OnePendingChange ==
    \A i, j \in Ids :
        /\ Pending(i) /\ Pending(j) /\ i # j
        /\ confirmations[i].user # NULL
        => confirmations[i].user # confirmations[j].user

\* Wrong codes run out: the limit is asked outside the transaction that counts, so every request
\* in flight may add one to it, and no more than that, also where the rowid of a row they read is
\* given to another (FindActiveByID, IncrementFailedAttempts).
FailuresConverge ==
    \A id \in Ids : IsRow(id) =>
        confirmations[id].failed <= MaxAttempts - 1 + Cardinality(Requests)

\* The cookie of a sign-up names the row it was set for, for as long as it lives: no change of
\* address and no purge deletes the row of a sign-up, so that its rowid is never given again
\* (email_confirmations.user_id is NULL there).
CookiesNameTheirConfirmation ==
    \A cookie \in cookies :
        /\ IsRow(cookie.id)
        /\ confirmations[cookie.id].user = NULL
        /\ confirmations[cookie.id].code = cookie.code

\* The address of an account is one to which a code was sent for a sign-up or for that very
\* account, and a change came with the entering of its code, whatever became of the rows and the
\* rowids between the reading of the code and the transaction.
AddressesComeFromOwnCodes ==
    \A u \in Users : emailCodes[u] # 0 =>
        LET issue == issues[emailCodes[u]]
        IN  /\ issue # NULL
            /\ issue.email = emails[u]
            /\ issue.user = NULL \/ (issue.user = u /\ emailCodes[u] \in accepted)

\* "Replacing the address releases its unique value, so that another account can take it before
\* the row is physically deleted" (repository/user.go): an account that has withdrawn keeps no
\* address.
WithdrawnStayAnonymous == \A u \in Users : users[u] = "withdrawn" => emails[u] = NULL

=============================================================================
