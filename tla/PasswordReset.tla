--------------------------- MODULE PasswordReset ---------------------------
(***************************************************************************)
(* Setting a new password through a link in a mail.                        *)
(*                                                                         *)
(* A request for a link looks the account up, replaces the unused links of *)
(* the account by one new row in a transaction, and then puts the mail in  *)
(* the queue, outside that transaction.  Following a link reads the row by *)
(* the digest of the link, spends the time of a bcrypt hash, and then sets *)
(* the password of the account and stamps the row in a second transaction, *)
(* by the rowids that were read.  Rowids of deleted rows are given again.  *)
(***************************************************************************)
EXTENDS Integers

CONSTANTS
    Users,       \* rowids of accounts
    Requests,    \* slots for requests in flight
    NULL,
    MaxId,       \* bound: the greatest rowid of password_reset_tokens
    MaxLinks     \* bound: how many links are ever issued

ASSUME PasswordResetAssumption ==
    /\ MaxId \in Nat
    /\ MaxLinks \in Nat
    /\ NULL \notin Users
    /\ NULL \notin [stage : {"found", "issued", "validated"}, user : Users,
                    id : 0..MaxId, link : 0..MaxLinks]
    /\ NULL \notin [user : Users, link : 1..MaxLinks, used : BOOLEAN, expired : BOOLEAN]

VARIABLES
    users,       \* the state of each account
    passwords,   \* the link each password was set through, 0 for the one of the sign-up
    tokens,      \* password_reset_tokens, by rowid
    issued,      \* how many links have been issued: they are numbered in that order
    owners,      \* history: the account each link was issued to, until the account is purged
    queued,      \* links whose mail is a job in the queue
    inbox,       \* links whose mail has arrived
    requests,    \* the request in each slot
    answer       \* what the latest step answered, "none" if it answered nothing

vars == <<users, passwords, tokens, issued, owners, queued, inbox, requests, answer>>

Ids == 1..MaxId
Links == 1..MaxLinks

\* expires_at is abstracted to whether it has passed.
PasswordResetToken == [user : Users, link : Links, used : BOOLEAN, expired : BOOLEAN]

\* "found": the account of the address.  "issued": the link exists.  "validated":
\* the rowids that the validator read for the link.
Request ==
    [stage : {"found", "issued", "validated"}, user : Users, id : 0..MaxId,
     link : 0..MaxLinks]

Answers == {"none", "done", "invalid", "used", "expired", "failed"}

TypeOK ==
    /\ users \in [Users -> {"absent", "member", "withdrawn"}]
    /\ passwords \in [Users -> 0..MaxLinks]
    /\ tokens \in [Ids -> PasswordResetToken \union {NULL}]
    /\ issued \in 0..MaxLinks
    /\ owners \in [Links -> Users \union {NULL}]
    /\ queued \subseteq 0..MaxLinks
    /\ inbox \subseteq Links
    /\ requests \in [Requests -> Request \union {NULL}]
    /\ answer \in Answers

Init ==
    /\ users = [u \in Users |-> "absent"]
    /\ passwords = [u \in Users |-> 0]
    /\ tokens = [id \in Ids |-> NULL]
    /\ issued = 0
    /\ owners = [link \in Links |-> NULL]
    /\ queued = {}
    /\ inbox = {}
    /\ requests = [r \in Requests |-> NULL]
    /\ answer = "none"

-----------------------------------------------------------------------------
(* The rows *)

\* A row whose link has not been consumed.
Unused(id) == tokens[id] # NULL /\ ~tokens[id].used

\* validateToken lets the link set a password.
Opens(link) ==
    \E id \in Ids : Unused(id) /\ tokens[id].link = link /\ ~tokens[id].expired

\* The rowid that SQLite gives to a new row: one above the greatest in use.
IsNextId(rows, id) ==
    /\ \A i \in Ids : rows[i] # NULL => i < id
    /\ id > 1 => rows[id - 1] # NULL

\* Mutation of Superseded: the earlier links stay.
SupersededNever(u) == {}

\* The rows that DeleteUnusedByUserID deletes.
Superseded(u) == {id \in Ids : Unused(id) /\ tokens[id].user = u}

Without(ids) == [id \in Ids |-> IF id \in ids THEN NULL ELSE tokens[id]]

-----------------------------------------------------------------------------
(* Asking for a link *)

At(r, stage) == requests[r] # NULL /\ requests[r].stage = stage

Finished(r, code) ==
    /\ requests' = [requests EXCEPT ![r] = NULL]
    /\ answer' = code

\* Execute looks the address up.  An address of nobody, or of an account that
\* has withdrawn, gets the same answer and nothing happens.
Ask(r, u) ==
    /\ requests[r] = NULL
    /\ users[u] = "member"
    /\ requests' = [requests EXCEPT ![r] =
            [stage |-> "found", user |-> u, id |-> 0, link |-> 0]]
    /\ answer' = "none"
    /\ UNCHANGED <<users, passwords, tokens, issued, owners, queued, inbox>>

\* GenerateSecureToken: no link has been issued before.
NewLink == issued + 1

\* createToken: one transaction deletes and inserts.
CreateToken(r, id) ==
    LET u == requests[r].user
        kept == Without(Superseded(u))
    IN  /\ At(r, "found")
        /\ issued < MaxLinks
        /\ IsNextId(kept, id)
        /\ tokens' = [kept EXCEPT ![id] =
                [user |-> u, link |-> NewLink, used |-> FALSE, expired |-> FALSE]]
        /\ issued' = issued + 1
        /\ owners' = [owners EXCEPT ![NewLink] = u]
        /\ requests' = [requests EXCEPT ![r].stage = "issued", ![r].link = NewLink]
        /\ answer' = "none"
        /\ UNCHANGED <<users, passwords, queued, inbox>>

\* EnqueuePasswordReset is a transaction of its own.
Enqueue(r) ==
    /\ At(r, "issued")
    /\ queued' = queued \union {requests[r].link}
    /\ Finished(r, "done")
    /\ UNCHANGED <<users, passwords, tokens, issued, owners, inbox>>

\* The queue failed: the failure is logged and the answer is the same.
EnqueueFails(r) ==
    /\ At(r, "issued")
    /\ Finished(r, "done")
    /\ UNCHANGED <<users, passwords, tokens, issued, owners, queued, inbox>>

-----------------------------------------------------------------------------
(* The mail.  A job may run again after it sent its mail, and it is given up
   after its last attempt; mails arrive in any order. *)

Deliver(link) ==
    /\ link \in queued
    /\ inbox' = inbox \union {link}
    /\ answer' = "none"
    /\ UNCHANGED <<users, passwords, tokens, issued, owners, queued, requests>>

LeaveQueue(link) ==
    /\ link \in queued
    /\ queued' = queued \ {link}
    /\ answer' = "none"
    /\ UNCHANGED <<users, passwords, tokens, issued, owners, inbox, requests>>

-----------------------------------------------------------------------------
(* Following a link *)

\* The order of validateToken.
Refusal(id) ==
    IF tokens[id].used THEN "used"
    ELSE IF tokens[id].expired THEN "expired"
    ELSE "none"

\* Validate, for a form whose passwords are well-formed.  Afterwards the request
\* knows the rowids only.
Follow(r, link, id) ==
    /\ requests[r] = NULL
    /\ link \in inbox
    /\ tokens[id] # NULL
    /\ tokens[id].link = link
    /\ answer' = Refusal(id)
    /\ requests' = IF Refusal(id) # "none" THEN requests
                   ELSE [requests EXCEPT ![r] =
                           [stage |-> "validated", user |-> tokens[id].user,
                            id |-> id, link |-> link]]
    /\ UNCHANGED <<users, passwords, tokens, issued, owners, queued, inbox>>

\* The row is gone: a later request deleted it, or the account was purged.
FollowDeleted(link) ==
    /\ link \in inbox
    /\ \A id \in Ids : tokens[id] # NULL => tokens[id].link # link
    /\ answer' = "invalid"
    /\ UNCHANGED <<users, passwords, tokens, issued, owners, queued, inbox, requests>>

\* Mutation of MarkAsUsed: the stamp is forgotten.
MarkAsUsedNever(id) == tokens

\* An UPDATE by rowid, of no row if there is none.
MarkAsUsed(id) ==
    [i \in Ids |->
        IF i = id /\ tokens[i] # NULL THEN [tokens[i] EXCEPT !.used = TRUE] ELSE tokens[i]]

\* updatePassword: one transaction.  It goes by the rowids that were read with the
\* row, and the row is not read again.
UpdatePassword(r) ==
    /\ At(r, "validated")
    /\ passwords' = [passwords EXCEPT ![requests[r].user] = requests[r].link]
    /\ tokens' = MarkAsUsed(requests[r].id)
    /\ Finished(r, "done")
    /\ UNCHANGED <<users, issued, owners, queued, inbox>>

\* BEGIN, a statement or COMMIT fails, or the process dies: the transaction is
\* rolled back, and an issued link stays without its mail.
Fail(r) ==
    /\ requests[r] # NULL
    /\ Finished(r, "failed")
    /\ UNCHANGED <<users, passwords, tokens, issued, owners, queued, inbox>>

-----------------------------------------------------------------------------
(* The rest of the world *)

\* An hour passes since the row was made.
Expire(id) ==
    /\ tokens[id] # NULL
    /\ ~tokens[id].expired
    /\ tokens' = [tokens EXCEPT ![id].expired = TRUE]
    /\ answer' = "none"
    /\ UNCHANGED <<users, passwords, issued, owners, queued, inbox, requests>>

SignUp(u) ==
    /\ users[u] = "absent"
    /\ users' = [users EXCEPT ![u] = "member"]
    /\ answer' = "none"
    /\ UNCHANGED <<passwords, tokens, issued, owners, queued, inbox, requests>>

\* The password and the links of an account stay when it withdraws.
Withdraw(u) ==
    /\ users[u] = "member"
    /\ users' = [users EXCEPT ![u] = "withdrawn"]
    /\ answer' = "none"
    /\ UNCHANGED <<passwords, tokens, issued, owners, queued, inbox, requests>>

\* Mutation of TokensOf: password_reset_tokens has no ON DELETE CASCADE.
TokensOfNobody(u) == {}

TokensOf(u) == {id \in Ids : tokens[id] # NULL /\ tokens[id].user = u}

\* Thirty days after the withdrawal, and no request is that old.  The rows that
\* hang on the account go with it, and its rowid is given again.
Purge(u) ==
    /\ users[u] = "withdrawn"
    /\ \A r \in Requests : requests[r] # NULL => requests[r].user # u
    /\ users' = [users EXCEPT ![u] = "absent"]
    /\ passwords' = [passwords EXCEPT ![u] = 0]
    /\ tokens' = Without(TokensOf(u))
    /\ owners' = [link \in Links |-> IF owners[link] = u THEN NULL ELSE owners[link]]
    /\ answer' = "none"
    /\ UNCHANGED <<issued, queued, inbox, requests>>

-----------------------------------------------------------------------------
AskStep ==
    \E r \in Requests :
        \/ \E u \in Users : Ask(r, u)
        \/ \E id \in Ids : CreateToken(r, id)
        \/ Enqueue(r)
        \/ EnqueueFails(r)

MailStep == \E link \in Links : Deliver(link) \/ LeaveQueue(link)

FollowStep ==
    \/ \E r \in Requests :
        \/ \E link \in Links, id \in Ids : Follow(r, link, id)
        \/ UpdatePassword(r)
        \/ Fail(r)
    \/ \E link \in Links : FollowDeleted(link)

WorldStep ==
    \/ \E id \in Ids : Expire(id)
    \/ \E u \in Users : SignUp(u) \/ Withdraw(u) \/ Purge(u)

Next == AskStep \/ MailStep \/ FollowStep \/ WorldStep

Spec == Init /\ [][Next]_vars

-----------------------------------------------------------------------------
(* What makes the links correct *)

\* Of the links of an account only the one issued last can be unused: however requests race, an
\* earlier link stops opening when a later one is created (createToken deletes and inserts in one
\* transaction), and a rowid that is given again brings no earlier link back.
OnlyTheLastLinkIsUnused ==
    \A id \in Ids : Unused(id) =>
        \A link \in Links : link > tokens[id].link => owners[link] # tokens[id].user

\* Every password was set through a link that was issued to that very account: neither a rowid of
\* password_reset_tokens nor one of users that is given again between the check of a link and the
\* transaction moves the password to another account (the validator hands over the account too).
PasswordsComeFromOwnLinks ==
    \A u \in Users : passwords[u] # 0 => owners[passwords[u]] = u

\* The link that set a password opens nothing for whoever follows it from then on, even if the
\* row was replaced between its check and the transaction: then the row of the link is gone, and
\* otherwise the transaction stamped it.
SpentLinksAreDead ==
    \A u \in Users : passwords[u] # 0 => ~Opens(passwords[u])

\* "A link is never consumed while the password does not really change" (update_password_reset.go):
\* the row that a step stamps belongs to an account whose password the step sets.  The transaction
\* stamps by a rowid that may have been given again.
ConsumedWithTheChange ==
    [][\A id \in Ids :
        Unused(id) /\ tokens'[id] = [tokens[id] EXCEPT !.used = TRUE] =>
            passwords'[tokens[id].user] # passwords[tokens[id].user]]_vars

Commits(r) == At(r, "validated") /\ requests'[r] = NULL /\ answer' = "done"

\* "Stamped when used, which prevents the link from being used again" (model/password_reset_token.go)
\* and "a new request makes the earlier links invalid" (create_password_reset_token.go): the link
\* that sets a password is there and not stamped at that moment.
OnlyLiveLinksSetPasswords ==
    [][\A r \in Requests : Commits(r) =>
        \E id \in Ids : Unused(id) /\ tokens[id].link = requests[r].link]_vars

\* The rows of links fit what was issued: a row belongs to the account its link was issued to, a
\* link has one row at most, a request that was checked names the row of its link wherever that is
\* still there, and a link that set a password is stamped or gone (update_password_reset.go).
RowsAreOwned ==
    \A id \in Ids : tokens[id] # NULL => owners[tokens[id].link] = tokens[id].user

LinksNameOneRow ==
    \A i, j \in Ids :
        tokens[i] # NULL /\ tokens[j] # NULL /\ tokens[i].link = tokens[j].link => i = j

OwnedLinksAreIssued ==
    \A link \in Links : owners[link] # NULL => link <= issued

\* The request r was checked against the row of its link.
Checked(r) ==
    /\ requests[r].link \in Links
    /\ owners[requests[r].link] = requests[r].user
    /\ \A id \in Ids :
        tokens[id] # NULL /\ tokens[id].link = requests[r].link => id = requests[r].id

ChecksNameTheRow == \A r \in Requests : At(r, "validated") => Checked(r)

PasswordsAreSpent ==
    \A u \in Users : passwords[u] # 0 =>
        \A id \in Ids :
            tokens[id] # NULL /\ tokens[id].link = passwords[u] => tokens[id].used

Coherent ==
    /\ RowsAreOwned
    /\ LinksNameOneRow
    /\ OwnedLinksAreIssued
    /\ ChecksNameTheRow
    /\ OnlyTheLastLinkIsUnused
    /\ PasswordsComeFromOwnLinks
    /\ PasswordsAreSpent
=============================================================================
