------------------------ MODULE PasswordResetProofs ------------------------
(***************************************************************************)
(* Proofs about PasswordReset, for any number of accounts, requests, links *)
(* and rowids: only the last link of an account is unused, the password of *)
(* an account comes from its own links, and a link that set one is dead.   *)
(* And about the pages around an account, for any number of sign-ups,      *)
(* links and changes: AccountPromises.                                     *)
(***************************************************************************)
EXTENDS PasswordReset, AccountPromises, SequenceTheorems, TLAPS

LEMMA TypeInit == Init => TypeOK
    BY PasswordResetAssumption DEF Init, TypeOK, Links, Ids, Answers

LEMMA TypeFinished ==
    ASSUME TypeOK, NEW r \in Requests, NEW code \in Answers, Finished(r, code)
    PROVE  requests' \in [Requests -> Request \union {NULL}] /\ answer' \in Answers
    BY DEF TypeOK, Finished

\* Deleting rows leaves a table.
LEMMA TypeWithout ==
    ASSUME TypeOK, NEW ids
    PROVE  Without(ids) \in [Ids -> PasswordResetToken \union {NULL}]
    BY DEF TypeOK, Without

LEMMA TypeMarked ==
    ASSUME TypeOK, NEW id
    PROVE  MarkAsUsed(id) \in [Ids -> PasswordResetToken \union {NULL}]
    BY DEF TypeOK, MarkAsUsed, PasswordResetToken

LEMMA TypeCreate ==
    ASSUME TypeOK, NEW r \in Requests, NEW id \in Ids, CreateToken(r, id)
    PROVE  TypeOK'
<1> DEFINE u == requests[r].user
           row == [user |-> u, link |-> NewLink, used |-> FALSE, expired |-> FALSE]
           asked == [requests[r] EXCEPT !.stage = "issued", !.link = NewLink]
<1>1. requests[r] \in Request
    BY DEF CreateToken, At, TypeOK
<1>2. NewLink \in Links /\ NewLink \in 0..MaxLinks /\ issued' \in 0..MaxLinks
    BY PasswordResetAssumption DEF CreateToken, NewLink, TypeOK, Links
<1>3. row \in PasswordResetToken
    BY <1>1, <1>2 DEF Request, PasswordResetToken
<1>4. tokens' \in [Ids -> PasswordResetToken \union {NULL}]
  <2>1. tokens' = [Without(Superseded(u)) EXCEPT ![id] = row]
      BY DEF CreateToken
  <2> HIDE DEF row, u
  <2> QED
      BY <1>3, <2>1, TypeWithout
<1>5. asked \in Request
    BY <1>1, <1>2 DEF Request
<1>6. requests' \in [Requests -> Request \union {NULL}]
  <2>1. requests' = [requests EXCEPT ![r] = asked]
      BY DEF CreateToken
  <2> HIDE DEF asked
  <2> QED
      BY <1>5, <2>1 DEF TypeOK
<1>7. owners' \in [Links -> Users \union {NULL}]
    BY <1>1, <1>2 DEF CreateToken, TypeOK, Request
<1> QED
    BY <1>2, <1>4, <1>6, <1>7 DEF CreateToken, TypeOK, Answers

LEMMA TypeFollow ==
    ASSUME TypeOK, NEW r \in Requests, NEW link \in Links, NEW id \in Ids,
           Follow(r, link, id)
    PROVE  TypeOK'
<1>1. tokens[id] \in PasswordResetToken
    BY DEF Follow, TypeOK
<1>2. Refusal(id) \in Answers
    BY DEF Refusal, Answers
<1>3. [stage |-> "validated", user |-> tokens[id].user, id |-> id, link |-> link] \in Request
    BY <1>1, PasswordResetAssumption DEF Request, PasswordResetToken, Ids, Links
<1>4. requests' \in [Requests -> Request \union {NULL}]
    BY <1>3 DEF Follow, TypeOK
<1> QED
    BY <1>2, <1>4 DEF Follow, TypeOK

LEMMA TypeUpdate ==
    ASSUME TypeOK, NEW r \in Requests, UpdatePassword(r)
    PROVE  TypeOK'
<1>1. requests[r] \in Request
    BY DEF UpdatePassword, At, TypeOK
<1>2. passwords' \in [Users -> 0..MaxLinks]
    BY <1>1 DEF UpdatePassword, TypeOK, Request
<1>3. tokens' \in [Ids -> PasswordResetToken \union {NULL}]
    BY TypeMarked DEF UpdatePassword
<1>4. "done" \in Answers
    BY DEF Answers
<1> QED
    BY <1>2, <1>3, <1>4, TypeFinished DEF UpdatePassword, TypeOK

LEMMA TypeAsk ==
    ASSUME TypeOK, AskStep
    PROVE  TypeOK'
<1>1. PICK r \in Requests :
        \/ \E u \in Users : Ask(r, u)
        \/ \E id \in Ids : CreateToken(r, id)
        \/ Enqueue(r)
        \/ EnqueueFails(r)
    BY DEF AskStep
<1>2. CASE \E u \in Users : Ask(r, u)
  <2>1. PICK u \in Users : Ask(r, u)
      BY <1>2
  <2>2. [stage |-> "found", user |-> u, id |-> 0, link |-> 0] \in Request
      BY PasswordResetAssumption DEF Request
  <2>3. requests' \in [Requests -> Request \union {NULL}]
      BY <2>1, <2>2 DEF Ask, TypeOK
  <2> QED
      BY <2>1, <2>3 DEF Ask, TypeOK, Answers
<1>3. CASE \E id \in Ids : CreateToken(r, id)
    BY <1>3, TypeCreate
<1>4. CASE Enqueue(r)
  <2>1. requests[r] \in Request /\ issued \in 0..MaxLinks
      BY <1>4 DEF Enqueue, At, TypeOK
  <2>2. "done" \in Answers
      BY DEF Answers
  <2> QED
      BY <1>4, <2>1, <2>2, TypeFinished DEF Enqueue, TypeOK, Request
<1>5. CASE EnqueueFails(r)
  <2>1. "done" \in Answers
      BY DEF Answers
  <2> QED
      BY <1>5, <2>1, TypeFinished DEF EnqueueFails, TypeOK
<1> QED
    BY <1>1, <1>2, <1>3, <1>4, <1>5

LEMMA TypeMail ==
    ASSUME TypeOK, MailStep
    PROVE  TypeOK'
    BY DEF MailStep, Deliver, LeaveQueue, TypeOK, Answers

LEMMA TypeFollowing ==
    ASSUME TypeOK, FollowStep
    PROVE  TypeOK'
<1>1. CASE \E r \in Requests : \E link \in Links, id \in Ids : Follow(r, link, id)
    BY <1>1, TypeFollow
<1>2. CASE \E r \in Requests : UpdatePassword(r)
    BY <1>2, TypeUpdate
<1>3. CASE \E r \in Requests : Fail(r)
  <2>1. "failed" \in Answers
      BY DEF Answers
  <2> QED
      BY <1>3, <2>1, TypeFinished DEF Fail, TypeOK
<1>4. CASE \E link \in Links : FollowDeleted(link)
    BY <1>4 DEF FollowDeleted, TypeOK, Answers
<1> QED
    BY <1>1, <1>2, <1>3, <1>4 DEF FollowStep

LEMMA TypeExpire ==
    ASSUME TypeOK, NEW id \in Ids, Expire(id)
    PROVE  TypeOK'
<1>1. [tokens[id] EXCEPT !.expired = TRUE] \in PasswordResetToken
    BY DEF Expire, TypeOK, PasswordResetToken
<1>2. tokens' = [tokens EXCEPT ![id] = [tokens[id] EXCEPT !.expired = TRUE]]
    BY DEF Expire
<1>3. tokens' \in [Ids -> PasswordResetToken \union {NULL}]
    BY <1>1, <1>2 DEF TypeOK
<1> QED
    BY <1>3 DEF Expire, TypeOK, Answers

LEMMA TypeWorld ==
    ASSUME TypeOK, WorldStep
    PROVE  TypeOK'
<1>1. CASE \E id \in Ids : Expire(id)
    BY <1>1, TypeExpire
<1>2. CASE \E u \in Users : SignUp(u) \/ Withdraw(u)
    BY <1>2 DEF SignUp, Withdraw, TypeOK, Answers
<1>3. CASE \E u \in Users : Purge(u)
  <2>1. PICK u \in Users : Purge(u)
      BY <1>3
  <2>2. tokens' \in [Ids -> PasswordResetToken \union {NULL}]
      BY <2>1, TypeWithout DEF Purge
  <2>3. passwords' \in [Users -> 0..MaxLinks]
      BY <2>1, PasswordResetAssumption DEF Purge, TypeOK
  <2>4. owners' \in [Links -> Users \union {NULL}]
      BY <2>1 DEF Purge, TypeOK
  <2> QED
      BY <2>1, <2>2, <2>3, <2>4 DEF Purge, TypeOK, Answers
<1> QED
    BY <1>1, <1>2, <1>3 DEF WorldStep

LEMMA TypeStep == TypeOK /\ [Next]_vars => TypeOK'
<1> SUFFICES ASSUME TypeOK, [Next]_vars PROVE TypeOK'
    OBVIOUS
<1>1. CASE UNCHANGED vars
    BY <1>1 DEF vars, TypeOK
<1> QED
    BY <1>1, TypeAsk, TypeMail, TypeFollowing, TypeWorld DEF Next

\* Every variable keeps its type.
THEOREM PasswordResetTypeCorrect == Spec => []TypeOK
    BY TypeInit, TypeStep, PTL DEF Spec

-----------------------------------------------------------------------------
(* The inductive invariant.  A row belongs to the account its link was issued
   to; a link has one row at most; a request that has been checked names the
   row of its link, wherever that row is still there; and the row of a link
   that set a password is stamped, if there is one. *)

LEMMA CoherentInit == Init => Coherent
    BY DEF Init, Coherent, RowsAreOwned, LinksNameOneRow, OwnedLinksAreIssued,
           ChecksNameTheRow, At, OnlyTheLastLinkIsUnused, Unused,
           PasswordsComeFromOwnLinks, PasswordsAreSpent

\* No row is new, none changes hands, and a stamp is not taken back.
RowsKept ==
    \A id \in Ids : tokens'[id] # NULL =>
        /\ tokens[id] # NULL
        /\ tokens'[id].link = tokens[id].link
        /\ tokens'[id].user = tokens[id].user
        /\ tokens[id].used => tokens'[id].used

\* A request that is checked after the step was checked before it, or is being
\* checked against the row of its link.
ChecksKept ==
    \A r \in Requests : At(r, "validated")' =>
        \/ At(r, "validated") /\ requests'[r] = requests[r]
        \/ /\ tokens[requests'[r].id] # NULL
           /\ requests'[r].id \in Ids
           /\ requests'[r].link = tokens[requests'[r].id].link
           /\ requests'[r].user = tokens[requests'[r].id].user

\* A step that is none of the three that write more than a bit.
Quiet == RowsKept /\ ChecksKept /\ UNCHANGED <<passwords, issued, owners>>

LEMMA RowsKeptWithout ==
    ASSUME TypeOK, NEW ids, tokens' = Without(ids)
    PROVE  RowsKept
    BY DEF RowsKept, Without, TypeOK

LEMMA RowsKeptUnchanged ==
    ASSUME TypeOK, UNCHANGED tokens
    PROVE  RowsKept
    BY DEF RowsKept

LEMMA RowsKeptMarked ==
    ASSUME TypeOK, NEW id, tokens' = MarkAsUsed(id)
    PROVE  RowsKept
    BY DEF RowsKept, MarkAsUsed, TypeOK, PasswordResetToken

LEMMA RowsKeptExpired ==
    ASSUME TypeOK, NEW id \in Ids, Expire(id)
    PROVE  RowsKept
<1>1. tokens[id] \in PasswordResetToken
    BY DEF Expire, TypeOK
<1> DEFINE row == [tokens[id] EXCEPT !.expired = TRUE]
<1>2. tokens' = [tokens EXCEPT ![id] = row]
    BY DEF Expire
<1>3. row.link = tokens[id].link /\ row.user = tokens[id].user /\ row.used = tokens[id].used
    BY <1>1 DEF PasswordResetToken
<1> HIDE DEF row
<1>4. ASSUME NEW i \in Ids, tokens'[i] # NULL
      PROVE  /\ tokens[i] # NULL
             /\ tokens'[i].link = tokens[i].link
             /\ tokens'[i].user = tokens[i].user
             /\ tokens[i].used => tokens'[i].used
    BY <1>2, <1>3, <1>4 DEF TypeOK, Expire
<1> QED
    BY <1>4 DEF RowsKept

LEMMA ChecksKeptBy ==
    ASSUME TypeOK, NEW r \in Requests,
           \A s \in Requests \ {r} : requests'[s] = requests[s],
           ~At(r, "validated")'
    PROVE  ChecksKept
    BY DEF ChecksKept, At

LEMMA ChecksKeptUnchanged ==
    ASSUME TypeOK, UNCHANGED requests
    PROVE  ChecksKept
    BY DEF ChecksKept, At

\* A request that ends leaves the others as they are.
LEMMA ChecksKeptFinished ==
    ASSUME TypeOK, NEW r \in Requests, NEW code, Finished(r, code)
    PROVE  ChecksKept
    BY ChecksKeptBy DEF Finished, TypeOK, At

LEMMA QuietAsk ==
    ASSUME TypeOK, NEW r \in Requests, NEW u \in Users, Ask(r, u)
    PROVE  Quiet
<1>1. ~At(r, "validated")' /\ \A s \in Requests \ {r} : requests'[s] = requests[s]
    BY DEF Ask, At, TypeOK
<1> QED
    BY <1>1, ChecksKeptBy, RowsKeptUnchanged DEF Quiet, Ask

LEMMA QuietFollow ==
    ASSUME TypeOK, NEW r \in Requests, NEW link \in Links, NEW id \in Ids,
           Follow(r, link, id)
    PROVE  Quiet
<1>1. CASE Refusal(id) # "none"
    BY <1>1, ChecksKeptUnchanged, RowsKeptUnchanged DEF Quiet, Follow
<1>2. CASE Refusal(id) = "none"
  <2> DEFINE asked ==
          [stage |-> "validated", user |-> tokens[id].user, id |-> id, link |-> link]
  <2>1. requests' = [requests EXCEPT ![r] = asked]
      BY <1>2 DEF Follow
  <2>2. /\ asked.id = id
        /\ asked.link = tokens[id].link
        /\ asked.user = tokens[id].user
      BY DEF Follow
  <2> HIDE DEF asked
  <2>3. ChecksKept
      BY <2>1, <2>2 DEF ChecksKept, At, TypeOK, Follow
  <2> QED
      BY <2>3, RowsKeptUnchanged DEF Quiet, Follow
<1> QED
    BY <1>1, <1>2

\* Every step is quiet, or creates a row, sets a password or purges an account.
LEMMA StepKinds ==
    ASSUME TypeOK, [Next]_vars
    PROVE  \/ Quiet
           \/ \E r \in Requests, id \in Ids : CreateToken(r, id)
           \/ \E r \in Requests : UpdatePassword(r)
           \/ \E u \in Users : Purge(u)
<1>1. CASE UNCHANGED vars
    BY <1>1, ChecksKeptUnchanged, RowsKeptUnchanged DEF vars, Quiet
<1>2. CASE AskStep
  <2>1. ASSUME NEW r \in Requests, Enqueue(r) \/ EnqueueFails(r)
        PROVE  Quiet
      BY <2>1, ChecksKeptFinished, RowsKeptUnchanged DEF Quiet, Enqueue, EnqueueFails
  <2> QED
      BY <1>2, <2>1, QuietAsk DEF AskStep
<1>3. CASE MailStep
    BY <1>3, ChecksKeptUnchanged, RowsKeptUnchanged DEF MailStep, Deliver, LeaveQueue, Quiet
<1>4. CASE FollowStep
  <2>1. ASSUME NEW r \in Requests, Fail(r)
        PROVE  Quiet
      BY <2>1, ChecksKeptFinished, RowsKeptUnchanged DEF Quiet, Fail
  <2>2. ASSUME NEW link \in Links, FollowDeleted(link)
        PROVE  Quiet
      BY <2>2, ChecksKeptUnchanged, RowsKeptUnchanged DEF Quiet, FollowDeleted
  <2> QED
      BY <1>4, <2>1, <2>2, QuietFollow DEF FollowStep
<1>5. CASE WorldStep
  <2>1. ASSUME NEW id \in Ids, Expire(id)
        PROVE  Quiet
      BY <2>1, ChecksKeptUnchanged, RowsKeptExpired DEF Quiet, Expire
  <2>2. ASSUME NEW u \in Users, SignUp(u) \/ Withdraw(u)
        PROVE  Quiet
      BY <2>2, ChecksKeptUnchanged, RowsKeptUnchanged DEF Quiet, SignUp, Withdraw
  <2> QED
      BY <1>5, <2>1, <2>2 DEF WorldStep
<1> QED
    BY <1>1, <1>2, <1>3, <1>4, <1>5 DEF Next

\* A link with a row, or with an account, has been issued, so the next one has neither.
LEMMA NextLinkIsFresh ==
    ASSUME TypeOK, Coherent, NEW r \in Requests, NEW id \in Ids, CreateToken(r, id)
    PROVE  /\ NewLink \in Links
           /\ owners[NewLink] = NULL
           /\ \A link \in Links : owners[link] # NULL => link < NewLink
<1>1. NewLink \in Links
    BY PasswordResetAssumption DEF CreateToken, NewLink, TypeOK, Links
<1>2. \A link \in Links : owners[link] # NULL => link < NewLink
    BY DEF Coherent, OwnedLinksAreIssued, NewLink, TypeOK, Links
<1> QED
    BY <1>1, <1>2 DEF Links

\* The table after createToken: one new row, and of the others those that are not an
\* unused link of the account, as they were.
LEMMA TableAfterCreate ==
    ASSUME TypeOK, NEW r \in Requests, NEW id \in Ids, CreateToken(r, id)
    PROVE  /\ tokens'[id] = [user |-> requests[r].user, link |-> NewLink,
                             used |-> FALSE, expired |-> FALSE]
           /\ \A i \in Ids \ {id} : tokens'[i] # NULL =>
                /\ tokens[i] # NULL
                /\ tokens'[i] = tokens[i]
                /\ tokens[i].used \/ tokens[i].user # requests[r].user
<1> DEFINE row == [user |-> requests[r].user, link |-> NewLink,
                   used |-> FALSE, expired |-> FALSE]
           kept == Without(Superseded(requests[r].user))
<1>1. tokens' = [kept EXCEPT ![id] = row]
    BY DEF CreateToken
<1>2. kept \in [Ids -> PasswordResetToken \union {NULL}]
    BY TypeWithout
<1>3. \A i \in Ids : kept[i] # NULL =>
        tokens[i] # NULL /\ kept[i] = tokens[i] /\ (tokens[i].used \/ tokens[i].user # requests[r].user)
    BY DEF Without, Superseded, Unused
<1> HIDE DEF row, kept
<1>4. tokens'[id] = row /\ \A i \in Ids \ {id} : tokens'[i] = kept[i]
    BY <1>1, <1>2
<1> QED
    BY <1>3, <1>4 DEF row

LEMMA RowIsTyped ==
    ASSUME TypeOK, NEW id \in Ids, tokens[id] # NULL
    PROVE  tokens[id] \in PasswordResetToken
    BY DEF TypeOK

LEMMA CoherentCreate ==
    ASSUME TypeOK, Coherent, NEW r \in Requests, NEW id \in Ids, CreateToken(r, id)
    PROVE  Coherent'
<1> DEFINE u == requests[r].user
<1>1. requests[r] \in Request /\ u \in Users
    BY DEF CreateToken, At, TypeOK, Request
<1>2. PICK row : row = [user |-> u, link |-> NewLink, used |-> FALSE, expired |-> FALSE]
    OBVIOUS
<1>3. row.user = u /\ row.link = NewLink /\ row.used = FALSE
    BY <1>2
<1>4. /\ NewLink \in Links
      /\ owners[NewLink] = NULL
      /\ \A link \in Links : owners[link] # NULL => link < NewLink
    BY NextLinkIsFresh
<1>5. PICK new : new = NewLink
    OBVIOUS
<1>6. PICK v : v = u
    OBVIOUS
<1>7. /\ tokens'[id] # NULL
      /\ tokens'[id].user = v /\ tokens'[id].link = new /\ tokens'[id].used = FALSE
      /\ \A i \in Ids \ {id} : tokens'[i] # NULL =>
            /\ tokens[i] # NULL
            /\ tokens'[i] = tokens[i]
            /\ tokens[i].used \/ tokens[i].user # v
  <2>1. tokens'[id] = row
      BY TableAfterCreate, <1>2
  <2>2. row \in PasswordResetToken
      BY <1>1, <1>2, <1>4 DEF PasswordResetToken
  <2>3. row # NULL
      BY <2>2, PasswordResetAssumption DEF PasswordResetToken, Links
  <2>4. \A i \in Ids \ {id} : tokens'[i] # NULL =>
            /\ tokens[i] # NULL
            /\ tokens'[i] = tokens[i]
            /\ tokens[i].used \/ tokens[i].user # u
      BY TableAfterCreate
  <2> HIDE DEF u
  <2> QED
      BY <2>1, <2>3, <2>4, <1>3, <1>5, <1>6
<1>8. /\ owners'[new] = v
      /\ \A link \in Links \ {new} : owners'[link] = owners[link]
      /\ issued' = new
      /\ passwords' = passwords
  <2>1. owners' = [owners EXCEPT ![NewLink] = u] /\ issued' = NewLink /\ passwords' = passwords
      BY DEF CreateToken, NewLink
  <2> QED
      BY <2>1, <1>4, <1>5, <1>6 DEF TypeOK
<1>9. new \in Links /\ owners[new] = NULL /\ v \in Users
      /\ \A link \in Links : owners[link] # NULL => link < new
    BY <1>1, <1>4, <1>5, <1>6
<1> HIDE DEF u
<1>10. \A i \in Ids : tokens[i] # NULL =>
        tokens[i].link \in Links /\ tokens[i].user \in Users /\ tokens[i].link # new
    BY <1>9, RowIsTyped, PasswordResetAssumption DEF PasswordResetToken, Coherent, RowsAreOwned
<1>11. RowsAreOwned'
    BY <1>7, <1>8, <1>9, <1>10 DEF Coherent, RowsAreOwned
<1>12. LinksNameOneRow'
    BY <1>7, <1>10 DEF Coherent, LinksNameOneRow
<1>13. OwnedLinksAreIssued'
    BY <1>8, <1>9 DEF Coherent, OwnedLinksAreIssued, Links
<1>14. ChecksNameTheRow'
  <2> SUFFICES ASSUME NEW s \in Requests, At(s, "validated")'
               PROVE  Checked(s)'
      BY DEF ChecksNameTheRow
  <2>1. s # r
      BY <1>1 DEF CreateToken, At, TypeOK, Request
  <2>2. requests'[s] = requests[s] /\ requests[s] # NULL
      BY <2>1 DEF CreateToken, At, TypeOK
  <2>3. Checked(s) /\ requests[s].user \in Users
      BY <2>2 DEF Coherent, ChecksNameTheRow, At, TypeOK, Request
  <2>4. requests[s].link # new
      BY <2>3, <1>9, PasswordResetAssumption DEF Checked
  <2> QED
      BY <2>2, <2>3, <2>4, <1>7, <1>8 DEF Checked
<1>15. OnlyTheLastLinkIsUnused'
  <2> SUFFICES ASSUME NEW i \in Ids, Unused(i)', NEW link \in Links,
                      link > tokens'[i].link
               PROVE  owners'[link] # tokens'[i].user
      BY DEF OnlyTheLastLinkIsUnused
  <2>1. CASE i = id
    <3>1. link > new /\ owners[link] = NULL
        BY <2>1, <1>7, <1>9 DEF Links
    <3> QED
        BY <3>1, <2>1, <1>7, <1>8, <1>9, PasswordResetAssumption DEF Links
  <2>2. CASE i # id
    <3>1. tokens[i] # NULL /\ tokens'[i] = tokens[i] /\ tokens[i].user # v /\ Unused(i)
        BY <2>2, <1>7 DEF Unused
    <3>2. owners[link] # tokens[i].user
        BY <3>1 DEF Coherent, OnlyTheLastLinkIsUnused
    <3> QED
        BY <3>1, <3>2, <1>8
  <2> QED
      BY <2>1, <2>2
<1>16. \A w \in Users : passwords[w] # 0 => passwords[w] \in Links /\ passwords[w] # new
    BY <1>9, PasswordResetAssumption DEF Coherent, PasswordsComeFromOwnLinks, TypeOK, Links
<1>17. PasswordsComeFromOwnLinks'
    BY <1>8, <1>16 DEF Coherent, PasswordsComeFromOwnLinks
<1>18. PasswordsAreSpent'
    BY <1>7, <1>8, <1>16 DEF Coherent, PasswordsAreSpent
<1> QED
    BY <1>11, <1>12, <1>13, <1>14, <1>15, <1>17, <1>18 DEF Coherent

LEMMA CoherentKept ==
    ASSUME TypeOK, Coherent, RowsKept, UNCHANGED <<issued, owners>>
    PROVE  RowsAreOwned' /\ LinksNameOneRow' /\ OwnedLinksAreIssued'
           /\ OnlyTheLastLinkIsUnused'
<1>1. RowsAreOwned'
    BY DEF RowsKept, Coherent, RowsAreOwned
<1>2. LinksNameOneRow'
    BY DEF RowsKept, Coherent, LinksNameOneRow
<1>3. OwnedLinksAreIssued'
    BY DEF Coherent, OwnedLinksAreIssued
<1>4. OnlyTheLastLinkIsUnused'
    BY DEF RowsKept, Coherent, OnlyTheLastLinkIsUnused, Unused
<1> QED
    BY <1>1, <1>2, <1>3, <1>4

LEMMA ChecksHold ==
    ASSUME TypeOK, Coherent, RowsKept, ChecksKept, UNCHANGED owners
    PROVE  ChecksNameTheRow'
<1> SUFFICES ASSUME NEW r \in Requests, At(r, "validated")'
             PROVE  Checked(r)'
    BY DEF ChecksNameTheRow
<1>1. CASE At(r, "validated") /\ requests'[r] = requests[r]
  <2>1. Checked(r)
      BY <1>1 DEF Coherent, ChecksNameTheRow
  <2> QED
      BY <2>1, <1>1 DEF Checked, RowsKept
<1>2. CASE /\ tokens[requests'[r].id] # NULL
           /\ requests'[r].id \in Ids
           /\ requests'[r].link = tokens[requests'[r].id].link
           /\ requests'[r].user = tokens[requests'[r].id].user
  <2>1. tokens[requests'[r].id].link \in Links
      BY <1>2, RowIsTyped DEF PasswordResetToken
  <2>2. \A i \in Ids : tokens'[i] # NULL /\ tokens'[i].link = requests'[r].link
            => i = requests'[r].id
      BY <1>2 DEF RowsKept, Coherent, LinksNameOneRow
  <2> QED
      BY <1>2, <2>1, <2>2 DEF Checked, Coherent, RowsAreOwned
<1> QED
    BY <1>1, <1>2 DEF ChecksKept

LEMMA CoherentQuiet ==
    ASSUME TypeOK, Coherent, Quiet
    PROVE  Coherent'
<1>1. PasswordsComeFromOwnLinks'
    BY DEF Quiet, Coherent, PasswordsComeFromOwnLinks
<1>2. PasswordsAreSpent'
    BY DEF Quiet, RowsKept, Coherent, PasswordsAreSpent
<1> QED
    BY <1>1, <1>2, CoherentKept, ChecksHold DEF Quiet, Coherent

LEMMA CoherentUpdate ==
    ASSUME TypeOK, Coherent, NEW r \in Requests, UpdatePassword(r)
    PROVE  Coherent'
<1>1. RowsKept /\ ChecksKept
    BY RowsKeptMarked, ChecksKeptFinished DEF UpdatePassword
<1>2. PICK q : q = requests[r]
    OBVIOUS
<1>3. /\ q \in Request
      /\ q.link \in Links
      /\ owners[q.link] = q.user
      /\ \A id \in Ids : tokens[id] # NULL /\ tokens[id].link = q.link => id = q.id
    BY <1>2 DEF UpdatePassword, At, TypeOK, Coherent, ChecksNameTheRow, Checked
<1>4. q.user \in Users
    BY <1>3 DEF Request
<1>5. /\ passwords'[q.user] = q.link
      /\ \A u \in Users \ {q.user} : passwords'[u] = passwords[u]
      /\ tokens' = MarkAsUsed(q.id)
      /\ UNCHANGED <<issued, owners>>
    BY <1>2, <1>4 DEF UpdatePassword, TypeOK
<1>6. PasswordsComeFromOwnLinks'
    BY <1>3, <1>5 DEF Coherent, PasswordsComeFromOwnLinks
<1>7. \A id \in Ids : id = q.id /\ tokens[id] # NULL => tokens'[id].used
    BY <1>5, RowIsTyped DEF MarkAsUsed, PasswordResetToken
<1>8. PasswordsAreSpent'
  <2> SUFFICES ASSUME NEW u \in Users, passwords'[u] # 0, NEW id \in Ids,
                      tokens'[id] # NULL, tokens'[id].link = passwords'[u]
               PROVE  tokens'[id].used
      BY DEF PasswordsAreSpent
  <2>1. CASE u = q.user
      BY <2>1, <1>1, <1>3, <1>5, <1>7 DEF RowsKept
  <2>2. CASE u # q.user
      BY <2>2, <1>1, <1>5 DEF RowsKept, Coherent, PasswordsAreSpent
  <2> QED
      BY <2>1, <2>2
<1> QED
    BY <1>1, <1>5, <1>6, <1>8, CoherentKept, ChecksHold DEF Coherent

LEMMA CoherentPurge ==
    ASSUME TypeOK, Coherent, NEW u \in Users, Purge(u)
    PROVE  Coherent'
<1>1. RowsKept
    BY RowsKeptWithout DEF Purge
<1>2. /\ \A id \in Ids : tokens'[id] # NULL => tokens'[id] = tokens[id] /\ tokens[id].user # u
      /\ \A link \in Links : owners'[link] = IF owners[link] = u THEN NULL ELSE owners[link]
      /\ \A v \in Users : passwords'[v] = IF v = u THEN 0 ELSE passwords[v]
      /\ UNCHANGED <<issued, requests>>
    BY DEF Purge, Without, TokensOf, TypeOK
<1>3. \A id \in Ids : tokens[id] # NULL =>
        tokens[id].link \in Links /\ tokens[id].user \in Users
    BY RowIsTyped DEF PasswordResetToken
<1>4. RowsAreOwned'
    BY <1>1, <1>2, <1>3 DEF RowsKept, Coherent, RowsAreOwned
<1>5. LinksNameOneRow'
    BY <1>1 DEF RowsKept, Coherent, LinksNameOneRow
<1>6. OwnedLinksAreIssued'
    BY <1>2 DEF Coherent, OwnedLinksAreIssued
<1>7. ChecksNameTheRow'
  <2> SUFFICES ASSUME NEW r \in Requests, At(r, "validated")
               PROVE  Checked(r)'
      BY <1>2 DEF ChecksNameTheRow, At
  <2>1. Checked(r) /\ requests[r].user # u
      BY DEF Coherent, ChecksNameTheRow, At, Purge
  <2> QED
      BY <2>1, <1>1, <1>2 DEF Checked, RowsKept
<1>8. OnlyTheLastLinkIsUnused'
  <2> SUFFICES ASSUME NEW id \in Ids, Unused(id)', NEW link \in Links,
                      link > tokens'[id].link
               PROVE  owners'[link] # tokens'[id].user
      BY DEF OnlyTheLastLinkIsUnused
  <2>1. Unused(id) /\ tokens'[id] = tokens[id] /\ tokens[id].user \in Users
      BY <1>1, <1>2, <1>3 DEF Unused, RowsKept
  <2>2. owners[link] # tokens[id].user
      BY <2>1 DEF Coherent, OnlyTheLastLinkIsUnused
  <2> QED
      BY <2>1, <2>2, <1>2, PasswordResetAssumption
<1>9. \A v \in Users : passwords[v] # 0 => passwords[v] \in Links
    BY PasswordResetAssumption DEF TypeOK, Links
<1>10. PasswordsComeFromOwnLinks'
    BY <1>2, <1>9 DEF Coherent, PasswordsComeFromOwnLinks
<1>11. PasswordsAreSpent'
    BY <1>1, <1>2 DEF RowsKept, Coherent, PasswordsAreSpent
<1> QED
    BY <1>4, <1>5, <1>6, <1>7, <1>8, <1>10, <1>11 DEF Coherent

LEMMA CoherentStep == TypeOK /\ Coherent /\ [Next]_vars => Coherent'
    BY StepKinds, CoherentQuiet, CoherentCreate, CoherentUpdate, CoherentPurge

LEMMA CoherentAlways == Spec => [](TypeOK /\ Coherent)
    BY TypeInit, TypeStep, CoherentInit, CoherentStep, PTL DEF Spec

-----------------------------------------------------------------------------
\* Links and requests stay coherent: the inductive invariant of this module, in which the three
\* theorems below are conjuncts or consequences.
THEOREM LinksAreCoherent == Spec => []Coherent
    BY CoherentAlways, PTL

\* Of the links of an account only the last one issued can be unused.
THEOREM OnlyTheLastLinkIsUnusedAlways == Spec => []OnlyTheLastLinkIsUnused
<1>1. Coherent => OnlyTheLastLinkIsUnused
    BY DEF Coherent
<1> QED
    BY <1>1, CoherentAlways, PTL

\* The password of an account was set through a link issued to it, whatever rowids were
\* given again in between.
THEOREM PasswordsAreOwn == Spec => []PasswordsComeFromOwnLinks
<1>1. Coherent => PasswordsComeFromOwnLinks
    BY DEF Coherent
<1> QED
    BY <1>1, CoherentAlways, PTL

\* A link that set the password of an account opens nothing any more.
THEOREM SpentLinksStayDead == Spec => []SpentLinksAreDead
<1>1. TypeOK /\ Coherent => SpentLinksAreDead
    BY DEF Coherent, PasswordsAreSpent, SpentLinksAreDead, Opens, Unused
<1> QED
    BY <1>1, CoherentAlways, PTL

-----------------------------------------------------------------------------
(* The pages around an account, of which the form behind a link is one.

   What a page or a form was shown for is noted on it as it changes.  As long as nothing is
   noted, nothing stands in the way: PromisesStand says so of the page in the tab and of the
   request in flight, and every answer is one that was promised. *)
Tab == INSTANCE AccountPages

-----------------------------------------------------------------------------
(* Types *)

Change == [key : 0..MaxBegun, address : Addresses \union {NONE}, open : BOOLEAN]
Factor == [key : 0..MaxBegun, state : {"none", "prepared", "enabled"}]
Link == [latest : 0..MaxBegun, live : BOOLEAN]
TabPage == [view : Tab!Views, key : 0..MaxBegun, changes : SUBSET Tab!Kinds]

\* The rows, the cookie and the settings.
RowsOK ==
    /\ accounts \subseteq Addresses
    /\ session \in accounts \union {NONE}
    /\ confirmations \in Seq(Tab!SignUpRow) /\ Len(confirmations) <= MaxBegun
    /\ jar \in 0..Len(confirmations) /\ made \subseteq 1..Len(confirmations)
    /\ pending \in Change
    /\ pending.open => pending.address # NONE
    /\ factor \in Factor
    /\ resets \in Link

RequestOK ==
    request # NONE =>
        /\ request.op \in IF request.method = "GET" THEN Tab!Paths ELSE Tab!Forms
        /\ (request.method = "POST" /\ request.op \in Tab!Typing) => request.text \in Addresses
        /\ request.jar <= Len(confirmations)

LEMMA TypeParts ==
    Tab!TypeOK <=> /\ RowsOK /\ RequestOK
               /\ page \in TabPage /\ request \in Tab!Sent \union {NONE}
               /\ disturbances \in 0..MaxDisturbances
    BY DEF Tab!TypeOK, RowsOK, RequestOK, Change, Factor, Link, TabPage

LEMMA NoneIsNoRequest == NONE \notin Tab!Sent /\ NONE \notin Addresses /\ MaxBegun \in Nat
<1>1. Tab!Sent = Sent
    BY DEF Sent, Paths, Settings, Forms, Fillings, Kinds,
           Tab!Sent, Tab!Paths, Tab!Settings, Tab!Forms, Tab!Fillings,
           Tab!Kinds
<1> QED
    BY <1>1, AccountPagesAssumption

LEMMA BlankPage == Tab!Blank \in TabPage /\ Tab!Blank.view = "nothing" /\ Tab!Blank.changes = {}
    BY NoneIsNoRequest DEF Tab!Blank, Tab!Page, TabPage, Tab!Views

LEMMA KindsOf == \A target : Tab!Relevant(target) \subseteq Tab!Kinds
    BY DEF Tab!Relevant, Tab!Kinds

\* A page as it is shown.
LEMMA PageShown ==
    ASSUME NEW view \in Tab!Views, NEW key \in 0..MaxBegun, NEW changes
    PROVE  /\ Tab!Page(view, key, changes) \in TabPage
           /\ Tab!Page(view, key, changes).view = view /\ Tab!Page(view, key, changes).key = key
           /\ Tab!Page(view, key, changes).changes = changes \intersect Tab!Relevant(view)
<1>1. changes \intersect Tab!Relevant(view) \subseteq Tab!Kinds
    BY KindsOf
<1>2. PICK noted \in SUBSET Tab!Kinds : noted = changes \intersect Tab!Relevant(view)
    BY <1>1
<1>3. [view |-> view, key |-> key, changes |-> noted] \in TabPage
    BY DEF TabPage
<1> QED
    BY <1>2, <1>3 DEF Tab!Page

LEMMA CookieFits ==
    ASSUME NEW rows \in Seq(Tab!SignUpRow), Len(rows) <= MaxBegun, NEW cookie \in 0..Len(rows)
    PROVE  cookie \in 0..MaxBegun /\ cookie <= Len(rows) /\ Len(rows) \in Nat
    BY NoneIsNoRequest, LenProperties

\* A request for a path.
LEMMA GetIs ==
    ASSUME NEW path, NEW key, NEW offered, NEW changes
    PROVE  Tab!Get(path, key, offered, changes)
               = [method |-> "GET", op |-> path, text |-> "", filling |-> "right", key |-> key,
                  jar |-> jar', offered |-> offered,
                  changes |-> changes \intersect Tab!Relevant(path)]
    BY Zenon DEF Tab!Get

LEMMA GetSent ==
    ASSUME jar' \in 0..MaxBegun, jar' <= Len(confirmations'), NEW path \in Tab!Paths,
           NEW key \in 0..MaxBegun, NEW offered \in BOOLEAN,
           NEW changes,
           request' = [method |-> "GET", op |-> path, text |-> "", filling |-> "right",
                       key |-> key, jar |-> jar', offered |-> offered,
                       changes |-> changes \intersect Tab!Relevant(path)]
    PROVE  /\ request' \in Tab!Sent /\ request' # NONE /\ RequestOK'
           /\ request'.method = "GET" /\ request'.op = path /\ request'.key = key
           /\ request'.jar = jar' /\ request'.offered = offered
           /\ request'.changes = changes \intersect Tab!Relevant(path)
<1>1. changes \intersect Tab!Relevant(path) \subseteq Tab!Kinds
    BY KindsOf
<1>3. request' \in Tab!Sent
    BY <1>1 DEF Tab!Sent, Tab!Fillings
<1>4. request' # NONE /\ RequestOK'
    BY <1>3, NoneIsNoRequest DEF RequestOK
<1>5. request'.offered = offered
    OBVIOUS
<1>6. /\ request'.method = "GET" /\ request'.op = path /\ request'.key = key
      /\ request'.jar = jar' /\ request'.changes = changes \intersect Tab!Relevant(path)
    OBVIOUS
<1> QED
    BY <1>3, <1>4, <1>5, <1>6

LEMMA RowsFit ==
    ASSUME RowsOK
    PROVE  /\ jar \in 0..MaxBegun /\ jar <= Len(confirmations) /\ Len(confirmations) \in 0..MaxBegun
           /\ 0 \in 0..MaxBegun
           /\ pending.key \in 0..MaxBegun /\ factor.key \in 0..MaxBegun
           /\ resets.latest \in 0..MaxBegun
           /\ \A k \in 1..Len(confirmations) : confirmations[k] \in Tab!SignUpRow
<1>1. confirmations \in Seq(Tab!SignUpRow) /\ jar \in 0..Len(confirmations)
          /\ Len(confirmations) <= MaxBegun
    BY DEF RowsOK
<1>2. Len(confirmations) \in Nat
      /\ \A k \in 1..Len(confirmations) : confirmations[k] \in Tab!SignUpRow
    BY <1>1, LenProperties, ElementOfSeq
<1>3. pending.key \in 0..MaxBegun /\ factor.key \in 0..MaxBegun /\ resets.latest \in 0..MaxBegun
    BY DEF RowsOK, Change, Factor, Link
<1> QED
    BY <1>1, <1>2, <1>3, NoneIsNoRequest

-----------------------------------------------------------------------------
(* What a page or a request can rely on *)

\* Pages and forms for whoever is signed in.
Members == Tab!Settings \union {"home", "enroll", "disable", "recovery_codes"}

\* Nothing stands in the way of a form or a path.
Ready(op, key) ==
    /\ op \in {"code", "account"} => key = jar /\ key # 0 /\ ~Tab!Taken(key)
    /\ op = "code" => Tab!Confirmable(key)
    /\ op = "account" => Tab!Confirmed(key)
    /\ op = "email_code" => Tab!Pending(key) /\ pending.address \notin accounts
    /\ op = "password" => Tab!Usable(key)
    /\ op = "enroll" => factor = [key |-> key, state |-> "prepared"]
    /\ op = "disable" => factor.state = "enabled"

\* Or what does is among the changes that are noted.
Stands(op, key, noted) ==
    /\ noted \subseteq Tab!Relevant(op)
    /\ (op \in Members /\ "session" \notin noted) => session # NONE
    /\ noted = {} => Ready(op, key)

\* What the handler of a request looks at.
Aim == IF request.method = "POST" THEN request.key
       ELSE IF request.op \in {"code", "account"} THEN request.jar
       ELSE IF request.op = "email_code" THEN pending.key
       ELSE request.key

PageStands == Stands(page.view, page.key, page.changes)

RequestStands ==
    request # NONE =>
        /\ page.view = "nothing" /\ page.changes = {}
        /\ request.changes \subseteq Tab!Relevant(request.op)
        /\ (request.op \in {"code", "account"} /\ request.changes = {}) => request.jar = jar
        /\ request.method = "POST" => request.offered
        /\ request.offered =>
            /\ Stands(request.op, Aim, request.changes)
            /\ request.method = "GET" => request.op # "password"

PromisesStand == Tab!TypeOK /\ PageStands /\ RequestStands

\* A step of the handlers keeps its promise.
Keeps ==
    (Tab!Answering /\ request.offered /\ request.changes = {} /\ request.filling = "right"
        /\ ~(request.op \in {"sign_up", "email"} /\ request.text \in accounts))
      => Tab!LedTo \in Tab!Promised(request)

Good == PromisesStand' /\ Keeps

\* A page for anybody stands by itself.
LEMMA NothingStands ==
    ASSUME page.view \in {"nothing", "welcome", "sign_in", "sent", "error", "sign_up", "reset"},
           page.changes = {}
    PROVE  PageStands
    BY DEF PageStands, Stands, Ready, Members, Tab!Settings

LEMMA Shows ==
    ASSUME PromisesStand, request # NONE, RowsOK',
           NEW view \in Tab!Views, NEW key \in 0..MaxBegun, NEW changes,
           Tab!Show(view, key, changes)
    PROVE  /\ Tab!TypeOK' /\ RequestStands' /\ request' = NONE /\ page' \in TabPage
           /\ page'.view = view /\ page'.key = key
           /\ page'.changes = changes \intersect Tab!Relevant(view)
           /\ (PageStands' /\ Keeps) => Good
<1>1. request' = NONE /\ page' = Tab!Page(view, key, changes) /\ disturbances' = disturbances
    BY DEF Tab!Show
<1>2. /\ page' \in TabPage /\ page'.view = view /\ page'.key = key
      /\ page'.changes = changes \intersect Tab!Relevant(view)
    BY <1>1, PageShown
<1>3. Tab!TypeOK' 
    BY <1>1, <1>2, TypeParts DEF PromisesStand, Tab!TypeOK, RowsOK, TabPage, Change, Factor, Link
<1>4. RequestStands'
    BY <1>1 DEF RequestStands
<1> QED
    BY <1>1, <1>2, <1>3, <1>4 DEF Good, PromisesStand

LEMMA Redirects ==
    ASSUME PromisesStand, request # NONE, RowsOK', NEW path \in Tab!Paths, Tab!Redirect(path)
    PROVE  /\ Tab!TypeOK' /\ PageStands' /\ request' # NONE
           /\ request'.method = "GET" /\ request'.op = path /\ request'.key = 0
           /\ request'.jar = jar' /\ request'.offered = TRUE
           /\ request'.changes = request.changes \intersect Tab!Relevant(path)
           /\ page' = page
           /\ (RequestStands' /\ Keeps) => Good
<1>1. request' = Tab!Get(path, 0, TRUE, request.changes) /\ page' = page
      /\ disturbances' = disturbances
    BY DEF Tab!Redirect
<1>2. request' = [method |-> "GET", op |-> path, text |-> "", filling |-> "right", key |-> 0,
                  jar |-> jar', offered |-> TRUE,
                  changes |-> request.changes \intersect Tab!Relevant(path)]
    BY <1>1, GetIs, Zenon
<1>3. jar' \in 0..MaxBegun /\ jar' <= Len(confirmations') /\ 0 \in 0..MaxBegun
    BY CookieFits, NoneIsNoRequest DEF RowsOK
<1>4. /\ request' \in Tab!Sent /\ request' # NONE /\ RequestOK'
      /\ request'.method = "GET" /\ request'.op = path /\ request'.key = 0
      /\ request'.jar = jar' /\ request'.offered = TRUE
      /\ request'.changes = request.changes \intersect Tab!Relevant(path)
    BY <1>2, <1>3, GetSent
<1>5. Tab!TypeOK'
    BY <1>1, <1>4, TypeParts DEF PromisesStand, Tab!TypeOK, RowsOK, RequestOK, TabPage, Change,
                                 Factor,
       Link
<1>6. PageStands'
    BY <1>1, NothingStands DEF PromisesStand, RequestStands, PageStands, Stands, Ready, Members,
       Tab!Settings
<1> QED
    BY <1>1, <1>4, <1>5, <1>6 DEF Good, PromisesStand

-----------------------------------------------------------------------------
(* Pages *)

LEMMA RestKeepsRows == ASSUME RowsOK, Tab!World PROVE RowsOK'
    BY DEF RowsOK, Tab!World, Tab!signUps, Tab!settings

\* A request as it is answered.
LEMMA Asking ==
    ASSUME PromisesStand, request # NONE
    PROVE  /\ RowsOK /\ request \in Tab!Sent /\ page.view = "nothing" /\ page.changes = {}
           /\ request.op \in IF request.method = "GET" THEN Tab!Paths ELSE Tab!Forms
           /\ request.method \in {"GET", "POST"}
           /\ request.changes \subseteq Tab!Relevant(request.op)
           /\ request.key \in 0..MaxBegun /\ request.jar \in 0..Len(confirmations)
           /\ request.jar \in 0..MaxBegun
           /\ (request.op \in {"code", "account"} /\ request.changes = {}) => request.jar = jar
           /\ request.method = "POST" => request.offered
           /\ request.offered => Stands(request.op, Aim, request.changes)
           /\ (request.offered /\ request.method = "GET") => request.op # "password"
<1>1. request \in Tab!Sent /\ RowsOK /\ RequestOK
    BY TypeParts DEF PromisesStand
<1>2. request.jar \in 0..Len(confirmations)
  <2>1. request.jar \in 0..MaxBegun
      BY <1>1 DEF Tab!Sent
  <2>2. request.jar <= Len(confirmations) /\ Len(confirmations) \in 0..MaxBegun
      BY <1>1, RowsFit DEF RequestOK
  <2> QED
      BY <2>1, <2>2, NoneIsNoRequest
<1> QED
    BY <1>1, <1>2 DEF PromisesStand, RequestStands, RequestOK, Tab!Sent

LEMMA SignedOutKeeps == ASSUME PromisesStand, Tab!SignedOut PROVE Good
<1>1. request # NONE /\ session = NONE
      /\ request.op \in Tab!Settings \union {"home", "enroll", "disable"}
      /\ Tab!World /\ Tab!Redirect("sign_in")
    BY DEF Tab!SignedOut
<1>2. RowsOK'
    BY <1>1, Asking, RestKeepsRows
<1>3. "sign_in" \in Tab!Paths
    BY DEF Tab!Paths
<1>4. RequestStands'
    BY <1>1, <1>2, <1>3, Redirects, Asking DEF RequestStands, Stands, Ready, Members, Tab!Settings
<1>5. Keeps
    BY <1>1, Asking DEF Keeps, Stands, Members
<1> QED
    BY <1>1, <1>2, <1>3, <1>4, <1>5, Redirects

\* A form is shown for what its request looks at.
LEMMA ShowFormKeeps ==
    ASSUME PromisesStand, request # NONE, request.method = "GET", Tab!World,
           request.op \in Tab!Views,
           request.op \in Members => session # NONE,
           NEW key \in 0..MaxBegun,
           request.op \in {"code", "account", "email_code", "password"} => key = Aim,
           Tab!ShowForm(request.op, key)
    PROVE  Good
<1> DEFINE noted == request.changes
                          \union IF request.offered THEN {} ELSE Tab!InTheWay(request.op, key)
<1>1. Tab!Show(request.op, key, noted)
    BY DEF Tab!ShowForm
<1>2. RowsOK'
    BY Asking, RestKeepsRows
<1> HIDE DEF noted
<1>3. /\ request' = NONE /\ page'.view = request.op /\ page'.key = key
      /\ page'.changes = noted \intersect Tab!Relevant(request.op)
      /\ (PageStands' /\ Keeps) => Good
    BY <1>1, <1>2, Shows
<1>4. PageStands'
  <2>1. Tab!InTheWay(request.op, key) \subseteq Tab!Relevant(request.op)
      BY DEF Tab!InTheWay, Tab!Relevant
  <2>2. page'.changes = {} =>
            request.changes = {} /\ (request.offered \/ Tab!InTheWay(request.op, key) = {})
      BY <1>3, <2>1, Asking DEF noted
  <2>3. page'.changes = {} => Ready(request.op, key)
    <3>1. CASE request.offered
        BY <2>2, <3>1, Asking DEF Stands, Ready, Tab!Paths, Tab!Settings
    <3>2. CASE ~request.offered
        BY <2>2, <3>2, Asking DEF Ready, Tab!InTheWay, Aim, Tab!Paths, Tab!Settings,
                                  Tab!Confirmable, Tab!Confirmed
    <3> QED
        BY <3>1, <3>2
  <2>4. Ready(request.op, key) => Ready(page.view, page.key)'
      BY <1>3 DEF Ready, Tab!World, Tab!signUps, Tab!settings, Tab!Confirmable, Tab!Confirmed,
                  Tab!Taken, Tab!Pending, Tab!Usable
  <2> QED
      BY <1>3, <2>3, <2>4 DEF PageStands, Stands, Tab!World
<1>5. Keeps
    BY <1>3, Asking DEF Keeps, Tab!LedTo, Tab!Promised, Tab!Paths, Tab!Settings, Tab!Views,
                        Tab!Forms
<1> QED
    BY <1>3, <1>4, <1>5

LEMMA ShowPagesKeep ==
    ASSUME PromisesStand,
           \/ Tab!ShowOpenPage \/ Tab!ShowSettings \/ Tab!ShowEmailCode \/ Tab!ShowPassword
    PROVE  Good
<1>1. request # NONE /\ request.method = "GET" /\ Tab!World
    BY DEF Tab!ShowOpenPage, Tab!ShowSettings, Tab!ShowEmailCode, Tab!ShowPassword, Tab!Is
<1>2. /\ 0 \in 0..MaxBegun /\ pending.key \in 0..MaxBegun
      /\ request.key \in 0..MaxBegun
    BY <1>1, Asking, RowsFit
<1>3. CASE Tab!ShowOpenPage
    BY <1>1, <1>2, <1>3, ShowFormKeeps
       DEF Tab!ShowOpenPage, Tab!OpenToAll, Tab!Views, Tab!Forms, Members, Tab!Settings
<1>4. CASE Tab!ShowSettings
    BY <1>1, <1>2, <1>4, ShowFormKeeps DEF Tab!ShowSettings, Tab!Views, Tab!Forms
<1>5. CASE Tab!ShowEmailCode
    BY <1>1, <1>2, <1>5, ShowFormKeeps DEF Tab!ShowEmailCode, Tab!Is, Tab!Views, Tab!Forms, Aim
<1>6. CASE Tab!ShowPassword
    BY <1>1, <1>2, <1>6, ShowFormKeeps DEF Tab!ShowPassword, Tab!Is, Tab!Views, Tab!Forms, Aim,
                                           Members, Tab!Settings
<1> QED
    BY <1>3, <1>4, <1>5, <1>6

LEMMA ShowRootKeeps == ASSUME PromisesStand, Tab!ShowRoot PROVE Good
<1>1. request # NONE /\ request.method = "GET" /\ request.op = "root" /\ Tab!World /\ RowsOK'
    BY Asking, RestKeepsRows DEF Tab!ShowRoot, Tab!Is
<1>2. CASE session # NONE
  <2>1. Tab!Redirect("home") /\ "home" \in Tab!Paths
      BY <1>1, <1>2 DEF Tab!ShowRoot, Tab!Paths
  <2>2. RequestStands'
      BY <1>1, <1>2, <2>1, Redirects, Asking
         DEF RequestStands, Stands, Ready, Members, Tab!Settings, Tab!World
  <2>3. Keeps
      BY <1>1, <2>1, Redirects DEF Keeps, Tab!LedTo, Tab!Promised
  <2> QED
      BY <1>1, <2>1, <2>2, <2>3, Redirects
<1>3. CASE session = NONE
  <2>1. Tab!Show("welcome", 0, {}) /\ "welcome" \in Tab!Views /\ 0 \in 0..MaxBegun
      BY <1>1, <1>3, NoneIsNoRequest DEF Tab!ShowRoot, Tab!Views
  <2>2. request' = NONE /\ page'.view = "welcome" /\ page'.changes = {}
        /\ (PageStands' /\ Keeps => Good)
      BY <1>1, <2>1, Shows DEF Tab!Relevant
  <2>3. Keeps
      BY <1>1, <2>2 DEF Keeps, Tab!LedTo, Tab!Promised
  <2>4. PageStands'
      BY <2>2 DEF PageStands, Stands, Ready, Members, Tab!Settings
  <2> QED
      BY <2>2, <2>3, <2>4
<1> QED
    BY <1>2, <1>3

LEMMA ShowHandOverKeeps == ASSUME PromisesStand, Tab!ShowHandOver PROVE Good
<1>1. request # NONE /\ request.method = "GET" /\ request.op \in {"code", "account"} /\ Tab!World
      /\ RowsOK'
    BY Asking, RestKeepsRows DEF Tab!ShowHandOver, Tab!Is
<1>2. CASE request.jar = 0
  <2>1. Tab!Redirect("sign_up") /\ "sign_up" \in Tab!Paths
      BY <1>1, <1>2 DEF Tab!ShowHandOver, Tab!Paths
  <2>2. RequestStands'
      BY <1>1, <1>2, <2>1, Redirects, Asking DEF RequestStands, Stands, Ready, Members, Tab!Settings
  <2>3. Keeps
      BY <1>1, <1>2, Asking DEF Keeps, Stands, Ready, Aim
  <2> QED
      BY <1>1, <2>1, <2>2, <2>3, Redirects
<1>3. CASE request.jar # 0
  <2>1. Tab!ShowForm(request.op, request.jar)
      BY <1>3 DEF Tab!ShowHandOver
  <2>2. request.jar = Aim /\ request.jar \in 0..MaxBegun
      BY <1>1, Asking DEF Aim
  <2> QED
      BY <1>1, <2>1, <2>2, ShowFormKeeps DEF Tab!Views, Tab!Forms, Members, Tab!Settings
<1> QED
    BY <1>2, <1>3

\* The form for enrolling or the one for switching off, as the row says.
LEMMA ShowSettingShows ==
    ASSUME PromisesStand, request # NONE, session # NONE, Tab!ShowSetting
    PROVE  /\ request' = NONE /\ page'.view \in {"enroll", "disable"}
           /\ Keeps => Good
<1>1. /\ factor.state # "none" \/ Tab!CanBegin
      /\ factor' = Tab!Prepared
      /\ UNCHANGED <<accounts, session, confirmations, jar, made, pending, resets>>
    BY DEF Tab!ShowSetting, Tab!signUps
<1>2. factor \in Factor /\ RowsOK
    BY Asking DEF RowsOK
<1>3. Tab!Prepared \in Factor /\ (Tab!Prepared.state = "enabled" <=> factor.state = "enabled")
          /\ Tab!Prepared.state # "none"
  <2>1. CASE factor.state # "none"
      BY <1>2, <2>1 DEF Tab!Prepared, Factor
  <2>2. CASE factor.state = "none"
    <3>1. factor.key + 1 \in 0..MaxBegun
        BY <1>1, <1>2, <2>2, RowsFit, NoneIsNoRequest DEF Tab!CanBegin
    <3>2. Tab!Prepared = [key |-> factor.key + 1, state |-> "prepared"]
        BY <2>2 DEF Tab!Prepared
    <3> QED
        BY <2>2, <3>1, <3>2 DEF Factor
  <2> QED
      BY <2>1, <2>2
<1>4. RowsOK'
    BY <1>1, <1>2, <1>3 DEF RowsOK
<1>5. Tab!Prepared.key \in 0..MaxBegun
    BY <1>3 DEF Factor
<1>6. CASE factor.state # "enabled"
  <2>1. Tab!Show("enroll", Tab!Prepared.key, {}) /\ "enroll" \in Tab!Views
      BY <1>6 DEF Tab!ShowSetting, Tab!SettingForm, Tab!EnrollForm, Tab!Views, Tab!Forms
  <2>2. request' = NONE /\ page'.view = "enroll" /\ page'.key = Tab!Prepared.key
        /\ page'.changes = {}
        /\ (PageStands' /\ Keeps => Good)
      BY <1>4, <1>5, <2>1, Shows
  <2>3. Tab!Prepared = [key |-> Tab!Prepared.key, state |-> "prepared"]
      BY <1>3, <1>6 DEF Factor
  <2>4. PageStands'
      BY <1>1, <2>2, <2>3 DEF PageStands, Stands, Ready, Members
  <2> QED
      BY <2>2, <2>4
<1>7. CASE factor.state = "enabled"
  <2>1. Tab!Show("disable", Tab!Prepared.key, {}) /\ "disable" \in Tab!Views
      BY <1>7 DEF Tab!ShowSetting, Tab!SettingForm, Tab!DisableForm, Tab!Views, Tab!Forms
  <2>2. request' = NONE /\ page'.view = "disable" /\ page'.changes = {}
        /\ (PageStands' /\ Keeps => Good)
      BY <1>4, <1>5, <2>1, Shows
  <2>3. PageStands'
      BY <1>1, <1>3, <1>7, <2>2 DEF PageStands, Stands, Ready, Members
  <2> QED
      BY <2>2, <2>3
<1> QED
    BY <1>6, <1>7

LEMMA ShowTwoFactorKeeps == ASSUME PromisesStand, Tab!ShowTwoFactor PROVE Good
<1>1. request # NONE /\ request.method = "GET" /\ request.op = "two_factor" /\ session # NONE
      /\ Tab!ShowSetting
    BY DEF Tab!ShowTwoFactor, Tab!Is
<1>2. request' = NONE /\ page'.view \in {"enroll", "disable"} /\ (Keeps => Good)
    BY <1>1, ShowSettingShows
<1>3. Keeps
    BY <1>1, <1>2 DEF Keeps, Tab!LedTo, Tab!Promised
<1> QED
    BY <1>2, <1>3

-----------------------------------------------------------------------------
(* Rows *)

LEMMA RowAdded ==
    ASSUME RowsOK, Tab!CanBegin, NEW a \in Addresses
    PROVE  /\ Tab!Begun(a) \in Seq(Tab!SignUpRow) /\ Len(Tab!Begun(a)) = Len(confirmations) + 1
           /\ Len(Tab!Begun(a)) \in 1..MaxBegun
           /\ Tab!Begun(a)[Len(Tab!Begun(a))] = [address |-> a, state |-> "sent"]
           /\ \A k \in 1..Len(confirmations) : Tab!Begun(a)[k] = confirmations[k]
<1>1. PICK row \in Tab!SignUpRow : row = [address |-> a, state |-> "sent"]
    BY DEF Tab!SignUpRow
<1>2. Tab!Begun(a) = Append(confirmations, row)
    BY <1>1 DEF Tab!Begun
<1>3. confirmations \in Seq(Tab!SignUpRow) /\ Len(confirmations) \in Nat
    BY RowsFit DEF RowsOK
<1>4. /\ Tab!Begun(a) \in Seq(Tab!SignUpRow) /\ Len(Tab!Begun(a)) = Len(confirmations) + 1
      /\ Tab!Begun(a)[Len(confirmations) + 1] = row
      /\ \A k \in 1..Len(confirmations) : Tab!Begun(a)[k] = confirmations[k]
    BY <1>2, <1>3, AppendProperties
<1>5. Len(confirmations) + 1 \in 1..MaxBegun
    BY <1>3, RowsFit, NoneIsNoRequest DEF Tab!CanBegin
<1> QED
    BY <1>1, <1>4, <1>5

LEMMA RowTurned ==
    ASSUME RowsOK, NEW i \in 1..Len(confirmations), NEW state \in {"confirmed", "over"},
           NEW rows, rows = [confirmations EXCEPT ![i].state = state]
    PROVE  /\ rows \in Seq(Tab!SignUpRow) /\ Len(rows) = Len(confirmations)
           /\ rows[i].address = confirmations[i].address /\ rows[i].state = state
           /\ \A k \in 1..Len(confirmations) : k # i => rows[k] = confirmations[k]
<1>1. confirmations \in Seq(Tab!SignUpRow) /\ confirmations[i] \in Tab!SignUpRow
    BY RowsFit DEF RowsOK
<1>2. PICK row : row = [confirmations[i] EXCEPT !.state = state]
    OBVIOUS
<1>3. row \in Tab!SignUpRow /\ row.address = confirmations[i].address /\ row.state = state
    BY <1>1, <1>2 DEF Tab!SignUpRow
<1>4. rows = [confirmations EXCEPT ![i] = row]
    BY <1>2
<1>5. rows \in Seq(Tab!SignUpRow) /\ Len(rows) = Len(confirmations) /\ rows[i] = row
      /\ \A k \in 1..Len(confirmations) : k # i => rows[k] = confirmations[k]
    BY <1>1, <1>3, <1>4, ExceptSeq
<1> QED
    BY <1>3, <1>5

-----------------------------------------------------------------------------
(* Submissions *)

LEMMA Posting ==
    ASSUME PromisesStand, request # NONE, request.method = "POST"
    PROVE  /\ request.op \in Tab!Forms /\ request.offered /\ request.filling \in Tab!Fillings
           /\ request.op \in Tab!Typing => request.text \in Addresses
           /\ request.changes \subseteq Tab!Relevant(request.op)
           /\ (request.op \in Members /\ "session" \notin request.changes) => session # NONE
           /\ request.changes = {} => Ready(request.op, request.key)
           /\ (request.op \in {"code", "account"} /\ request.changes = {})
                => request.jar = jar /\ request.key = jar /\ jar # 0
<1>1. request \in Tab!Sent /\ RequestOK
    BY TypeParts DEF PromisesStand
<1>2. Stands(request.op, request.key, request.changes) /\ request.op \in Tab!Forms
      /\ request.offered
    BY Asking DEF Aim
<1>3. request.changes = {} => Ready(request.op, request.key)
    BY <1>2 DEF Stands
<1> QED
    BY <1>1, <1>2, <1>3, Asking DEF Stands, RequestOK, Tab!Sent, Ready

\* A refused form that comes back is as good as it was.
LEMMA AgainKeeps ==
    ASSUME PromisesStand, request # NONE, request.method = "POST", RowsOK',
           NEW op, request.op = op, NEW key \in 0..MaxBegun, NEW ended, Tab!AgainAfter(key, ended),
           op \in Members => session # NONE, UNCHANGED session,
           (/\ request.changes = {} /\ ended \intersect Tab!Relevant(op) = {}
            /\ Ready(op, request.key)) => Ready(op, key)',
           (request.filling = "right" /\ request.changes = {})
             => request.op \in {"sign_up", "email"} /\ request.text \in accounts
    PROVE  Good
<1> DEFINE noted == request.changes \union ended \union Tab!InTheWay(request.op, request.key)
<1>1. Tab!Show(request.op, key, noted) /\ request.op \in Tab!Views
    BY Posting DEF Tab!AgainAfter, Tab!Views
<1> HIDE DEF noted
<1>2. /\ page'.view = request.op /\ page'.key = key
      /\ page'.changes = noted \intersect Tab!Relevant(request.op)
      /\ (PageStands' /\ Keeps) => Good
    BY <1>1, Shows
<1>3. page'.changes = {} =>
          request.changes = {} /\ ended \intersect Tab!Relevant(request.op) = {}
    BY <1>2, Posting DEF noted
<1>4. page'.changes = {} => Ready(op, key)'
    BY <1>3, Posting
<1>5. Ready(op, key)' => Ready(page.view, page.key)'
    BY <1>2 DEF Ready, Tab!Confirmable, Tab!Confirmed, Tab!Taken, Tab!Pending, Tab!Usable
<1>6. PageStands'
    BY <1>2, <1>4, <1>5 DEF PageStands, Stands
<1>7. Keeps
    BY DEF Keeps
<1> QED
    BY <1>2, <1>6, <1>7

LEMMA FailKeeps ==
    ASSUME PromisesStand, request # NONE, RowsOK', Tab!Fail,
           request.filling = "right" => request.changes # {}
    PROVE  Good
<1>1. Tab!Show("error", 0, {}) /\ "error" \in Tab!Views /\ 0 \in 0..MaxBegun
    BY NoneIsNoRequest DEF Tab!Fail, Tab!Views
<1>2. page'.view = "error" /\ page'.changes = {} /\ (PageStands' /\ Keeps => Good)
    BY <1>1, Shows
<1>3. PageStands'
    BY <1>2 DEF PageStands, Stands, Ready, Members, Tab!Settings
<1>4. Keeps
    BY DEF Keeps
<1> QED
    BY <1>2, <1>3, <1>4

\* A redirect to a page for anybody, or for whoever is signed in.
LEMMA RedirectKeeps ==
    ASSUME PromisesStand, request # NONE, RowsOK',
           NEW path \in {"root", "home", "sign_in", "sign_up", "settings"}, Tab!Redirect(path),
           path \in Members => session' # NONE,
           (request.filling = "right" /\ request.changes = {}) => path \in Tab!Promised(request)
    PROVE  Good
<1>1. path \in Tab!Paths
    BY DEF Tab!Paths, Tab!Settings
<1>2. /\ request' # NONE /\ request'.method = "GET" /\ request'.op = path
      /\ request'.changes = request.changes \intersect Tab!Relevant(path)
      /\ page' = page /\ (RequestStands' /\ Keeps => Good)
    BY <1>1, Redirects
<1>4. RequestStands'
    BY <1>2, Asking DEF RequestStands, Stands, Ready, Members, Tab!Settings
<1>5. Keeps
    BY <1>2 DEF Keeps, Tab!LedTo
<1> QED
    BY <1>2, <1>4, <1>5

LEMMA CreateSignUpKeeps == ASSUME PromisesStand, Tab!CreateSignUp PROVE Good
<1>1. /\ request # NONE /\ request.method = "POST" /\ request.op = "sign_up"
      /\ request.text \in Addresses /\ RowsOK /\ Len(confirmations) \in Nat
      /\ 0 \in 0..MaxBegun
    BY Posting, Asking, RowsFit DEF Tab!CreateSignUp, Tab!Is, Tab!Typing
<1>2. \A a : Ready("sign_up", a)'
    BY DEF Ready
<1>3. ASSUME RowsOK', Tab!SignUpAgain, UNCHANGED session,
             request.filling = "right" => request.text \in accounts
      PROVE  Good
    BY <1>1, <1>2, <1>3, AgainKeeps DEF Tab!SignUpAgain, Tab!Again, Members, Tab!Settings
<1>4. CASE (Tab!SignUpRefused \/ request.filling = "unlucky") /\ Tab!SignUpAgain /\ Tab!World
    BY <1>1, <1>3, <1>4, RestKeepsRows DEF Tab!SignUpRefused, Tab!Told, Tab!World
<1>5. CASE request.filling = "unlucky" /\ Tab!Fail /\ Tab!World
    BY <1>1, <1>5, FailKeeps, RestKeepsRows
<1>6. ASSUME Tab!CanBegin, confirmations' = Tab!Begun(request.text),
             jar' \in {jar, Len(confirmations')},
             UNCHANGED <<accounts, session, made, Tab!settings, resets>>
      PROVE  RowsOK' /\ Len(confirmations') \in 1..MaxBegun
             /\ confirmations'[Len(confirmations')] = [address |-> request.text, state |-> "sent"]
    BY <1>1, <1>6, RowAdded DEF RowsOK, Tab!settings
<1>7. CASE /\ request.filling = "unlucky" /\ request.text \notin accounts
           /\ Tab!CanBegin
           /\ confirmations' = Tab!Begun(request.text)
           /\ Tab!SignUpAgain
           /\ UNCHANGED <<accounts, session, jar, made, Tab!settings, resets>>
    BY <1>1, <1>3, <1>6, <1>7
<1>8. CASE /\ request.filling = "right" /\ request.text \notin accounts
           /\ Tab!CanBegin
           /\ confirmations' = Tab!Begun(request.text)
           /\ jar' = Len(confirmations')
           /\ Tab!Redirect("code")
           /\ UNCHANGED <<accounts, session, made, Tab!settings, resets>>
  <2>1. RowsOK' /\ jar' # 0
        /\ confirmations'[jar'] = [address |-> request.text, state |-> "sent"]
      BY <1>6, <1>8
  <2>2. /\ request' # NONE /\ request'.method = "GET" /\ request'.op = "code"
        /\ request'.jar = jar' /\ request'.changes = {} /\ page' = page
        /\ (RequestStands' /\ Keeps => Good)
      BY <1>1, <1>8, <2>1, Redirects, Asking DEF Tab!Paths, Tab!Relevant
  <2>3. Ready("code", jar)'
      BY <1>8, <2>1 DEF Ready, Tab!Confirmable, Tab!Taken
  <2>4. RequestStands'
      BY <1>1, <2>2, <2>3, Asking DEF RequestStands, Stands, Aim, Members, Tab!Settings
  <2>5. Keeps
      BY <1>1, <2>2 DEF Keeps, Tab!LedTo, Tab!Promised
  <2> QED
      BY <2>2, <2>4, <2>5
<1> QED
    BY <1>4, <1>5, <1>7, <1>8 DEF Tab!CreateSignUp

LEMMA VerifyCodeKeeps == ASSUME PromisesStand, Tab!VerifyCode PROVE Good
<1>1. /\ request # NONE /\ request.method = "POST" /\ request.op = "code"
      /\ RowsOK /\ request.jar \in 0..Len(confirmations) /\ request.jar \in 0..MaxBegun
      /\ request.changes \subseteq {"code", "address"}
      /\ request.changes = {} => /\ Ready("code", request.key)
                                 /\ request.jar = jar /\ request.key = jar /\ jar # 0
      /\ \A i \in 1..Len(confirmations) : confirmations[i] \in Tab!SignUpRow
    BY Posting, Asking, RowsFit DEF Tab!VerifyCode, Tab!Is, Tab!Relevant
<1>2. ASSUME request.jar = 0, Tab!World, Tab!Redirect("sign_up")
      PROVE  Good
    BY <1>1, <1>2, RedirectKeeps, RestKeepsRows DEF Members, Tab!Settings
<1>3. ASSUME request.jar # 0, Tab!CodeRefused, Tab!CodeAgain({}), Tab!World
      PROVE  Good
  <2>1. request.changes = {} => request.filling # "right"
      BY <1>1, <1>3 DEF Tab!CodeRefused, Tab!Told, Ready
  <2>2. PICK cookie : cookie = request.jar
      OBVIOUS
  <2>3. (request.changes = {} /\ Ready("code", request.key)) => Ready("code", cookie)'
      BY <1>1, <1>3, <2>2 DEF Ready, Tab!World, Tab!signUps, Tab!settings, Tab!Confirmable,
                              Tab!Taken
  <2>4. RowsOK' /\ Tab!AgainAfter(cookie, {}) /\ UNCHANGED session /\ cookie \in 0..MaxBegun
      BY <1>1, <1>3, <2>2, RestKeepsRows DEF Tab!CodeAgain, Tab!World
  <2> QED
      BY <1>1, <2>1, <2>3, <2>4, AgainKeeps DEF Members, Tab!Settings
<1>4. ASSUME request.jar # 0, request.filling = "wrong",
             confirmations' = [confirmations EXCEPT ![request.jar].state = "over"],
             Tab!CodeAgain({"code"}),
             UNCHANGED <<accounts, session, jar, made, Tab!settings, resets>>
      PROVE  Good
  <2>1. RowsOK'
      BY <1>1, <1>4, RowTurned DEF RowsOK, Tab!settings
  <2>2. {"code"} \intersect Tab!Relevant("code") # {}
      BY DEF Tab!Relevant
  <2> QED
      BY <1>1, <1>4, <2>1, <2>2, AgainKeeps DEF Tab!CodeAgain, Members, Tab!Settings
<1>5. ASSUME request.filling = "unlucky", Tab!Fail, Tab!World
      PROVE  Good
    BY <1>1, <1>5, FailKeeps, RestKeepsRows
<1>6. ASSUME request.jar # 0, request.filling = "right",
             Tab!Confirmable(request.jar), request.key = request.jar,
             confirmations' = [confirmations EXCEPT ![request.jar].state = "confirmed"],
             jar' = Tab!KeptCookie,
             Tab!Redirect("account"),
             UNCHANGED <<accounts, session, made, Tab!settings, resets>>
      PROVE  Good
  <2>1. request.jar \in 1..Len(confirmations)
      BY <1>1, <1>6
  <2>2. /\ RowsOK' /\ jar' = jar /\ accounts' = accounts
        /\ confirmations'[request.jar].address = confirmations[request.jar].address
        /\ confirmations'[request.jar].state = "confirmed"
      BY <1>1, <1>6, <2>1, RowTurned DEF RowsOK, Tab!settings, Tab!KeptCookie
  <2>3. /\ request' # NONE /\ request'.method = "GET" /\ request'.op = "account"
        /\ request'.jar = jar' /\ page' = page
        /\ request'.changes = request.changes \intersect Tab!Relevant("account")
        /\ (RequestStands' /\ Keeps => Good)
      BY <1>1, <1>6, <2>2, Redirects DEF Tab!Paths
  <2>7. request'.changes = request.changes
      BY <1>1, <2>3 DEF Tab!Relevant
  <2>4. request.changes = {} => Ready("account", jar)'
      BY <1>1, <1>6, <2>2 DEF Ready, Tab!Confirmed, Tab!Taken
  <2>5. RequestStands'
      BY <1>1, <2>3, <2>4, <2>7, Asking
         DEF RequestStands, Stands, Aim, Members, Tab!Settings, Tab!Relevant
  <2>6. Keeps
      BY <1>1, <2>3 DEF Keeps, Tab!LedTo, Tab!Promised
  <2> QED
      BY <2>3, <2>5, <2>6
<1> QED
    BY <1>2, <1>3, <1>4, <1>5, <1>6 DEF Tab!VerifyCode

LEMMA AccountMade ==
    ASSUME RowsOK, NEW i \in 1..Len(confirmations), ~Tab!Taken(i), i # 0,
           accounts' = accounts \union {confirmations[i].address}, made' = made \union {i},
           jar' = 0, confirmations' = confirmations, resets' = resets,
           \/ UNCHANGED <<session, pending, factor>>
           \/ session' = confirmations[i].address /\ pending' = Tab!NoChange
              /\ factor' = Tab!NoFactor
    PROVE  RowsOK' /\ (session' # NONE \/ UNCHANGED session)
<1>1. confirmations[i].address \in Addresses /\ Len(confirmations) \in Nat
    BY RowsFit DEF Tab!SignUpRow
<1>2. pending' \in Change /\ (pending'.open => pending'.address # NONE) /\ factor' \in Factor
  <2>1. Tab!NoChange \in Change /\ Tab!NoFactor \in Factor /\ Tab!NoChange.open = FALSE
      BY NoneIsNoRequest DEF Tab!NoChange, Tab!NoFactor, Change, Factor
  <2>2. CASE UNCHANGED <<session, pending, factor>>
      BY <2>2 DEF RowsOK
  <2>3. CASE pending' = Tab!NoChange /\ factor' = Tab!NoFactor
      BY <2>1, <2>3
  <2> QED
      BY <2>2, <2>3
<1>3. session' \in accounts' \union {NONE} /\ (session' # NONE \/ UNCHANGED session)
    BY <1>1, NoneIsNoRequest DEF RowsOK
<1>4. accounts' \subseteq Addresses /\ made' \subseteq 1..Len(confirmations')
    BY <1>1 DEF RowsOK
<1> QED
    BY <1>1, <1>2, <1>3, <1>4 DEF RowsOK

LEMMA CreateAccountKeeps == ASSUME PromisesStand, Tab!CreateAccount PROVE Good
<1>1. /\ request # NONE /\ request.method = "POST" /\ request.op = "account"
      /\ RowsOK /\ request.jar \in 0..Len(confirmations) /\ request.jar \in 0..MaxBegun
      /\ request.changes = {} => /\ Ready("account", request.key)
                                 /\ request.jar = jar /\ request.key = jar /\ jar # 0
    BY Posting, Asking DEF Tab!CreateAccount, Tab!Is
<1>2. PICK cookie : cookie = request.jar
    OBVIOUS
<1>3. ASSUME cookie = 0, Tab!World, Tab!Redirect("sign_up")
      PROVE  Good
    BY <1>1, <1>2, <1>3, RedirectKeeps, RestKeepsRows DEF Members, Tab!Settings
<1>4. ASSUME cookie # 0, ~Tab!Confirmed(cookie), jar' = 0, Tab!Redirect("sign_up"),
             UNCHANGED <<accounts, session, confirmations, made, Tab!settings, resets>>
      PROVE  Good
  <2>1. RowsOK'
      BY <1>1, <1>4, RowsFit DEF RowsOK, Tab!settings
  <2>2. request.changes # {}
      BY <1>1, <1>2, <1>4 DEF Ready
  <2> QED
      BY <1>1, <1>4, <2>1, <2>2, RedirectKeeps DEF Members, Tab!Settings
<1>5. ASSUME request.filling = "wrong", Tab!AccountAgain, Tab!World
      PROVE  Good
  <2>1. (request.changes = {} /\ Ready("account", request.key)) => Ready("account", cookie)'
      BY <1>1, <1>2, <1>5 DEF Ready, Tab!World, Tab!signUps, Tab!settings, Tab!Confirmed, Tab!Taken
  <2>2. RowsOK' /\ Tab!AgainAfter(cookie, {}) /\ UNCHANGED session /\ cookie \in 0..MaxBegun
      BY <1>1, <1>2, <1>5, RestKeepsRows DEF Tab!AccountAgain, Tab!Again, Tab!World
  <2> QED
      BY <1>1, <1>5, <2>1, <2>2, AgainKeeps DEF Members, Tab!Settings
<1>6. ASSUME request.filling = "unlucky" \/ (request.filling = "right" /\ Tab!Taken(cookie)),
             Tab!Fail, Tab!World
      PROVE  Good
    BY <1>1, <1>2, <1>6, FailKeeps, RestKeepsRows DEF Ready
<1>7. ASSUME Tab!Confirmed(cookie), request.filling = "unlucky", ~Tab!Taken(cookie),
             Tab!MakeAccount, jar' = Tab!CookieAfterFailure, Tab!Fail,
             UNCHANGED <<session, Tab!settings>>
      PROVE  Good
  <2>1. cookie # 0 /\ cookie \in 1..Len(confirmations)
      BY <1>1, <1>2, <1>7 DEF Tab!Confirmed
  <2>2. RowsOK'
      BY <1>1, <1>2, <1>7, <2>1, AccountMade DEF Tab!MakeAccount, Tab!CookieAfterFailure,
                                                 Tab!settings
  <2> QED
      BY <1>1, <1>7, <2>2, FailKeeps
<1>8. ASSUME Tab!Confirmed(cookie), request.filling = "right", ~Tab!Taken(cookie),
             Tab!MakeAccount, session' = confirmations[cookie].address,
             pending' = Tab!NoChange, factor' = Tab!NoFactor, jar' = 0, Tab!Redirect("root")
      PROVE  Good
  <2>1. cookie # 0 /\ cookie \in 1..Len(confirmations)
      BY <1>1, <1>2, <1>8 DEF Tab!Confirmed
  <2>2. RowsOK'
      BY <1>1, <1>2, <1>8, <2>1, AccountMade DEF Tab!MakeAccount
  <2>3. "root" \in Tab!Promised(request) /\ "root" \notin Members
      BY <1>1 DEF Tab!Promised, Members, Tab!Settings
  <2> QED
      BY <1>1, <1>8, <2>2, <2>3, RedirectKeeps
<1>9. Tab!Told(FALSE) <=> request.filling = "wrong"
    BY DEF Tab!Told
<1> QED
    BY <1>2, <1>3, <1>4, <1>5, <1>6, <1>7, <1>8, <1>9 DEF Tab!CreateAccount

-----------------------------------------------------------------------------
(* Submissions: reset *)

LEMMA LinkMade ==
    ASSUME RowsOK, Tab!CanBegin, NEW row, row = [latest |-> resets.latest + 1, live |-> TRUE]
    PROVE  row \in Link
<1>1. resets.latest + 1 \in 0..MaxBegun
    BY RowsFit, NoneIsNoRequest DEF Tab!CanBegin
<1> QED
    BY <1>1 DEF Link

LEMMA LinkDead ==
    ASSUME RowsOK, NEW row, row = [resets EXCEPT !.live = FALSE]
    PROVE  row \in Link
    BY DEF RowsOK, Link

LEMMA CreateResetKeeps == ASSUME PromisesStand, Tab!CreateReset PROVE Good
<1>1. /\ request # NONE /\ request.method = "POST" /\ request.op = "reset"
      /\ RowsOK /\ 0 \in 0..MaxBegun
    BY Asking, RowsFit DEF Tab!CreateReset, Tab!Is
<1>2. ASSUME request.filling \in {"wrong", "unlucky"}, Tab!ResetAgain, Tab!World
      PROVE  Good
  <2>1. Ready("reset", 0)'
      BY DEF Ready
  <2>2. RowsOK' /\ Tab!AgainAfter(0, {}) /\ UNCHANGED session
      BY <1>1, <1>2, RestKeepsRows DEF Tab!ResetAgain, Tab!Again, Tab!World
  <2> QED
      BY <1>1, <1>2, <2>1, <2>2, AgainKeeps DEF Members, Tab!Settings
<1>3. ASSUME request.filling \in {"right", "unlucky"}, Tab!Show("sent", 0, {}),
             resets' = IF request.text \in accounts /\ Tab!CanBegin
                     THEN [latest |-> resets.latest + 1, live |-> TRUE] ELSE resets,
             UNCHANGED <<accounts, session, Tab!signUps, Tab!settings>>
      PROVE  Good
  <2>1. resets' \in Link
      BY <1>1, <1>3, LinkMade DEF RowsOK
  <2>2. RowsOK'
      BY <1>1, <1>3, <2>1 DEF RowsOK, Tab!signUps, Tab!settings
  <2>3. request' = NONE /\ page'.view = "sent" /\ page'.changes = {}
        /\ (PageStands' /\ Keeps => Good)
      BY <1>1, <1>3, <2>2, Shows DEF Tab!Views
  <2>4. PageStands'
      BY <2>3 DEF PageStands, Stands, Ready, Members, Tab!Settings
  <2>5. Keeps
      BY <1>1, <2>3 DEF Keeps, Tab!LedTo, Tab!Promised
  <2> QED
      BY <2>3, <2>4, <2>5
<1> QED
    BY <1>2, <1>3 DEF Tab!CreateReset

LEMMA UpdatePasswordKeeps == ASSUME PromisesStand, Tab!UpdatePassword PROVE Good
<1>1. /\ request # NONE /\ request.method = "POST" /\ request.op = "password"
      /\ RowsOK /\ request.key \in 0..MaxBegun /\ 0 \in 0..MaxBegun
      /\ request.changes = {} => Tab!Usable(request.key)
    BY Posting, Asking, RowsFit DEF Tab!UpdatePassword, Tab!Is, Ready
<1>2. ASSUME Tab!PasswordRefused, Tab!PasswordAgain, Tab!World
      PROVE  Good
  <2>1. PICK token \in 0..MaxBegun : token = Tab!TokenLeft
      BY <1>1 DEF Tab!TokenLeft
  <2>2. request.changes = {} => request.filling = "wrong" /\ token = request.key
      BY <1>1, <1>2, <2>1 DEF Tab!PasswordRefused, Tab!Told, Tab!TokenLeft, Tab!Usable
  <2>3. request.changes = {} => Ready("password", token)'
      BY <1>1, <1>2, <2>2 DEF Ready, Tab!Usable, Tab!World
  <2>4. RowsOK' /\ Tab!AgainAfter(token, {}) /\ UNCHANGED session
      BY <1>1, <1>2, <2>1, RestKeepsRows DEF Tab!PasswordAgain, Tab!Again, Tab!World
  <2> QED
      BY <1>1, <2>2, <2>3, <2>4, AgainKeeps DEF Members, Tab!Settings
<1>3. ASSUME request.filling = "unlucky", Tab!Fail, Tab!World
      PROVE  Good
    BY <1>1, <1>3, FailKeeps, RestKeepsRows
<1>4. ASSUME resets' = [resets EXCEPT !.live = FALSE], Tab!Redirect("sign_in"),
             UNCHANGED <<accounts, session, Tab!signUps, Tab!settings>>
      PROVE  Good
  <2>1. RowsOK'
      BY <1>1, <1>4, LinkDead DEF RowsOK, Tab!signUps, Tab!settings
  <2>2. "sign_in" \in Tab!Promised(request) /\ "sign_in" \notin Members
      BY <1>1 DEF Tab!Promised, Members, Tab!Settings
  <2> QED
      BY <1>1, <1>4, <2>1, <2>2, RedirectKeeps
<1> QED
    BY <1>2, <1>3, <1>4 DEF Tab!UpdatePassword

-----------------------------------------------------------------------------
(* Submissions: settings *)

LEMMA ChangeMade ==
    ASSUME RowsOK, Tab!CanBegin, NEW a \in Addresses, NEW row,
           row = [key |-> pending.key + 1, address |-> a, open |-> TRUE]
    PROVE  row \in Change /\ row.address = a /\ row.open /\ row.address # NONE
<1>1. pending.key + 1 \in 0..MaxBegun
    BY RowsFit, NoneIsNoRequest DEF Tab!CanBegin
<1> QED
    BY <1>1, NoneIsNoRequest DEF Change

LEMMA ChangeOver ==
    ASSUME RowsOK, NEW row, row = [pending EXCEPT !.open = FALSE]
    PROVE  row \in Change /\ ~row.open
    BY DEF RowsOK, Change

LEMMA SettingSubmitted ==
    ASSUME PromisesStand, NEW form, Tab!Submitted(form)
    PROVE  /\ request # NONE /\ request.method = "POST" /\ request.op = form
           /\ session # NONE /\ RowsOK /\ 0 \in 0..MaxBegun
           /\ request.key \in 0..MaxBegun /\ pending.key \in 0..MaxBegun
           /\ request.changes = {} => Ready(form, request.key)
           /\ form \in Tab!Typing => request.text \in Addresses
           /\ request.changes \subseteq Tab!Relevant(form)
    BY Posting, Asking, RowsFit DEF Tab!Submitted, Tab!Is

LEMMA UpdateEmailKeeps == ASSUME PromisesStand, Tab!UpdateEmail PROVE Good
<1>1. /\ request # NONE /\ request.method = "POST" /\ request.op = "email"
      /\ session # NONE /\ RowsOK /\ 0 \in 0..MaxBegun /\ request.text \in Addresses
      /\ request.changes \subseteq {"session"}
    BY SettingSubmitted DEF Tab!UpdateEmail, Tab!Typing, Tab!Relevant
<1>2. ASSUME RowsOK', Tab!EmailAgain, UNCHANGED session,
             request.filling = "right" => request.text \in accounts
      PROVE  Good
  <2>1. Ready("email", 0)'
      BY DEF Ready
  <2> QED
      BY <1>1, <1>2, <2>1, AgainKeeps DEF Tab!EmailAgain, Tab!Again
<1>3. ASSUME Tab!EmailRefused \/ request.filling = "unlucky", Tab!EmailAgain, Tab!World
      PROVE  Good
    BY <1>1, <1>2, <1>3, RestKeepsRows DEF Tab!EmailRefused, Tab!Told, Tab!World
<1>4. ASSUME request.filling = "unlucky", Tab!Fail, Tab!World
      PROVE  Good
    BY <1>1, <1>4, FailKeeps, RestKeepsRows
<1>5. ASSUME request.filling \in {"right", "unlucky"}, request.text \notin accounts, Tab!CanBegin,
             pending' = [key |-> pending.key + 1, address |-> request.text, open |-> TRUE],
             UNCHANGED <<accounts, session, Tab!signUps, factor, resets>>,
             IF request.filling = "right" THEN Tab!Redirect("email_code") ELSE Tab!EmailAgain
      PROVE  Good
  <2>1. pending' \in Change /\ pending'.address = request.text /\ pending'.open
        /\ pending'.address # NONE
      BY <1>1, <1>5, ChangeMade
  <2>2. RowsOK'
      BY <1>1, <1>5, <2>1 DEF RowsOK, Tab!signUps
  <2>3. CASE request.filling = "unlucky"
      BY <1>2, <1>5, <2>2, <2>3
  <2>4. CASE request.filling = "right"
    <3>1. /\ request' # NONE /\ request'.method = "GET" /\ request'.op = "email_code"
          /\ request'.changes = request.changes \intersect Tab!Relevant("email_code")
          /\ page' = page /\ (RequestStands' /\ Keeps => Good)
        BY <1>1, <1>5, <2>2, <2>4, Redirects DEF Tab!Paths, Tab!Settings
    <3>2. request'.changes = request.changes
        BY <1>1, <3>1 DEF Tab!Relevant
    <3>3. Ready("email_code", pending.key)'
        BY <1>5, <2>1 DEF Ready, Tab!Pending
    <3>4. Aim' = pending'.key
        BY <3>1 DEF Aim
    <3>5. Stands(request.op, Aim, request.changes)'
        BY <1>1, <1>5, <3>1, <3>2, <3>3, <3>4 DEF Stands
    <3>6. RequestStands'
        BY <1>1, <3>1, <3>5, Asking DEF RequestStands
    <3>7. Keeps
        BY <1>1, <3>1 DEF Keeps, Tab!LedTo, Tab!Promised
    <3> QED
        BY <3>1, <3>6, <3>7
  <2> QED
      BY <1>5, <2>3, <2>4
<1> QED
    BY <1>3, <1>4, <1>5 DEF Tab!UpdateEmail

LEMMA VerifyEmailChangeKeeps == ASSUME PromisesStand, Tab!VerifyEmailChange PROVE Good
<1>1. /\ request # NONE /\ request.method = "POST" /\ request.op = "email_code"
      /\ session # NONE /\ RowsOK /\ pending.key \in 0..MaxBegun
      /\ request.changes = {} => Ready("email_code", request.key)
    BY SettingSubmitted DEF Tab!VerifyEmailChange
<1>2. PICK key \in 0..MaxBegun : key = pending.key
    BY <1>1
<1>3. ASSUME Tab!EmailCodeRefused, Tab!EmailCodeAgain({}), Tab!World
      PROVE  Good
  <2>1. request.changes = {} => request.filling # "right"
      BY <1>1, <1>3 DEF Tab!EmailCodeRefused, Tab!Told, Ready
  <2>2. (request.changes = {} /\ Ready("email_code", request.key)) => Ready("email_code", key)'
      BY <1>1, <1>2, <1>3 DEF Ready, Tab!World, Tab!settings, Tab!Pending
  <2>3. RowsOK' /\ Tab!AgainAfter(key, {}) /\ UNCHANGED session
      BY <1>1, <1>2, <1>3, RestKeepsRows DEF Tab!EmailCodeAgain, Tab!World
  <2> QED
      BY <1>1, <2>1, <2>2, <2>3, AgainKeeps
<1>4. ASSUME request.filling = "wrong", pending' = [pending EXCEPT !.open = FALSE],
             Tab!EmailCodeAgain({"change"}),
             UNCHANGED <<accounts, session, Tab!signUps, factor, resets>>
      PROVE  Good
  <2>1. RowsOK'
      BY <1>1, <1>4, ChangeOver DEF RowsOK, Tab!signUps
  <2>2. {"change"} \intersect Tab!Relevant("email_code") # {}
      BY DEF Tab!Relevant
  <2> QED
      BY <1>1, <1>2, <1>4, <2>1, <2>2, AgainKeeps DEF Tab!EmailCodeAgain
<1>5. ASSUME request.filling = "unlucky", Tab!Fail, Tab!World
      PROVE  Good
    BY <1>1, <1>5, FailKeeps, RestKeepsRows
<1>6. ASSUME Tab!Pending(request.key), pending.address \notin accounts,
             accounts' = (accounts \ {session}) \union {pending.address},
             session' = pending.address, pending' = [pending EXCEPT !.open = FALSE],
             UNCHANGED <<Tab!signUps, factor, resets>>, Tab!Redirect("settings")
      PROVE  Good
  <2>1. pending.address \in Addresses /\ pending.address # NONE
      BY <1>1, <1>6 DEF RowsOK, Change, Tab!Pending
  <2>2. pending' \in Change /\ ~pending'.open
      BY <1>1, <1>6, ChangeOver
  <2>3. accounts' \subseteq Addresses /\ session' \in accounts' \union {NONE}
      BY <1>1, <1>6, <2>1 DEF RowsOK
  <2>4. RowsOK'
      BY <1>1, <1>6, <2>2, <2>3 DEF RowsOK, Tab!signUps
  <2>5. "settings" \in Tab!Promised(request) /\ session' # NONE
      BY <1>1, <1>6, <2>1 DEF Tab!Promised
  <2> QED
      BY <1>1, <1>6, <2>4, <2>5, RedirectKeeps
<1> QED
    BY <1>3, <1>4, <1>5, <1>6 DEF Tab!VerifyEmailChange

LEMMA FactorSet ==
    ASSUME RowsOK, NEW state \in {"none", "enabled"}, NEW row,
           row = [factor EXCEPT !.state = state]
    PROVE  row \in Factor /\ row.state = state
    BY DEF RowsOK, Factor

LEMMA EnableTwoFactorKeeps == ASSUME PromisesStand, Tab!EnableTwoFactor PROVE Good
<1>1. /\ request # NONE /\ request.method = "POST" /\ request.op = "enroll"
      /\ session # NONE /\ RowsOK /\ 0 \in 0..MaxBegun
      /\ request.changes = {} => factor = [key |-> request.key, state |-> "prepared"]
    BY SettingSubmitted DEF Tab!EnableTwoFactor, Ready
<1>2. ASSUME Tab!EnrollRefused, Tab!ShowSetting
      PROVE  Good
  <2>1. Keeps => Good
      BY <1>1, <1>2, ShowSettingShows
  <2>2. Keeps
      BY <1>1, <1>2 DEF Keeps, Tab!EnrollRefused, Tab!Told
  <2> QED
      BY <2>1, <2>2
<1>3. ASSUME request.filling = "unlucky", Tab!Fail, Tab!World
      PROVE  Good
    BY <1>1, <1>3, FailKeeps, RestKeepsRows
<1>4. ASSUME factor' = [factor EXCEPT !.state = "enabled"], Tab!RecoveryCodes,
             UNCHANGED <<accounts, session, Tab!signUps, pending, resets>>
      PROVE  Good
  <2>1. RowsOK'
      BY <1>1, <1>4, FactorSet DEF RowsOK, Tab!signUps
  <2>5. Tab!Show("recovery_codes", 0, {}) /\ "recovery_codes" \in Tab!Views
      BY <1>4 DEF Tab!RecoveryCodes, Tab!Views
  <2>2. request' = NONE /\ page'.view = "recovery_codes" /\ page'.changes = {}
        /\ (PageStands' /\ Keeps => Good)
      BY <1>1, <2>1, <2>5, Shows
  <2>3. PageStands'
      BY <1>1, <1>4, <2>2 DEF PageStands, Stands, Ready
  <2>4. Keeps
      BY <1>1, <2>2 DEF Keeps, Tab!LedTo, Tab!Promised
  <2> QED
      BY <2>2, <2>3, <2>4
<1> QED
    BY <1>2, <1>3, <1>4 DEF Tab!EnableTwoFactor

LEMMA DisableTwoFactorKeeps == ASSUME PromisesStand, Tab!DisableTwoFactor PROVE Good
<1>1. /\ request # NONE /\ request.method = "POST" /\ request.op = "disable"
      /\ session # NONE /\ RowsOK
      /\ request.changes = {} => factor.state = "enabled"
    BY SettingSubmitted DEF Tab!DisableTwoFactor, Ready
<1>2. PICK key \in 0..MaxBegun : key = request.key
    BY <1>1, Asking
<1>3. ASSUME Tab!DisableRefused, Tab!Again(request.key), Tab!World
      PROVE  Good
  <2>1. request.changes = {} => request.filling # "right"
      BY <1>1, <1>3 DEF Tab!DisableRefused, Tab!Told
  <2>2. request.changes = {} => Ready("disable", key)'
      BY <1>1, <1>3 DEF Ready, Tab!World, Tab!settings
  <2>3. RowsOK' /\ Tab!AgainAfter(key, {}) /\ UNCHANGED session
      BY <1>1, <1>2, <1>3, RestKeepsRows DEF Tab!Again, Tab!World
  <2> QED
      BY <1>1, <2>1, <2>2, <2>3, AgainKeeps
<1>4. ASSUME request.filling = "unlucky", Tab!Fail, Tab!World
      PROVE  Good
    BY <1>1, <1>4, FailKeeps, RestKeepsRows
<1>5. ASSUME factor' = [factor EXCEPT !.state = "none"],
             UNCHANGED <<accounts, session, Tab!signUps, pending, resets>>, Tab!Redirect("settings")
      PROVE  Good
  <2>1. RowsOK'
      BY <1>1, <1>5, FactorSet DEF RowsOK, Tab!signUps
  <2>2. "settings" \in Tab!Promised(request) /\ session' # NONE
      BY <1>1, <1>5 DEF Tab!Promised
  <2> QED
      BY <1>1, <1>5, <2>1, <2>2, RedirectKeeps
<1> QED
    BY <1>3, <1>4, <1>5 DEF Tab!DisableTwoFactor

-----------------------------------------------------------------------------
(* The browser *)

\* A request that is sent from a page.
LEMMA SendSends ==
    ASSUME PromisesStand, NEW r, Tab!Send(r)
    PROVE  /\ request = NONE /\ RowsOK' /\ jar' = jar /\ session' = session
           /\ Len(confirmations') = Len(confirmations)
           /\ request' = r /\ page' = Tab!Blank /\ Keeps
           /\ jar' \in 0..MaxBegun /\ jar' <= Len(confirmations')
           /\ \A op, key : Ready(op, key) => (Ready(op, key))'
           /\ (request' \in Tab!Sent /\ RequestOK') => Tab!TypeOK'
<1>1. /\ request = NONE /\ request' = r /\ page' = Tab!Blank
      /\ UNCHANGED <<accounts, session, confirmations, jar, made, pending, factor, resets,
                     disturbances>>
    BY DEF Tab!Send, Tab!signUps, Tab!settings
<1>2. RowsOK /\ RowsOK'
    BY <1>1, TypeParts DEF PromisesStand, RowsOK
<1>3. Keeps
    BY <1>1 DEF Keeps, Tab!Answering
<1>4. \A op, key : Ready(op, key) => (Ready(op, key))'
    BY <1>1 DEF Ready, Tab!Taken, Tab!Confirmable, Tab!Confirmed, Tab!Pending, Tab!Usable
<1>5. ASSUME request' \in Tab!Sent, RequestOK'
      PROVE  Tab!TypeOK'
  <2>1. page' \in TabPage /\ disturbances' \in 0..MaxDisturbances
      BY <1>1, BlankPage, TypeParts DEF PromisesStand
  <2> QED
      BY <1>2, <1>5, <2>1 DEF Tab!TypeOK, RowsOK, RequestOK, Change, Factor, Link, TabPage
<1>6. jar' \in 0..MaxBegun /\ jar' <= Len(confirmations')
    BY <1>1, <1>2, RowsFit
<1> QED
    BY <1>1, <1>2, <1>3, <1>4, <1>5, <1>6

LEMMA OpenKeeps == ASSUME PromisesStand, Tab!Open PROVE Good
<1>1. resets.latest \in 0..MaxBegun /\ MaxBegun \in Nat
    BY TypeParts, RowsFit, NoneIsNoRequest DEF PromisesStand
<1>2. PICK path \in Tab!Paths, key \in 0..MaxBegun : Tab!Send(Tab!Get(path, key, FALSE, {}))
  <2>1. PICK path \in Tab!Paths :
            \E key \in IF path = "password" THEN 0..resets.latest ELSE {0} :
                Tab!Send(Tab!Get(path, key, FALSE, {}))
      BY Zenon DEF Tab!Open
  <2>2. PICK key \in IF path = "password" THEN 0..resets.latest ELSE {0} :
            Tab!Send(Tab!Get(path, key, FALSE, {}))
      BY <2>1, Zenon
  <2>3. key \in 0..MaxBegun
      BY <1>1
  <2> QED
      BY <2>2, <2>3, Zenon
<1>3. request' = [method |-> "GET", op |-> path, text |-> "", filling |-> "right", key |-> key,
                  jar |-> jar', offered |-> FALSE, changes |-> {} \intersect Tab!Relevant(path)]
  <2>1. request' = Tab!Get(path, key, FALSE, {})
      BY <1>2, SendSends
  <2> QED
      BY <2>1, GetIs, Zenon
<1>4. jar' \in 0..MaxBegun /\ jar' <= Len(confirmations') /\ page' = Tab!Blank /\ Keeps
      /\ ((request' \in Tab!Sent /\ RequestOK') => Tab!TypeOK')
    BY <1>2, SendSends
<1>5. /\ request' \in Tab!Sent /\ RequestOK' /\ request'.method = "GET" /\ request'.op = path
      /\ request'.jar = jar' /\ request'.offered = FALSE /\ request'.changes = {}
    BY <1>3, <1>4, GetSent
<1>6. RequestStands'
    BY <1>4, <1>5, BlankPage DEF RequestStands
<1>7. PageStands'
    BY <1>4, BlankPage DEF PageStands, Stands, Ready, Members, Tab!Settings
<1> QED
    BY <1>4, <1>5, <1>6, <1>7 DEF Good, PromisesStand

LEMMA FollowLinkKeeps == ASSUME PromisesStand, Tab!FollowLink PROVE Good
<1>1. PICK path \in Tab!Links(page.view) : Tab!Send(Tab!Get(path, 0, TRUE, page.changes))
    BY DEF Tab!FollowLink
<1>2. /\ path \in {"sign_up", "sign_in", "reset", "email", "two_factor", "settings", "home"}
      /\ path \in Members => page.view \in Members
    BY <1>1 DEF Tab!Links, Tab!HeaderLinks, Tab!WelcomeLinks, Tab!SignInLinks, Tab!SentLinks,
                Tab!SettingsLinks,
       Tab!RecoveryCodesLinks, Members, Tab!Settings
<1>3. path \in Tab!Paths /\ 0 \in 0..MaxBegun
    BY <1>2, NoneIsNoRequest DEF Tab!Paths, Tab!Settings
<1>4. request' = [method |-> "GET", op |-> path, text |-> "", filling |-> "right", key |-> 0,
                  jar |-> jar', offered |-> TRUE,
                  changes |-> page.changes \intersect Tab!Relevant(path)]
  <2>1. request' = Tab!Get(path, 0, TRUE, page.changes)
      BY <1>1, SendSends
  <2> QED
      BY <2>1, GetIs, Zenon
<1>5. /\ jar' \in 0..MaxBegun /\ jar' <= Len(confirmations') /\ page' = Tab!Blank /\ Keeps
      /\ session' = session /\ ((request' \in Tab!Sent /\ RequestOK') => Tab!TypeOK')
    BY <1>1, SendSends
<1>6. /\ request' \in Tab!Sent /\ RequestOK' /\ request'.method = "GET" /\ request'.op = path
      /\ request'.jar = jar' /\ request'.changes = page.changes \intersect Tab!Relevant(path)
    BY <1>3, <1>4, <1>5, GetSent
<1>7. (path \in Members /\ "session" \notin request'.changes) => session' # NONE
  <2>1. path \in Members => "session" \in Tab!Relevant(path)
      BY <1>2 DEF Members, Tab!Settings, Tab!Relevant
  <2>2. (page.view \in Members /\ "session" \notin page.changes) => session # NONE
      BY DEF PromisesStand, PageStands, Stands
  <2> QED
      BY <1>2, <1>5, <1>6, <2>1, <2>2
<1>8. RequestStands'
    BY <1>2, <1>5, <1>6, <1>7, BlankPage DEF RequestStands, Stands, Ready
<1>9. PageStands'
    BY <1>5, BlankPage DEF PageStands, Stands, Ready, Members, Tab!Settings
<1> QED
    BY <1>5, <1>6, <1>8, <1>9 DEF Good, PromisesStand

LEMMA SubmitKeeps == ASSUME PromisesStand, Tab!Submit PROVE Good
<1>1. page.view \in Tab!Forms /\ page \in TabPage /\ PageStands
    BY TypeParts DEF PromisesStand, Tab!Submit
<1>2. PICK text \in Tab!Typed(page.view), filling \in Tab!Fillings :
          Tab!Send([method |-> "POST", op |-> page.view, text |-> text, filling |-> filling,
                key |-> page.key, jar |-> jar, offered |-> TRUE, changes |-> page.changes])
    BY DEF Tab!Submit
<1>3. /\ request' = [method |-> "POST", op |-> page.view, text |-> text, filling |-> filling,
                     key |-> page.key, jar |-> jar, offered |-> TRUE, changes |-> page.changes]
      /\ jar' = jar /\ jar' \in 0..MaxBegun /\ jar' <= Len(confirmations') /\ page' = Tab!Blank
      /\ Keeps /\ session' = session
      /\ ((request' \in Tab!Sent /\ RequestOK') => Tab!TypeOK')
      /\ \A op, key : Ready(op, key) => (Ready(op, key))'
    BY <1>2, SendSends
<1>4. text \in Addresses \union {"", "typed"} /\ (page.view \in Tab!Typing => text \in Addresses)
    BY DEF Tab!Typed
<1>5. request' \in Tab!Sent
    BY <1>1, <1>3, <1>4 DEF Tab!Sent, TabPage
<1>6. /\ request' # NONE /\ request'.method = "POST" /\ request'.op = page.view
      /\ request'.text = text /\ request'.key = page.key /\ request'.jar = jar'
      /\ request'.changes = page.changes
    BY <1>3, <1>5, NoneIsNoRequest
<1>7. request'.offered
    BY <1>3
<1>8. RequestOK'
    BY <1>1, <1>3, <1>4, <1>6 DEF RequestOK
<1>9. Aim' = page.key
    BY <1>6 DEF Aim
<1>10. Stands(request.op, Aim, request.changes)'
  <2>1. PICK view, key : view = page.view /\ key = page.key
      OBVIOUS
  <2>2. page.changes = {} => Ready(view, key)
      BY <1>1, <2>1 DEF PageStands, Stands
  <2>3. page.changes = {} => (Ready(view, key))'
      BY <1>3, <2>2
  <2>4. page.changes = {} => Ready(request.op, Aim)'
      BY <1>6, <1>9, <2>1, <2>3
         DEF Ready, Tab!Taken, Tab!Confirmable, Tab!Confirmed, Tab!Pending, Tab!Usable
  <2>5. /\ page.changes \subseteq Tab!Relevant(view)
        /\ (view \in Members /\ "session" \notin page.changes) => session # NONE
      BY <1>1, <2>1 DEF PageStands, Stands
  <2> QED
      BY <1>3, <1>6, <2>1, <2>4, <2>5 DEF Stands
<1>11. RequestStands'
    BY <1>1, <1>3, <1>6, <1>7, <1>10, BlankPage DEF RequestStands, Stands
<1>12. PageStands'
    BY <1>3, BlankPage DEF PageStands, Stands, Ready, Members, Tab!Settings
<1> QED
    BY <1>3, <1>5, <1>8, <1>11, <1>12 DEF Good, PromisesStand

-----------------------------------------------------------------------------
(* Disturbances *)

\* What is noted keeps up with what changes.
LEMMA StandsStill ==
    ASSUME NEW op, NEW key, NEW key2, NEW noted, NEW noted2, NEW kinds,
           Stands(op, key, noted), noted2 = noted \union (kinds \intersect Tab!Relevant(op)),
           (session # NONE /\ "session" \notin kinds) => session' # NONE,
           (/\ op \in Members => session # NONE
            /\ kinds \intersect Tab!Relevant(op) = {} /\ Ready(op, key)) => (Ready(op, key2))'
    PROVE  (Stands(op, key2, noted2))'
<1>1. op \in Members => "session" \in Tab!Relevant(op)
    BY DEF Members, Tab!Settings, Tab!Relevant
<1>2. noted2 \subseteq Tab!Relevant(op)
    BY DEF Stands
<1>3. (op \in Members /\ "session" \notin noted2) => session' # NONE
    BY <1>1 DEF Stands
<1>4. noted2 = {} => (Ready(op, key2))'
    BY <1>1 DEF Stands
<1> QED
    BY <1>2, <1>3, <1>4 DEF Stands

LEMMA DisturbKeeps ==
    ASSUME PromisesStand, RowsOK', Len(confirmations) <= Len(confirmations'),
           NEW kinds \in SUBSET Tab!Kinds, Tab!Disturb(kinds),
           (session # NONE /\ "session" \notin kinds) => session' # NONE,
           "code" \notin kinds => jar' = jar,
           {"change", "session"} \intersect kinds = {} => pending'.key = pending.key,
           \A op, key : (/\ op \in Members => session # NONE
                         /\ kinds \intersect Tab!Relevant(op) = {} /\ Ready(op, key))
                            => (Ready(op, key))'
    PROVE  Good
<1>1. /\ RowsOK /\ RequestOK /\ page \in TabPage /\ request \in Tab!Sent \union {NONE}
      /\ disturbances \in 0..MaxDisturbances /\ MaxDisturbances \in Nat
    BY TypeParts, AccountPagesAssumption DEF PromisesStand
<1>2. disturbances' = disturbances + 1 /\ disturbances' \in 0..MaxDisturbances /\ Keeps
    BY <1>1 DEF Tab!Disturb, Keeps, Tab!Answering
<1>3. PICK view, key, noted : view = page.view /\ key = page.key /\ noted = page.changes
    OBVIOUS
<1>4. PICK noted2 : noted2 = noted \union (kinds \intersect Tab!Relevant(view))
    OBVIOUS
<1>5. page' = [page EXCEPT !.changes = noted2]
    BY <1>3, <1>4 DEF Tab!Disturb
<1>6. /\ page' \in TabPage /\ page'.view = view /\ page'.key = key /\ page'.changes = noted2
  <2>1. noted2 \in SUBSET Tab!Kinds
      BY <1>1, <1>3, <1>4, KindsOf DEF TabPage
  <2> QED
      BY <1>1, <1>3, <1>5, <2>1 DEF TabPage
<1>7. PageStands'
  <2>1. Stands(view, key, noted)
      BY <1>3 DEF PromisesStand, PageStands
  <2>2. (Stands(view, key, noted2))'
      BY <1>4, <2>1, StandsStill
  <2> QED
      BY <1>6, <2>2 DEF PageStands, Stands, Ready, Tab!Taken, Tab!Confirmable, Tab!Confirmed,
                        Tab!Pending, Tab!Usable
<1>8. CASE request = NONE
  <2>1. request' = NONE
      BY <1>8 DEF Tab!Disturb
  <2>2. Tab!TypeOK' /\ RequestStands'
      BY <1>1, <1>2, <1>6, <2>1
         DEF Tab!TypeOK, RowsOK, RequestOK, RequestStands, Change, Factor, Link, TabPage
  <2> QED
      BY <1>2, <1>7, <2>2 DEF Good, PromisesStand
<1>9. CASE request # NONE
  <2>1. PICK op, aim, felt : op = request.op /\ aim = Aim /\ felt = request.changes
      OBVIOUS
  <2>2. PICK felt2 : felt2 = felt \union (kinds \intersect Tab!Relevant(op))
      OBVIOUS
  <2>3. request' = [request EXCEPT !.changes = felt2]
      BY <1>9, <2>1, <2>2 DEF Tab!Disturb
  <2>4. felt2 \in SUBSET Tab!Kinds
      BY <1>1, <1>9, <2>1, <2>2, KindsOf DEF Tab!Sent
  <2>5. request' \in Tab!Sent
      BY <1>1, <1>9, <2>3, <2>4 DEF Tab!Sent
  <2>6. /\ request'.method = request.method /\ request'.op = op /\ request'.text = request.text
        /\ request'.key = request.key /\ request'.jar = request.jar
        /\ request'.changes = felt2
      BY <1>1, <1>9, <2>1, <2>3 DEF Tab!Sent
  <2>7. request'.offered = request.offered
      BY <1>1, <1>9, <2>3 DEF Tab!Sent
  <2>8. RequestOK'
    <3>1. request.jar <= Len(confirmations')
      <4>1. request.jar <= Len(confirmations) /\ request.jar \in 0..MaxBegun
          BY <1>1, <1>9 DEF RequestOK, Tab!Sent
      <4>2. Len(confirmations) \in Nat /\ Len(confirmations') \in Nat
          BY <1>1, CookieFits, RowsFit DEF RowsOK
      <4> QED
          BY <4>1, <4>2, NoneIsNoRequest
    <3> QED
        BY <1>1, <1>9, <2>1, <2>6, <3>1 DEF RequestOK
  <2>9. Tab!TypeOK'
      BY <1>1, <1>2, <1>6, <2>5, <2>8
         DEF Tab!TypeOK, RowsOK, RequestOK, Change, Factor, Link, TabPage
  <2>10. RequestStands
      BY DEF PromisesStand
  <2>11. felt2 = {} => felt = {} /\ kinds \intersect Tab!Relevant(op) = {}
      BY <2>2
  <2>12. page'.view = "nothing" /\ page'.changes = {}
    <3>1. view = "nothing" /\ noted = {}
        BY <1>3, <1>9, <2>10 DEF RequestStands
    <3> QED
        BY <1>4, <1>6, <3>1 DEF Tab!Relevant
  <2>13. (op \in {"code", "account"} /\ felt2 = {}) => request'.jar = jar'
    <3>1. op \in {"code", "account"} => "code" \in Tab!Relevant(op)
        BY DEF Tab!Relevant
    <3> QED
        BY <1>9, <2>1, <2>6, <2>10, <2>11, <3>1 DEF RequestStands
  <2>14. request'.offered => (Stands(request.op, Aim, request.changes))'
    <3>1. SUFFICES ASSUME request.offered PROVE (Stands(request.op, Aim, request.changes))'
        BY <2>7
    <3>2. Stands(op, aim, felt)
        BY <1>9, <2>1, <2>10, <3>1 DEF RequestStands
    <3>3. PICK aim2 : aim2 = Aim'
        OBVIOUS
    <3>4. kinds \intersect Tab!Relevant(op) = {} => aim2 = aim
      <4>1. op = "email_code" => {"change", "session"} \subseteq Tab!Relevant(op)
          BY DEF Tab!Relevant
      <4> QED
          BY <2>1, <2>6, <3>3, <4>1 DEF Aim
    <3>5. (Stands(op, aim2, felt2))'
        BY <2>2, <3>2, <3>4, StandsStill
    <3> QED
        BY <2>6, <3>3, <3>5
           DEF Stands, Ready, Tab!Taken, Tab!Confirmable, Tab!Confirmed, Tab!Pending, Tab!Usable
  <2>15. RequestStands'
    <3>1. felt2 \subseteq Tab!Relevant(op)
        BY <1>9, <2>1, <2>2, <2>10 DEF RequestStands
    <3>2. request'.method = "POST" => request'.offered
        BY <1>9, <2>6, <2>7, <2>10 DEF RequestStands
    <3>3. (request'.offered /\ request'.method = "GET") => request'.op # "password"
        BY <1>9, <2>1, <2>6, <2>7, <2>10 DEF RequestStands
    <3> QED
        BY <2>6, <2>12, <2>13, <2>14, <3>1, <3>2, <3>3 DEF RequestStands
  <2> QED
      BY <1>2, <1>7, <2>9, <2>15 DEF Good, PromisesStand
<1> QED
    BY <1>8, <1>9

LEMMA LoseSessionKeeps == ASSUME PromisesStand, Tab!LoseSession PROVE Good
<1>1. RowsOK /\ session # NONE /\ session' = NONE /\ pending' = Tab!NoChange
      /\ factor' = Tab!NoFactor
      /\ accounts' \in {accounts, accounts \ {session}}
      /\ UNCHANGED <<confirmations, jar, made, resets>>
    BY TypeParts DEF Tab!LoseSession, Tab!signUps, PromisesStand
<1>2. PICK kinds \in SUBSET Tab!Kinds :
          kinds = {"session"} \union IF accounts' = accounts THEN {} ELSE {"address"}
    BY DEF Tab!Kinds
<1>3. Tab!Disturb(kinds)
    BY <1>2 DEF Tab!LoseSession
<1>4. RowsOK'
  <2>1. pending' \in Change /\ factor' \in Factor /\ ~pending'.open
      BY <1>1, NoneIsNoRequest DEF Tab!NoChange, Tab!NoFactor, Change, Factor
  <2> QED
      BY <1>1, <2>1 DEF RowsOK
<1>5. ASSUME NEW op, NEW key, kinds \intersect Tab!Relevant(op) = {}, Ready(op, key)
      PROVE  (Ready(op, key))'
  <2>1. op \notin {"email_code", "enroll", "disable"}
      BY <1>2, <1>5 DEF Tab!Relevant
  <2>2. op \in {"code", "account"} => accounts' = accounts
      BY <1>2, <1>5 DEF Tab!Relevant
  <2> QED
      BY <1>1, <1>5, <2>1, <2>2 DEF Ready, Tab!Taken, Tab!Confirmable, Tab!Confirmed, Tab!Usable
<1>6. Len(confirmations) <= Len(confirmations')
    BY <1>1, RowsFit
<1> QED
    BY <1>1, <1>2, <1>3, <1>4, <1>5, <1>6, DisturbKeeps

LEMMA GainSessionKeeps == ASSUME PromisesStand, Tab!GainSession PROVE Good
<1>1. RowsOK /\ session = NONE /\ session' \in accounts /\ Tab!Disturb({})
      /\ UNCHANGED <<accounts, confirmations, jar, made, pending, resets>>
    BY TypeParts DEF Tab!GainSession, Tab!signUps, PromisesStand
<1>2. PICK state \in {"none", "enabled"} : factor' = [key |-> 0, state |-> state]
    BY DEF Tab!GainSession
<1>3. RowsOK'
  <2>1. factor' \in Factor
      BY <1>2, NoneIsNoRequest DEF Factor
  <2> QED
      BY <1>1, <2>1 DEF RowsOK
<1>4. ASSUME NEW op, NEW key, op \in Members => session # NONE, Ready(op, key)
      PROVE  (Ready(op, key))'
  <2>1. op \notin {"email_code", "enroll", "disable"}
      BY <1>1, <1>4 DEF Members, Tab!Settings
  <2> QED
      BY <1>1, <1>4, <2>1 DEF Ready, Tab!Taken, Tab!Confirmable, Tab!Confirmed, Tab!Usable
<1>5. Len(confirmations) <= Len(confirmations') /\ {} \in SUBSET Tab!Kinds
    BY <1>1, RowsFit
<1> QED
    BY <1>1, <1>3, <1>4, <1>5, DisturbKeeps

LEMMA TakeAddressKeeps == ASSUME PromisesStand, Tab!TakeAddress PROVE Good
<1>1. RowsOK /\ Tab!Disturb({"address"})
      /\ UNCHANGED <<session, confirmations, jar, made, pending, factor, resets>>
    BY TypeParts DEF Tab!TakeAddress, Tab!signUps, Tab!settings, PromisesStand
<1>2. PICK a \in Addresses \ {session} :
          accounts' = IF a \in accounts THEN accounts \ {a} ELSE accounts \union {a}
    BY DEF Tab!TakeAddress
<1>3. RowsOK'
    BY <1>1, <1>2 DEF RowsOK
<1>4. ASSUME NEW op, NEW key, {"address"} \intersect Tab!Relevant(op) = {}, Ready(op, key)
      PROVE  (Ready(op, key))'
  <2>1. op \notin {"code", "account", "email_code"}
      BY <1>4 DEF Tab!Relevant
  <2> QED
      BY <1>1, <1>4, <2>1 DEF Ready, Tab!Usable
<1>5. Len(confirmations) <= Len(confirmations') /\ {"address"} \in SUBSET Tab!Kinds
    BY <1>1, RowsFit DEF Tab!Kinds
<1> QED
    BY <1>1, <1>3, <1>4, <1>5, DisturbKeeps

LEMMA CodesElsewhereKeep ==
    ASSUME PromisesStand, RowsOK', Tab!Disturb({"code"}), Len(confirmations) <= Len(confirmations'),
           UNCHANGED <<accounts, session, made, Tab!settings, resets>>
    PROVE  Good
<1>1. ASSUME NEW op, NEW key, {"code"} \intersect Tab!Relevant(op) = {}, Ready(op, key)
      PROVE  (Ready(op, key))'
  <2>1. op \notin {"code", "account"}
      BY <1>1 DEF Tab!Relevant
  <2> QED
      BY <1>1, <2>1 DEF Ready, Tab!Pending, Tab!Usable, Tab!settings
<1>2. {"code"} \in SUBSET Tab!Kinds /\ session' = session /\ pending' = pending
    BY DEF Tab!Kinds, Tab!settings
<1> QED
    BY <1>1, <1>2, DisturbKeeps

LEMMA BeginElsewhereKeeps == ASSUME PromisesStand, Tab!BeginElsewhere PROVE Good
<1>1. RowsOK /\ Tab!CanBegin /\ jar' = Len(confirmations') /\ Tab!Disturb({"code"})
      /\ UNCHANGED <<accounts, session, made, Tab!settings, resets>>
    BY TypeParts DEF Tab!BeginElsewhere, PromisesStand
<1>2. PICK a \in Addresses : confirmations' = Tab!Begun(a)
    BY DEF Tab!BeginElsewhere
<1>3. /\ confirmations' \in Seq(Tab!SignUpRow) /\ Len(confirmations') = Len(confirmations) + 1
      /\ Len(confirmations') \in 1..MaxBegun
    BY <1>1, <1>2, RowAdded
<1>4. Len(confirmations) \in Nat /\ Len(confirmations') \in Nat
    BY <1>1, <1>3, RowsFit, NoneIsNoRequest
<1>5. made' \subseteq 1..Len(confirmations') /\ jar' \in 0..Len(confirmations')
    BY <1>1, <1>3, <1>4 DEF RowsOK
<1>6. RowsOK'
    BY <1>1, <1>3, <1>4, <1>5, NoneIsNoRequest DEF RowsOK, Tab!settings
<1> QED
    BY <1>1, <1>3, <1>4, <1>6, CodesElsewhereKeep

LEMMA EndCodeKeeps == ASSUME PromisesStand, Tab!EndCode PROVE Good
<1>1. RowsOK /\ Tab!Disturb({"code"})
      /\ UNCHANGED <<accounts, session, jar, made, Tab!settings, resets>>
    BY TypeParts DEF Tab!EndCode, PromisesStand
<1>2. PICK i \in DOMAIN confirmations, state \in {"over", "confirmed"} :
          confirmations' = [confirmations EXCEPT ![i].state = state]
    BY DEF Tab!EndCode
<1>3. i \in 1..Len(confirmations)
    BY <1>1, LenProperties DEF RowsOK
<1>4. confirmations' \in Seq(Tab!SignUpRow) /\ Len(confirmations') = Len(confirmations)
    BY <1>1, <1>2, <1>3, RowTurned
<1>5. RowsOK'
    BY <1>1, <1>4 DEF RowsOK, Tab!settings
<1>6. Len(confirmations) <= Len(confirmations')
    BY <1>1, <1>4, RowsFit
<1> QED
    BY <1>1, <1>5, <1>6, CodesElsewhereKeep

LEMMA FinishElsewhereKeeps == ASSUME PromisesStand, Tab!FinishElsewhere PROVE Good
<1>1. RowsOK /\ jar \in 1..Len(confirmations)
      /\ Tab!Disturb({"code", "address", "session"})
    BY TypeParts DEF Tab!FinishElsewhere, PromisesStand, RowsOK
<1>2. RowsOK'
    BY <1>1, AccountMade DEF Tab!FinishElsewhere, Tab!Taken
<1>3. ASSUME NEW op, NEW key, {"code", "address", "session"} \intersect Tab!Relevant(op) = {},
             Ready(op, key)
      PROVE  (Ready(op, key))'
  <2>1. op \notin {"code", "account", "email_code", "enroll", "disable"}
      BY <1>3 DEF Tab!Relevant
  <2> QED
      BY <1>3, <2>1 DEF Ready, Tab!Usable, Tab!FinishElsewhere
<1>4. Len(confirmations) <= Len(confirmations')
      /\ {"code", "address", "session"} \in SUBSET Tab!Kinds
    BY <1>1, RowsFit DEF Tab!Kinds, Tab!FinishElsewhere
<1> QED
    BY <1>1, <1>2, <1>3, <1>4, DisturbKeeps

LEMMA ChangeElsewhereKeeps == ASSUME PromisesStand, Tab!ChangeElsewhere PROVE Good
<1>1. RowsOK /\ session # NONE /\ Tab!Disturb({"change"})
      /\ UNCHANGED <<accounts, session, confirmations, jar, made, factor, resets>>
    BY TypeParts DEF Tab!ChangeElsewhere, Tab!signUps, PromisesStand
<1>2. pending' \in Change /\ (pending'.open => pending'.address # NONE)
  <2>1. CASE pending' = [pending EXCEPT !.open = FALSE]
      BY <1>1, <2>1, ChangeOver
  <2>2. CASE /\ Tab!CanBegin
             /\ \E a \in Addresses \ accounts :
                    pending' = [key |-> pending.key + 1, address |-> a, open |-> TRUE]
      BY <1>1, <2>2, ChangeMade
  <2> QED
      BY <2>1, <2>2 DEF Tab!ChangeElsewhere
<1>3. RowsOK'
    BY <1>1, <1>2 DEF RowsOK
<1>4. ASSUME NEW op, NEW key, {"change"} \intersect Tab!Relevant(op) = {}, Ready(op, key)
      PROVE  (Ready(op, key))'
  <2>1. op # "email_code"
      BY <1>4 DEF Tab!Relevant
  <2> QED
      BY <1>1, <1>4, <2>1 DEF Ready, Tab!Taken, Tab!Confirmable, Tab!Confirmed, Tab!Usable
<1>5. Len(confirmations) <= Len(confirmations') /\ {"change"} \in SUBSET Tab!Kinds
    BY <1>1, RowsFit DEF Tab!Kinds
<1> QED
    BY <1>1, <1>3, <1>4, <1>5, DisturbKeeps

LEMMA SwitchElsewhereKeeps == ASSUME PromisesStand, Tab!SwitchElsewhere PROVE Good
<1>1. RowsOK /\ Tab!Disturb({"factor"})
      /\ UNCHANGED <<accounts, session, confirmations, jar, made, pending, resets>>
    BY TypeParts DEF Tab!SwitchElsewhere, Tab!signUps, PromisesStand
<1>2. PICK state \in {"none", "enabled"} : factor' = [factor EXCEPT !.state = state]
    BY DEF Tab!SwitchElsewhere
<1>3. RowsOK'
    BY <1>1, <1>2, FactorSet DEF RowsOK
<1>4. ASSUME NEW op, NEW key, {"factor"} \intersect Tab!Relevant(op) = {}, Ready(op, key)
      PROVE  (Ready(op, key))'
  <2>1. op \notin {"enroll", "disable"}
      BY <1>4 DEF Tab!Relevant
  <2> QED
      BY <1>1, <1>4, <2>1 DEF Ready, Tab!Taken, Tab!Confirmable, Tab!Confirmed, Tab!Pending,
                              Tab!Usable
<1>5. Len(confirmations) <= Len(confirmations') /\ {"factor"} \in SUBSET Tab!Kinds
    BY <1>1, RowsFit DEF Tab!Kinds
<1> QED
    BY <1>1, <1>3, <1>4, <1>5, DisturbKeeps

LEMMA TurnLinkKeeps == ASSUME PromisesStand, Tab!TurnLink PROVE Good
<1>1. RowsOK /\ Tab!Disturb({"link"})
      /\ UNCHANGED <<accounts, session, confirmations, jar, made, pending, factor>>
    BY TypeParts DEF Tab!TurnLink, Tab!signUps, Tab!settings, PromisesStand
<1>2. resets' \in Link
    BY <1>1, LinkDead, LinkMade DEF Tab!TurnLink
<1>3. RowsOK'
    BY <1>1, <1>2 DEF RowsOK
<1>4. ASSUME NEW op, NEW key, {"link"} \intersect Tab!Relevant(op) = {}, Ready(op, key)
      PROVE  (Ready(op, key))'
  <2>1. op # "password"
      BY <1>4 DEF Tab!Relevant
  <2> QED
      BY <1>1, <1>4, <2>1 DEF Ready, Tab!Taken, Tab!Confirmable, Tab!Confirmed, Tab!Pending
<1>5. Len(confirmations) <= Len(confirmations') /\ {"link"} \in SUBSET Tab!Kinds
    BY <1>1, RowsFit DEF Tab!Kinds
<1> QED
    BY <1>1, <1>3, <1>4, <1>5, DisturbKeeps

-----------------------------------------------------------------------------
(* The theorems *)

LEMMA PromisesInit == Tab!Init => PromisesStand /\ Tab!HandOversEnd
<1> SUFFICES ASSUME Tab!Init PROVE PromisesStand /\ Tab!HandOversEnd
    OBVIOUS
<1>1. /\ accounts \in {{}} \union {{a} : a \in Addresses} /\ session = NONE
      /\ confirmations = <<>> /\ jar = 0 /\ made = {}
      /\ pending = Tab!NoChange /\ factor = Tab!NoFactor /\ resets = [latest |-> 0, live |-> FALSE]
      /\ page = Tab!Blank /\ request = NONE /\ disturbances = 0
    BY DEF Tab!Init
<1>2. Tab!NoChange \in Change /\ Tab!NoFactor \in Factor /\ ~Tab!NoChange.open
    BY NoneIsNoRequest DEF Tab!NoChange, Tab!NoFactor, Change, Factor
<1>3. resets \in Link
    BY <1>1, NoneIsNoRequest DEF Link
<1>4. confirmations \in Seq(Tab!SignUpRow) /\ Len(confirmations) = 0
    BY <1>1
<1>5. RowsOK
    BY <1>1, <1>2, <1>3, <1>4, NoneIsNoRequest DEF RowsOK
<1>6. Tab!TypeOK
    BY <1>1, <1>5, BlankPage, TypeParts, AccountPagesAssumption DEF RequestOK
<1>7. PageStands /\ RequestStands
    BY <1>1, BlankPage, NothingStands DEF RequestStands
<1> QED
    BY <1>1, <1>6, <1>7 DEF PromisesStand, Tab!HandOversEnd

LEMMA NextKeeps == ASSUME PromisesStand, Tab!Next PROVE Good
<1>1. CASE Tab!Browser
    BY <1>1, OpenKeeps, FollowLinkKeeps, SubmitKeeps DEF Tab!Browser
<1>2. CASE Tab!Disturbance
    BY <1>2, LoseSessionKeeps, GainSessionKeeps, TakeAddressKeeps, BeginElsewhereKeeps,
       EndCodeKeeps, FinishElsewhereKeeps, ChangeElsewhereKeeps, SwitchElsewhereKeeps,
       TurnLinkKeeps
       DEF Tab!Disturbance
<1>3. CASE Tab!Pages
    BY <1>3, SignedOutKeeps, ShowPagesKeep, ShowRootKeeps, ShowHandOverKeeps, ShowTwoFactorKeeps
       DEF Tab!Pages
<1>4. CASE Tab!Submissions
    BY <1>4, CreateSignUpKeeps, VerifyCodeKeeps, CreateAccountKeeps, CreateResetKeeps,
       UpdatePasswordKeeps, UpdateEmailKeeps, VerifyEmailChangeKeeps, EnableTwoFactorKeeps,
       DisableTwoFactorKeeps
       DEF Tab!Submissions
<1> QED
    BY <1>1, <1>2, <1>3, <1>4 DEF Tab!Next

LEMMA StutterKeeps == ASSUME PromisesStand, UNCHANGED Tab!site PROVE PromisesStand'
<1>1. UNCHANGED <<accounts, session, confirmations, jar, made, pending, factor, resets, page,
                  request, disturbances>>
    BY DEF Tab!site
<1>2. Tab!TypeOK'
    BY <1>1 DEF PromisesStand, Tab!TypeOK
<1>3. PageStands' /\ RequestStands'
    BY <1>1 DEF PromisesStand, PageStands, RequestStands, Stands, Ready, Aim, Tab!Taken,
                Tab!Confirmable,
       Tab!Confirmed, Tab!Pending, Tab!Usable
<1> QED
    BY <1>2, <1>3 DEF PromisesStand

\* What becomes of the cookie and of the accounts that are made.
LEMMA HandOverEnds ==
    ASSUME PromisesStand, RowsOK, RowsOK', Tab!HandOversEnd, Tab!Next
    PROVE  Tab!HandOversEnd'
<1>1. \/ jar' = jar /\ made' = made
      \/ jar' = 0
      \/ made' = made /\ Tab!CanBegin /\ jar' = Len(confirmations')
           /\ \E a \in Addresses : confirmations' = Tab!Begun(a)
  <2>1. CASE Tab!Browser
      BY <2>1 DEF Tab!Browser, Tab!Open, Tab!FollowLink, Tab!Submit, Tab!Send, Tab!signUps
  <2>2. CASE Tab!Disturbance
      BY <2>2 DEF Tab!Disturbance, Tab!LoseSession, Tab!GainSession, Tab!TakeAddress,
                  Tab!BeginElsewhere, Tab!EndCode,
         Tab!FinishElsewhere, Tab!ChangeElsewhere, Tab!SwitchElsewhere, Tab!TurnLink, Tab!signUps
  <2>3. CASE Tab!Pages
      BY <2>3 DEF Tab!Pages, Tab!SignedOut, Tab!ShowOpenPage, Tab!ShowRoot, Tab!ShowSettings,
                  Tab!ShowEmailCode,
         Tab!ShowHandOver, Tab!ShowPassword, Tab!ShowTwoFactor, Tab!ShowSetting, Tab!World,
         Tab!signUps
  <2>4. CASE Tab!CreateSignUp
    <3>1. request.text \in Addresses
        BY <2>4, Posting DEF Tab!CreateSignUp, Tab!Is, Tab!Typing
    <3> QED
        BY <2>4, <3>1 DEF Tab!CreateSignUp, Tab!World, Tab!signUps
  <2>5. CASE Tab!VerifyCode \/ Tab!CreateAccount
      BY <2>5 DEF Tab!VerifyCode, Tab!CreateAccount, Tab!KeptCookie, Tab!CookieAfterFailure,
                  Tab!World, Tab!signUps
  <2>6. CASE Tab!CreateReset \/ Tab!UpdatePassword \/ Tab!UpdateEmail \/ Tab!VerifyEmailChange
      BY <2>6 DEF Tab!CreateReset, Tab!UpdatePassword, Tab!UpdateEmail, Tab!VerifyEmailChange,
                  Tab!World, Tab!signUps
  <2>7. CASE Tab!EnableTwoFactor \/ Tab!DisableTwoFactor
      BY <2>7 DEF Tab!EnableTwoFactor, Tab!DisableTwoFactor, Tab!ShowSetting, Tab!World, Tab!signUps
  <2> QED
      BY <2>1, <2>2, <2>3, <2>4, <2>5, <2>6, <2>7 DEF Tab!Next, Tab!Submissions
<1>2. \A a \in Addresses : Tab!CanBegin => Len(Tab!Begun(a)) = Len(confirmations) + 1
    BY RowAdded
<1>3. Len(confirmations) \in Nat /\ made \subseteq 1..Len(confirmations)
    BY RowsFit DEF RowsOK
<1>4. 0 \notin made'
    BY CookieFits DEF RowsOK
<1> QED
    BY <1>1, <1>2, <1>3, <1>4 DEF Tab!HandOversEnd

\* The pages around an account keep the types of their state.
THEOREM AccountPagesTypeCorrect == Tab!Spec => []Tab!TypeOK
<1>1. Tab!Init => PromisesStand
    BY PromisesInit
<1>2. PromisesStand /\ [Tab!Next]_Tab!site => PromisesStand'
    BY NextKeeps, StutterKeeps DEF Good
<1>3. PromisesStand => Tab!TypeOK
    BY DEF PromisesStand
<1> QED
    BY <1>1, <1>2, <1>3, PTL DEF Tab!Spec

LEMMA SamePromises ==
    /\ Tab!site = site
    /\ Keeps <=>
          ((Answering /\ request.offered /\ request.changes = {} /\ request.filling = "right"
              /\ ~(request.op \in {"sign_up", "email"} /\ request.text \in accounts))
            => LedTo \in Promised(request))
<1>1. Tab!site = site
    BY DEF Tab!site, site
<1>2. Answering <=> Tab!Answering
    BY DEF Answering, Tab!Answering
<1>3. LedTo = Tab!LedTo
    BY DEF LedTo, Tab!LedTo
<1>4. Promised(request) = Tab!Promised(request)
    BY DEF Promised, Tab!Promised
<1> QED
    BY <1>1, <1>2, <1>3, <1>4, Zenon DEF Keeps

\* Whoever comes by a link, a redirect or a form and fills it in rightly gets on, by every road
\* through refusals, redirects and hand-over cookies, unless others changed what the form was
\* shown for.
THEOREM EveryOfferIsKept == Tab!Spec => OffersAreKept
<1>1. Tab!Init => PromisesStand
    BY PromisesInit
<1>2. PromisesStand /\ [Tab!Next]_Tab!site => PromisesStand'
    BY NextKeeps, StutterKeeps DEF Good
<1>3. PromisesStand /\ [Tab!Next]_Tab!site =>
          [(Answering /\ request.offered /\ request.changes = {} /\ request.filling = "right"
              /\ ~(request.op \in {"sign_up", "email"} /\ request.text \in accounts))
             => LedTo \in Promised(request)]_site
  <2> DEFINE Promise ==
             (Answering /\ request.offered /\ request.changes = {} /\ request.filling = "right"
                /\ ~(request.op \in {"sign_up", "email"} /\ request.text \in accounts))
               => LedTo \in Promised(request)
  <2>1. ASSUME PromisesStand, Tab!Next PROVE Promise
      BY <2>1, NextKeeps, SamePromises, Zenon DEF Good
  <2>2. ASSUME UNCHANGED Tab!site PROVE UNCHANGED site
    <3>1. Tab!site' = Tab!site
        BY <2>2
    <3> QED
        BY <3>1 DEF Tab!site, site
  <2> HIDE DEF Promise
  <2>3. PromisesStand /\ [Tab!Next]_Tab!site => [Promise]_site
      BY <2>1, <2>2
  <2> QED
      BY <2>3 DEF Promise
<1> QED
    BY <1>1, <1>2, <1>3, PTL DEF Tab!Spec, OffersAreKept

\* No answer leaves a cookie that names a confirmation an account was made from, also when the
\* session could not be made.
THEOREM HandOversAlwaysEnd == Tab!Spec => []HandOversEnd
<1> DEFINE Inv == PromisesStand /\ Tab!HandOversEnd
<1>1. Tab!Init => Inv
    BY PromisesInit
<1>2. Inv /\ [Tab!Next]_Tab!site => Inv'
  <2>1. CASE UNCHANGED Tab!site
      BY <2>1, StutterKeeps DEF Tab!site, Tab!HandOversEnd
  <2>2. ASSUME Inv, Tab!Next PROVE Inv'
    <3>1. PromisesStand' /\ RowsOK /\ RowsOK'
        BY <2>2, NextKeeps, TypeParts
           DEF Good, PromisesStand, Tab!TypeOK, RowsOK, Change, Factor, Link
    <3> QED
        BY <2>2, <3>1, HandOverEnds
  <2> QED
      BY <2>1, <2>2
<1>3. Inv => HandOversEnd
    BY DEF HandOversEnd, Tab!HandOversEnd
<1> QED
    BY <1>1, <1>2, <1>3, PTL DEF Tab!Spec
=============================================================================
