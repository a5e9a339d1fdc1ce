# Verification of Groobb

Groobb is a bulletin board: one Go process (`src/go/cmd/groobb`) that serves
HTTP, keeps everything in one SQLite file, and runs its background jobs (mail,
the purge of withdrawn accounts) on River, a queue in the same file. This
directory models the parts of it that keep state, checks the models with TLC on
small instances, and proves the theorems of section 6 with TLAPS for every
value of the constants.

    tlasany M.tla                        parse a module
    tlc -config X.cfg M                  one run (PROJECT.json pairs them)
    tlapm MProofs.tla                    the proofs of a module

## 1. Inventory

### How the parts interact

    browser -> middleware -> handler -> validator -> usecase -> repository -> SQLite
                  |                                     |
             session manager                        dispatcher -> river_job -> worker -> SMTP
                                                                                  |
                                                                         purge of accounts

* `database` opens a *writer* pool of one connection whose transactions are
  `BEGIN IMMEDIATE`, and a *reader* pool (`query_only`). A use case that writes
  in several statements is therefore serial with every other writer, in this
  process and in the subcommands of the operator. What a use case or a
  validator read *before* its transaction is not: this gap between reading and
  writing is where the hard behaviours of this program are.
* The reader pool gives each statement a snapshot of its own; a page composed
  from several statements shows several moments.
* Row ids are plain rowids, not AUTOINCREMENT: the id of a deleted row may be
  given to a new one. The next rowid is one above the greatest in use.
* A mail is queued in a transaction of its own after the one that made its row.

### Components

| component | state | operations | what makes it correct |
|---|---|---|---|
| conversation | threads, posts, post_references | open a thread, reply | numbers are permanent addresses, limit of posts, spacing of a person's posts, denormalised last post, references point back |
| moderation | locked_at, unpublished_at, moderation_logs | lock, unlock, unpublish thread, unpublish post | nothing is posted after a closing; the log explains the state |
| roles | roles, user_roles | grant, revoke (by an administrator or the operator) | a community that has an administrator keeps one |
| withdrawal and purge | users, user_sessions | withdraw, daily purge | withdrawn accounts act no more; only what is past the retention is purged, and all of it in the end; nothing dangles |
| sessions | user_sessions; the cookies of session, second factor, CSRF and flash | sign in, sign out, resolve, guard a page | no session without every factor; nobody acts for an account that has left; the way back survives the detours; open forms stay good; a message is seen once |
| two-factor sign-in | user_two_factor_auths | prepare, enable, disable, code, recovery code | a recovery code works once, overlapping sign-ins apart; the codes stored are the codes shown that were not used |
| password reset | password_reset_tokens, user_passwords | request, use a link | a link works once, and only the latest |
| sign-up | email_confirmations, users | request, confirm, create the account | one account for one address; a code takes a bounded number of guesses |
| change of email | email_confirmations, users | request, confirm | the address changes only to one its owner confirmed, and only for the account that asked |
| jobs | river_job, the stage of the process | start, stop, enqueue, work, retry, rescue, discard, schedule | a stop in order loses nothing; a mail follows its row and is attempted at most five times; every job settles |
| thread page | none; reads threads, posts, references, authors, roles | show, the moderation pages, reply | what is offered is granted, what was gone is not shown, what was written comes back |
| administration pages | none; reads users, user_roles | home, list, search, pages, buttons | reading on misses nobody; nothing leads to a closed door |
| pages around an account | the hand-over cookie of a sign-up | sign-up, reset, settings: every form, link and redirect | roads lead on; the hand-over ends with the account |
| infrastructure | none | configuration, i18n, Turnstile, seed, primitives, boards and categories | not modelled (section 7) |

`PROJECT.json` lists the same parts with their sources and with how far each is
modelled, and under "hazards" every behaviour of this code that a test would
hardly reach, at the line where it bites, with the properties that cover it.

## 2. Plan

Done:

1. `Threads`, `ThreadsProofs`: conversation, moderation, and what withdrawal and purge do to them.
2. `Roles`, `RolesProofs`: grants and revocations against withdrawals, suspensions and the purge.
3. `PasswordReset`, `PasswordResetProofs`: links, mails, rowids that are given again.
4. `TwoFactor`, `TwoFactorProofs`: enrolling, recovery codes, sign-ins.
5. `Confirmations`, `ConfirmationsProofs`: sign-up and change of address.
6. `Conversation`, `ThreadsRefinement`: the abstract board, and that `Threads` implements it
   (proved in `ThreadsProofs`).
7. `Jobs`, `JobsProofs`: the life of the process with its queue, and the first liveness.
8. `Sessions`, `SessionsProofs`: one browser, its tabs and cookies, against the rows of `user_sessions`.
9. `ThreadPages`, `ThreadPagesProofs`: the thread page as several moments, and what is made of its offers.
10. `AdminPromises`, `AdminUsers`: the list of accounts under a changing table (proved in `RolesProofs`).
11. `AccountPromises`, `AccountPages`: the roads through sign-up, reset and settings (proved in
    `PasswordResetProofs`).

Left, in this order:

12. `BoardPages`: home, category and board pages and the form of a new thread. Their reads are two or
    three lists that only grow; what could go wrong is the count of a page against its rows, as in
    `AdminUsers`.
13. `Sessions` over `TwoFactor` and `AccountPages` over `Confirmations` as refinements, in place of
    the reductions that section 3 names.

## 3. Modules and their correspondence to the code

All modules follow one pattern.

* **Tables** are sequences where the program never deletes a row (threads, posts, log), so that the
  rowid is the position; functions from rowids to rows or NULL where it does (links, codes).
  Columns no property tells apart (titles, bodies, languages, digests) are left out.
* **A request** sits in a slot of `requests` from its first read to its end. What it carries is
  exactly what the use case still holds in memory after its reads; what it does not carry it
  reads again in its transaction. A use case's transaction is one action, because the writer is
  serial; every read outside the transaction is an action of its own.
* **Fail** ends a request without any change: a statement or the commit fails, a refusal that
  writes nothing, or the process dies. It is enabled at every stage, so a crash is possible
  between any two steps; nothing else is lost by a crash, because nothing else is kept in memory.
* **Withdraw** and **Purge** appear in every module, with the columns of that module they touch.

| module | models | state |
|---|---|---|
| `Threads` | `usecase/create_thread.go`, `create_post.go`, `post_submission.go`, the four moderation use cases, `moderation_log.go`, `model/post.go`, `thread_lock.go`, the repositories of threads, posts and references, `delete_account.go` and `purge_withdrawn_users.go` as far as posts depend on them | `users`, `threads`, `posts`, `references`, `log`, `requests`, `answer`, `clock` |
| `Conversation` | nothing of the code: what a board promises | `conversations` |
| `ThreadsRefinement` | the abstraction function from tables to `Conversation` | that of `Threads` |
| `Roles` | `grant_user_role.go`, `revoke_user_role.go`, `user_role.go`, `actor.go`, the subcommand `groobb role`, `delete_account.go` | `users`, `assignments`, `requests`, `answer` |
| `PasswordReset` | `create_password_reset_token.go`, `update_password_reset.go`, its validator and repository, the mail as a queued job | `users`, `passwords`, `tokens`, `issued`, `queued`, `inbox`, `requests`, `answer`, and the history `owners` |
| `TwoFactor` | `prepare_`, `enable_`, `disable_two_factor_auth.go`, `create_sign_in*.go`, `create_session.go`, their validators | `setting`, `secrets`, `batches`, `pending`, `sessions`, `requests`, and the histories `scanned`, `displayed`, `used`, `overwritten` |
| `Confirmations` | `create_sign_up`, `verify_email_confirmation`, `create_account`, `create_email_change`, `verify_email_change`, the confirmation repository, the hand-over cookie | `users`, `emails`, `confirmations`, `cookies`, `issued`, `requests`, and the histories `issues`, `accepted`, `emailCodes` |
| `Jobs` | `cmd/groobb/serve.go`, `worker/`, `dispatcher/`, `email/`, the four use cases that send mail, `purge_withdrawn_users.go` | `stage`, `uptime`, `requests`, `jobs`, `workers`, `users`, and the histories `abrupt`, `rows`, `declined`, `sent` |
| `Sessions` | `middleware/auth.go`, `csrf.go`, `return_to.go`, `redirect_by.go`, `session/`, the handlers and pages of signing in, signing out and withdrawing, `user_session.go` | `accounts`, `secured`, `rows`, `jar`, `tabs`, `requests`, and the histories `proved`, `shown`, `used`, `disturbed` |
| `ThreadPages` | `get_thread.go`, `get_thread_moderation.go`, `handler/thread`, `thread_lock`, `thread_unpublication`, `post_unpublication`, `post`, with their templates and view models | `thread`, `posts`, `scopes`, `left`, `signedIn`, `request`, `page` |
| `AdminUsers`, `AdminPromises` (its state and what it promises) | `get_admin_home.go`, `get_admin_users.go`, `handler/admin`, `admin_user`, `admin_user_role`, their pages, the sidebar | `issued`, `members`, `admins`, `request`, `page`, and the history `walk` |
| `AccountPages`, `AccountPromises` (its state and what it promises) | the handlers and pages of `sign_up`, `email_confirmation`, `account`, `password_reset`, `password`, `settings*`, `welcome`, the header and the layout | `accounts`, `session`, `confirmations`, `jar`, `pending`, `factor`, `resets`, `page`, `request`, `disturbances`, and the history `made` |

`Threads` reads the session at `Arrive` and everything else in the transaction, as the code does:
`verifyPostAuthor` reads the account again, `LockReasons` is evaluated on the row read in the
transaction, the number is the count read there plus one. Whether the actor of a moderation may
moderate is resolved before the transaction and not again; `Threads` therefore lets any account
turn out to be allowed, and `Roles` is where it is decided who is.

`Conversation` forgets tables, counters, requests and the clock. Its threads are lists with a
standing: *open*, *closed* or *gone*. In `ThreadsRefinement` the place of a post in the list is
its `number`, the length of the list is `posts_count`, and the standing comes from `locked_at` and
`unpublished_at`.

The five modules of the outer layers meet the inner ones in a reduced form, named at the head of
each. `ThreadPages` keeps of `Threads` what a page can tell apart (lock, standing, number and
citations of posts, who wrote them, who has left); `AdminUsers` keeps of `Roles` who is a member and
who an administrator; `AccountPages` keeps of `Confirmations`, `PasswordReset` and `TwoFactor` whether a
form is accepted. What the reduction drops is checked where it is kept. Time is in `AccountPages`
and `Sessions` a step that may come at any moment (a cookie runs out, a code expires), and in `Jobs`
a clock whose ticks age the schedule and the withdrawn accounts.

Pages are records of what they show and offer. A request that follows an offer carries what has
changed since the page's own request *arrived* (`offered`), so that a refusal can be held against a
change: this is how "the conditions of the templates are those of the use cases" becomes a
property. The templates of the pages are mapped as the functions from what a handler passes to
those records.

Notes on the code that the models rest on or brought up:

* `GetThreadModeration` opens every confirmation page to whoever holds any of the three moderation
  scopes; the use case behind the page asks for the one. No page leads there without it.
* The page that brings a refused reply back is composed by reading the thread again, but does not
  ask for the lock again when the refusal was about the text or the interval.
* An unreadable page number of the list of accounts is answered "not found" before the right to
  read the list is asked; the use case asks first.
* A page that asks for the code of a sign-up whose confirmation is over has no link onward.
* A stale account form that is refused deletes the hand-over cookie, also when that is by now the
  cookie of another sign-up, begun in another tab.
* A confirmation that succeeded is neither consumed nor does it expire; only the cookie ends it.
* A comment in `serve.go` says that no page links to the withdrawal; `pages/settings/show.templ` does.
* The sidebar links the community's name to `/home` for everybody; the breadcrumbs of
  `handler/board/show.go` avoid that link for those who are not signed in.

## 4. Runs

Passing runs:

| run | instance | states | shows |
|---|---|---|---|
| `threads_posting` | 2 accounts, 2 requests, 2 threads of at most 3 posts, interval 3 ticks, a second of 2 ticks, 4 moments | 496,245 | numbers, limit, last post, references, spacing of posts, the exactness of Retry-After, posts after a withdrawal |
| `threads_moderation` | 1 account, 2 requests, 1 thread of at most 2 posts, all six routes, 3 log rows, 3 moments | 325,824 | nothing posted after a closing, the log explains the state, nothing dangles, waiting is advised only where it helps, refinement of `Conversation` |
| `roles` | 3 accounts, 2 requests, suspensions allowed | 394,717 | an administrator remains, refusals are right, no role is inherited with a rowid |
| `password_reset` | 2 accounts, 2 requests, rowids to 3, 3 links | 1,725,589 | only the last link is unused, passwords come from links of the own account, a used link is dead |
| `two_factor` | 3 requests, 3 secrets, 2 batches of 2 codes, 2 sessions | 477,732 | concurrent enrollments converge, one list of codes is shown and the row keeps what of it has not signed in, a code signs in once, both unless a sign-in was overtaken |
| `confirmations` | 2 accounts, 2 addresses, 2 requests, 2 attempts, rowids to 2, 4 codes | 1,542,400 | one pending change, wrong codes run out, cookies name their row, addresses come from codes of their own |
| `jobs` | 1 request with a mail of any kind, 1 purge slot, 1 account, 1 goroutine, 2 attempts each, interval and retention of 1 tick | 127,976 | an orderly stop loses nothing and no request meets a closed queue, mails follow rows, attempts bound the mails, every job settles, every withdrawn account is deleted while the schedule runs |
| `sessions` | 1 browser with 2 tabs, 1 account, 1 session token, 3 CSRF tokens, 1 flash | 1,160,217 | every factor was given, the way back is kept, open forms are accepted, a flash is shown once, leavers act no more |
| `thread_pages` | 1 visitor with two possible sets of rights, 1 other person, 1 thread of at most 2 posts | 2,053,224 | offers are honoured, what was gone is omitted, replies mirror links, no text is lost |
| `admin_users` | 4 accounts, 2 to a page, pages to 3, 3 searches | 907,316 | reading on misses nobody, doors are open, links lead to rows, rows were true |
| `account_pages` | 2 addresses, 2 sign-ups, links, changes or secrets in all, 3 disturbances | 562,658 | the hand-over ends with the account, links, redirects and rightly filled forms lead on |

Why the bounds are enough for what the runs claim. Every property relates at most two posts, links,
codes or accounts, and every race in the code is between a read and *one* conflicting commit; two
requests and two accounts are the smallest instance with all of them (three requests in
`two_factor`, where two enrollments must race with a deletion; three accounts in `roles`, where two
administrators revoke each other while a third withdraws). The limit of posts is above one and
below what the requests can send, so a thread fills and is raced for; `PostInterval` is not a
multiple of `Second`, so rounding matters; `Retention` is 0, so that the purge happens within the
clock; the rowids of links go up to 3, so that a purge can free one which another account's link
then gets. One account suffices in `threads_moderation`: which account moderates matters only to
the log's actor column, and one account can post, moderate, withdraw and be purged with two
requests in flight.

In the outer modules: one session token is one completed sign-in, after which the browser can sign
out, be signed out from elsewhere or withdraw, and 3 CSRF tokens are more than two tabs that begin
without the cookie are given; two tabs are enough for every overlap of answers that share a jar. Two sets of
rights (lock and hide posts; take the thread down) have a right that is lost, kept or gained with
another one; two posts are one that cites and one that is cited. Four accounts on pages of two
are two pages, and one more or one less makes a page appear or vanish. Two attempts are one that
is retried and one that is the last; one goroutine makes the purge and a mail wait for each other.
Three disturbances are those that a road of `AccountPages` can meet before, between and after its two
steps.

Three log rows let a lock, its undoing and one more moderation follow each other. Slots, accounts and
addresses are interchangeable, and the runs that check only invariants and properties of single steps
use that symmetry; `jobs`, which checks liveness, does not.

Bounds in guards: `MaxThreads`, `MaxLog`, `MaxClock` (`Threads`), `MaxId`, `MaxLinks`
(`PasswordReset`), `MaxId`, `MaxCodes` (`Confirmations`), `MaxSecrets`, `MaxBatches`, `MaxSessions`
(`TwoFactor`), `MaxTokens`, `MaxCsrf`, `MaxFlash` (`Sessions`), `MaxUsers`, `MaxPage` (`AdminUsers`),
`MaxBegun`, `MaxDisturbances` (`AccountPages`). `Jobs` needs none: attempts, slots and the age of an
account are bounded by the code's own limits.

Deadlock is checked in `roles`, `password_reset`, `two_factor`, `jobs` and `sessions`. It is off for
`Threads`, where the clock stops at its bound after all accounts are gone and nobody can send a request, for
`Confirmations`, where the codes run out with all accounts gone, and for the three modules of pages,
where the bounds end what others do and a tab may have come to rest: these are ends of the instance
and not of the program.

One run ends in a violation: `confirmations_withdrawn`. `WithdrawnStayAnonymous` states what
`delete_account.go` says of a withdrawal; a change of address whose code was read before the
withdrawal commits after it, and gives the account an address again.

It has relatives. Each of these configurations checks one property, which a comment of the
repository states and TLC refutes; they are not among the runs of PROJECT.json:

| configuration | property | the behaviour |
|---|---|---|
| `MCPasswordResetLive.cfg` | `OnlyLiveLinksSetPasswords` | a link is checked, a newer request replaces it, and it still sets the password |
| `MCPasswordResetConsumed.cfg` | `ConsumedWithTheChange` | the stamp goes by a rowid that meanwhile belongs to another account's link |
| `MCRolesHolders.cfg` | `HoldersAreMembers` | a grant that resolved its target commits after the target's withdrawal |
| `MCTwoFactorOnce.cfg` | `CodesWorkOnce` | two sign-ins check the same recovery code before either commits |
| `MCTwoFactorConfirmed.cfg` | `EnabledSecretsAreConfirmed` | a secret that was prepared anew is enabled by the confirmation of the old one |
| `MCJobsRestarts.cfg` | `WithdrawnIsPurged` | a process that is restarted more often than once an interval never purges: the schedule begins anew with each start |

All but the last have one cause: a validator reads, and the transaction writes by the ids it was
given without asking whether the rows are still what they were. The passing runs show how far the
consequences reach: a password or an address never moves to another account, the last administrator
is never lost, and a stored list of codes differs from what was shown and not yet used only after a sign-in
that was overtaken (`overtaken`, `overwritten` in `TwoFactor`), and until the next list is shown. For the rowids: rows deleted by a new request
usually return to the same account's next row; only a purge that lowers the greatest rowid lets
another account's row take the number a request still carries. The last one is the price of
`RunOnStart` being off; `PurgedWhileTheScheduleRuns` says what holds instead. `Sessions` found one more:
"shown once" in `session/flash.go` holds as long as requests do not overlap; two requests that carry the
same cookie both render its message, and `FlashIsShownOnce` states that condition.

Every property has in PROJECT.json a mutant, a change of one definition as a plausible bug would
make it, that the run of the property detects.

## 5. Assumptions

* The clock of the process does not go backwards. (`created_at` is its reading; with a clock set
  back the spacing of posts would not hold.)
* The retention of thirty days is longer than any request: in `Roles`, `PasswordReset` and
  `Confirmations` an account is purged only when no request in flight names it. In `Threads` the
  guard is not needed and not made: a request may outlive its account there.
* Random values do not repeat: a new link, code, secret or recovery code is one never seen before,
  and nobody guesses one. A right code is entered by whoever has it from a mail or a page.
* `expires_at` of links is abstracted to a bit that may be set at any time. A confirmation past
  its fifteen minutes is a row nobody asks for, so its expiry is no step.
* `Suspend` and `Unsuspend` of the user repository, which no route calls, are steps of the
  environment in `Roles`.
* Accounts do not share settings of the second factor, so `TwoFactor` has one.
* NULL or NONE (no cookie, no address, no request) and KEPT (a cookie that an answer does not mention) are
  none of the values they stand beside.
* In `Sessions` the day of life of the CSRF cookie does not pass while a form is open, a browser
  follows a redirect at once, and session rows do not expire (the code has no expiry on the server).
* In `AccountPages` a request is answered in one step, because the interleavings behind its forms are
  those of the inner modules; the redirect it is answered with is a request of its own. So every answer
  arrives with its cookies: a process that dies between the commit of an account and the answer, and an
  answer that is lost, are not among the disturbances. The browser would keep the cookie then, and a second
  submission would be refused, by its name in use or by the unique address.
* In `AdminUsers` the one role holds every scope, as in the roles the migrations insert.

Fairness is assumed in `Jobs` only. Weak: the process is started again (a supervisor or an operator),
a stop that has begun goes on (its timeouts see to it), the clock ticks, and the schedule runs when
it is due. Strong: the start gets as far as its workers now and then, and each job that can again
and again be worked on is at some time: fetched, or rescued when its process is gone
(`Work(j)`), because a crash at exactly each of these moments is not what an operator has to expect.
Also strong: not every attempt of a purge fails. Nothing is assumed of the mail transport, which may refuse for
ever; of requests, which may never come; or of crashes, which may come at any moment and any
number of times. The other modules state no fairness: a request ends when its goroutine does, and
an aborted request is possible at every stage, so no invariant relies on one being finished.

## 6. Proofs

TLAPS checks the following for every set of accounts and requests and every value of the limits,
from the named assumptions on the constants and nothing else.

**`ThreadsProofs`.** `TypeCorrect`; then the inductive invariant `Coherent`: the numbers handed out
in a thread (`PostNumbersAreAddresses`) are inductive only together with the range of the counts
and with every post being in a thread, and the latest post (`LastPostIsTheLatest`) only with the
fact that no post is from the future. A step either keeps the skeleton of the tables
(`SameSkeleton`: ids, threads, numbers, times, counts, references), or is a reply (`Replied`) or a
new thread (`Opened`), which is shown once (`StepShapes`) and used by every preservation lemma.
From it: `AddressesHold`, `LastPostHolds`, `ReferencesHold`, `ThreadsHoldTheirLimit` (the numbers
are an injection of the posts into `1..posts_count`) and the action property `PostsStay`.

The properties that compare moments need more of the past. `PostsKeepTheirDistance`: the spacing of
posts is inductive (`Spaced`) with `Coherent` and with `LatestKnown`, that whoever has written
has a latest post, the one the interval is counted from. `HistoryExplains`: what the log says of the state
is inductive (`Accounted`) with `Coherent` and with `LogNamesRows`; a step appends no entry and moves no
lock or standing, or appends the entry of exactly the change it makes. `ClosedMeansClosed` and
`LeaversPostNothing` hold because a transaction reads lock, standing and account anew and no post is
from the future. `NobodyIsOrphaned` says that the purge unlinks before it deletes; `AdviceIsExact` is the
arithmetic of Retry-After, for every interval and every length of a second; `WaitingHelps` is the
action property that the interval is asked about last.

`BoardIsAConversation`: `Spec => ImplementsConversation`. The
invariant `Coherent`, before and after a step, makes the row that has a number unique, so the
`CHOOSE` of the abstraction function is that row; each action is then shown to be one action of
`Conversation` (lock = `Close`, unlock = `Reopen`, unpublish = `TakeDown` or `Hide`, purge =
`Forget`, reply = `Reply`, new thread = `Open`) or a stutter.

**`RolesProofs`.** The invariant `Sound` adds to the types what a resolved grant and a pending
withdrawal name, which gives `NothingInherited`. `CommunityKeepsAnAdministrator` and
`RefusalsAreRight` are action properties: they count the holders before and after each
transaction, with the cardinality lemmas of the library.

The same module proves the pages on which an administrator grants and revokes (`Desk`, an instance of
`AdminUsers`; its state and its properties are those of `AdminPromises`): `AdminUsersTypeCorrect`,
`ReadingOnMissesNobodyAlways`, `OpenDoors`, `PageLinksAlwaysLeadToRows` and `RowsAlwaysWereTrue`, for any
number of accounts and any size of a page. Their invariant `Stands` has these parts:

* What others have done is noted: whatever could get the reader refused has its reason among the changes
  noted on the request (`RequestExplains`) or on the page (`PageExplains`). This gives `OpenDoors`.
* As long as nobody leaves, lists only grow: a number that was within the list stays within it, and a page
  that was counted has somebody on it (`RequestFits`, `PageFits`). This gives `PageLinksAlwaysLeadToRows`.
* A request remembers who was there and who held the role (`RequestRemembers`), which gives
  `RowsAlwaysWereTrue`; that a page has room for its rows is `PageHasRoom`.
* Whoever has not been met on a walk through the list comes on a later page, and there is one
  (`RequestWalks`, `WalkGoesOn`): the *rank* of an account, the number of those ahead of it, only grows
  while nobody leaves (`RankGrows`), so what joins pushes the unmet onward and never past the reader. This
  gives `ReadingOnMissesNobodyAlways`.

What the argument needs of ORDER BY, LIMIT and OFFSET are two facts about ranks. They differ from account
to account (`RanksDiffer`), so a page has at most as many rows as its size. And they run from 0 without a gap
(`RankReached`), because an injection of a finite set into as many places is onto; so a page within the list is
not empty.

**`PasswordResetProofs`.** The invariant `Coherent` says that a row belongs to the account its link
was issued to, that a link is in one row at most, that a request that was checked names the row of
its link wherever that row is still there (the rowid may have been given again), and that the row
of a link that set a password is stamped (`LinksAreCoherent`). From it
`OnlyTheLastLinkIsUnusedAlways`, `PasswordsAreOwn` and `SpentLinksStayDead`.

The same module proves the pages around an account, of which the form behind a link is one (`Tab`, an
instance of `AccountPages`; its state and its properties are those of `AccountPromises`):
`AccountPagesTypeCorrect`, `EveryOfferIsKept` and `HandOversAlwaysEnd`. The invariant `PromisesStand` says what a
page or a request can rely on. As long as no change is noted on it, nothing that its handler looks at stands
in its way (`Ready`: the cookie names the confirmation of the form, which is still to be confirmed, or
confirmed, and its address free; the change of address is pending; the link usable; the second factor in
the state the form is for), and whoever is on a page of the settings is signed in unless the end of the session
is noted. Every answer keeps it, a refused form that comes back (`AgainKeeps`) as well as a redirect
(`RedirectKeeps`); whatever others do is noted where it matters (`DisturbKeeps`). With it an answer that breaks a
promise would have to refuse what is ready. That hand-overs end follows from the types: a cookie is set for a new
row, no account has been made of it, and is given up where one is made.

**`TwoFactorProofs`.** `ShownIsOfTheRowAlways`, with its consequences `EnrollmentsAlwaysConverge` and
`OneListIsShownAlways`; and `CodesSignInOnce`. They share the inductive invariant `Sound`. That the row holds the
list that was shown less the codes that signed in is inductive only with `ReadListsAreStored`: a sign-in
that was not overtaken has read the very list that is stored, so that writing back the rest of it
takes one code out and nothing else; and with `CodesAreOld`: no code is of a list that is still to be
generated, so that a new list is free of used codes. `Overtake` is what makes the exception exact: the
commit of a sign-in and the deletion of a setting mark every sign-in that has read a list, and only
the write of a marked one sets `overwritten`, until a new list is shown.

**`ConfirmationsProofs`.** Four invariants, each on top of the types: one pending change
(`OnePendingChangeAlways`); `CookiesHold`, which adds the answers that are about to set a cookie to
the cookies (`CookiesNameTheirs`); `CodesFit`, which follows a code from its row over the requests
that carry it to the account whose address it proved (`AddressesAreProven`); and
`AttemptsAreCounted`, the failures of a row plus the requests in flight that may add one, bounded
by `MaxAttempts - 1 + Cardinality(Requests)` (`FailuresConvergeAlways`). The bound of the
code's comment, five, is exceeded only by requests that were in flight together.

**`JobsProofs`.** Every step leaves the jobs and requests alone, moves one request, works on one job
or ends the process; each kind is handled once. `Sound` adds to the types that a job that can be
taken has an attempt left, that goroutines work on jobs marked as running, and that the mails taken
so far are at most as many as the attempts, less the one that is being made. With it `JobsTypeCorrect`
and `AttemptsBoundMails`; with `RowsFirst` (which request is at which step, and which row and job it
has by then) `MailsFollowRowsAlways`. `Orderly` adds what each stage of a stop has already ended (the requests before
the workers, the workers before the connections of the queue), so that without a timeout or a crash nobody is
left to find the connections closed, and gives `OrderlyStopsLoseNothing`.

**`ThreadPagesProofs`.** Besides `ThreadPagesTypeCorrect`, three arguments:

* `NothingGoneIsShown` and `LinksAndRepliesFit` come from `PagesUpToDate`, which says at each stage of the
  handler what its reads still have in common with the rows: what was gone when the request arrived is gone
  (`Behind`), the posts that were read are a beginning of those there are (`Copied`), the references join
  them as the posts do themselves (`Joined`), and the authors had not left before (`Named`). It is inductive
  because the others only append, hide and leave (`Grows`).
* `OffersAreGood` is an action property on `OffersStand`: every offer of the page shown, and the one a
  request follows, is good or its change is noted (`Stands`), and what the handler of the thread page has read
  is still so or has changed meanwhile (`Fresh`), so that the page it ends with offers nothing else. A
  confirmation takes the changes of the page before over, also when it is shown again after a refused
  reason.
* `TextComesBack` goes through the answers to a reply.

**`SessionsProofs`.** What a handler makes of a request is one of four things: a page, an error, a
location, or a check after which it will commit (`Handled`); besides, a tab sends a request, an answer is
delivered, the pending cookie runs out, and other devices change accounts and rows (`Moves`). Each
invariant is shown once for each of these.

* `EveryFactorIsTaken`: `FactorsGiven` adds to the rows the pending cookie, wherever it is (the jar, a
  request, an answer), for which the password was given, and the checked requests, which have proved
  what the row they are about to insert is due.
* `VisitorsComeBack`: `WantedIsKept` says that the `return_to` of the page a tab shows, of its request and of
  its answer is the address the tab wants, through every detour that can lead to a session.
* `FormsStayOpen`: `TokensAgree`. As long as requests do not overlap, at most one tab has a request
  (`Apart`), every form that needs a token has one (`FormsHaveTokens`), and pages, request and answer agree
  with the jar on it (`SameToken`).
* `LeaversAreDone`: an account that has left stays so, hence the accounts a request knows to be gone are
  still gone when it acts (`LeaversStayGone`).
* `MessagesAreShownOnce`: `FlashesArrive` follows a message from the answer that sets it over the jar and the
  one request that carries it to its rendering, and the answer that takes it out of the jar.

TLC found every strengthening to hold on the instance of the run of its module before it was proved:
`LatestKnown`, `LogNamesRows`, `FactorsGiven`, `WantedIsKept`, `TokensAgree`, `LeaversStayGone`,
`FlashesArrive`, `ReadListsAreStored`, `CodesAreOld`, `Orderly`, `PagesUpToDate`, `OffersStand`, `PromisesStand`, `Stands`; and the runs check `Coherent`,
`Sound` of `Roles` and `ShownIsOfTheRow` themselves, of which the smaller invariants that the theorems name
are conjuncts or consequences.

Only model-checked: of `Jobs` the two liveness properties, which with fairness and ENABLED are out
of the prover's reach. Every other property of a passing run has its theorem. No module declares a
RECURSIVE operator.

## 7. Not modelled

* The home, category and board pages and the form of a new thread (plan, step 12); session expiry in
  the browser other than a cookie that is gone.
* Suspended accounts in the outer modules except `Sessions`; the addresses that are typed into the
  address bar on the confirmation pages of a moderation.
* Translations, wording, styles, view models of lists, configuration, the limit of form bodies and the
  overriding of methods: they keep no state between requests. Validation of the form of inputs is a
  pure function; the modules take an input as accepted or refused.
* Boards, categories and the community row are written by the seeding subcommand only and are
  constants to the running process.
* Codes, tokens, hashes, TOTP, SMTP, Turnstile, SQLite and River themselves are libraries or
  services; what is used of SQLite (one writer, rollback, UNIQUE, ON DELETE, rowids) is in the
  actions that depend on it.
* With `synchronous=NORMAL` a power failure may lose the latest committed transactions. The modules
  let a process die at any step, and lose no commit.
