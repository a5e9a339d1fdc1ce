------------------------------ MODULE Threads ------------------------------
(***************************************************************************)
(* The conversation of a Groobb community: threads, the posts in them, the *)
(* references between posts, and the administrators' moderation of both.   *)
(*                                                                         *)
(* A request is two steps, because the code reads in two places.  The      *)
(* session (and, for a moderation, the roles) is resolved when the request *)
(* arrives; everything else is read inside one BEGIN IMMEDIATE transaction *)
(* of the single SQLite writer, so the use case proper is one atomic step. *)
(* Between the two steps other requests, withdrawals, revocations and the  *)
(* purge job run freely.                                                   *)
(*                                                                         *)
(* Tables are sequences: rows of threads, posts and moderation_logs are    *)
(* never deleted by the program, so the rowid of a row is its position.    *)
(***************************************************************************)
EXTENDS Integers, Sequences, FiniteSets

CONSTANTS
    Users,            \* rowids of accounts
    Requests,         \* slots for HTTP requests in flight
    NULL,             \* SQL NULL
    Operations,       \* the routes in use
    Citations,        \* the sets of post numbers a body may cite with >>N
    ThreadPostLimit,  \* model.ThreadPostLimit
    PostInterval,     \* model.PostInterval, in ticks of the clock
    Second,           \* ticks in a second, the unit of Retry-After
    Retention,        \* usecase.withdrawnUserRetention, in ticks
    MaxThreads,       \* bound: rows of threads
    MaxLog,           \* bound: rows of moderation_logs
    MaxClock          \* bound: ticks of the clock

ThreadOperations == {"create_thread", "create_post"}
ModerationOperations ==
    {"lock_thread", "unlock_thread", "unpublish_thread", "unpublish_post"}

ASSUME ConstantsAssumption ==
    /\ NULL \notin Int
    /\ NULL \notin Users
    /\ IsFiniteSet(Users)
    /\ Operations \subseteq ThreadOperations \union ModerationOperations
    /\ Citations \subseteq SUBSET Nat
    /\ {} \in Citations
    /\ ThreadPostLimit \in Nat \ {0}
    /\ PostInterval \in Nat
    /\ Second \in Nat \ {0}
    /\ Retention \in Nat
    /\ MaxThreads \in Nat
    /\ MaxLog \in Nat
    /\ MaxClock \in Nat

VARIABLES
    users,       \* users: is the row present, and its deleted_at
    threads,     \* the threads table
    posts,       \* the posts table
    references,  \* post_references as pairs <<post id, referenced post id>>
    log,         \* the moderation_logs table
    requests,    \* the request in each slot
    answer,      \* what the latest step answered, "none" if it answered nothing
    clock

contentVars == <<threads, posts, references, log>>
vars == <<users, threads, posts, references, log, requests, answer, clock>>

-----------------------------------------------------------------------------
(* Rows *)

Time == Nat
MaybeTime == Time \union {NULL}
MaybeUser == Users \union {NULL}

Account == [present : BOOLEAN, deletedAt : MaybeTime]

Thread == [author : MaybeUser, postsCount : Nat, lastPost : Nat,
           lastPostedAt : Time, lockedAt : MaybeTime, unpublishedAt : MaybeTime]

Post == [thread : Nat, author : MaybeUser, number : Nat, createdAt : Time,
         unpublishedAt : MaybeTime]

LogEntry == [actor : MaybeUser, action : ModerationOperations, thread : Nat,
             post : Nat \union {NULL}, createdAt : Time]

Request == [op : Operations, user : Users, thread : Nat, number : Nat,
            cites : Citations] \union {NULL}

Answers == {"none", "created", "done", "not_found", "unpublished", "forbidden",
            "locked", "rate_limited", "failed"}

TypeOK ==
    /\ users \in [Users -> Account]
    /\ threads \in Seq(Thread)
    /\ posts \in Seq(Post)
    /\ references \subseteq Nat \X Nat
    /\ log \in Seq(LogEntry)
    /\ requests \in [Requests -> Request]
    /\ answer \in Answers
    /\ clock \in Time

-----------------------------------------------------------------------------
(* What the rows mean to the use cases *)

\* An account the lookups of the repository still find.
Found(u) == users[u].present /\ users[u].deletedAt = NULL

PostsOf(t) == {i \in DOMAIN posts : posts[i].thread = t}

\* Mutation of LockReasons: the limit is noticed one post too late.
LockReasonsOffByOne(t) ==
    {reason \in {"locked_by_moderator", "post_limit_reached"} :
        \/ reason = "locked_by_moderator" /\ threads[t].lockedAt # NULL
        \/ reason = "post_limit_reached" /\ threads[t].postsCount > ThreadPostLimit}

\* Why a thread takes no more posts: an administrator's lock, or its own size.
LockReasons(t) ==
    {reason \in {"locked_by_moderator", "post_limit_reached"} :
        \/ reason = "locked_by_moderator" /\ threads[t].lockedAt # NULL
        \/ reason = "post_limit_reached" /\ threads[t].postsCount >= ThreadPostLimit}

\* Mutation of PostIntervalWait: the wait is cut off to whole seconds.
PostIntervalWaitTruncated(lastPostedAt, now) ==
    LET remaining == PostInterval - (now - lastPostedAt)
    IN  IF remaining <= 0 THEN 0 ELSE (remaining \div Second) * Second

\* What is left of the interval, rounded up to whole seconds.
PostIntervalWait(lastPostedAt, now) ==
    LET remaining == PostInterval - (now - lastPostedAt)
    IN  IF remaining <= 0 THEN 0
        ELSE ((remaining + Second - 1) \div Second) * Second

\* The rows FindLatestByUserID chooses the newest of: the user's, in any thread.
Authored(u) == {i \in DOMAIN posts : posts[i].author = u}

\* The latest of the user's rows by created_at, ties by id.
IsLatest(u, i) ==
    /\ i \in Authored(u)
    /\ \A j \in Authored(u) :
        \/ posts[j].createdAt < posts[i].createdAt
        \/ posts[j].createdAt = posts[i].createdAt /\ j <= i

MayPostNow(u) ==
    \A i \in DOMAIN posts :
        IsLatest(u, i) => PostIntervalWait(posts[i].createdAt, clock) = 0

\* Mutation of ReplyAnswer: nobody asks whether the thread is still shown.
ReplyAnswerToHidden(q) ==
    IF q.thread \notin DOMAIN threads THEN "not_found"
    ELSE IF ~Found(q.user) THEN "forbidden"
    ELSE IF LockReasons(q.thread) # {} THEN "locked"
    ELSE IF ~MayPostNow(q.user) THEN "rate_limited"
    ELSE "created"

\* Mutation of ReplyAnswer: the account is trusted as it was when the request arrived.
ReplyAnswerToSession(q) ==
    IF q.thread \notin DOMAIN threads THEN "not_found"
    ELSE IF threads[q.thread].unpublishedAt # NULL THEN "unpublished"
    ELSE IF LockReasons(q.thread) # {} THEN "locked"
    ELSE IF ~MayPostNow(q.user) THEN "rate_limited"
    ELSE "created"

\* Mutation of ReplyAnswer: the interval is asked about before the lock.
ReplyAnswerIntervalFirst(q) ==
    IF q.thread \notin DOMAIN threads THEN "not_found"
    ELSE IF threads[q.thread].unpublishedAt # NULL THEN "unpublished"
    ELSE IF ~Found(q.user) THEN "forbidden"
    ELSE IF ~MayPostNow(q.user) THEN "rate_limited"
    ELSE IF LockReasons(q.thread) # {} THEN "locked"
    ELSE "created"

\* The answer of the checks createPost makes, in the order it makes them.
ReplyAnswer(q) ==
    IF q.thread \notin DOMAIN threads THEN "not_found"
    ELSE IF threads[q.thread].unpublishedAt # NULL THEN "unpublished"
    ELSE IF ~Found(q.user) THEN "forbidden"
    ELSE IF LockReasons(q.thread) # {} THEN "locked"
    ELSE IF ~MayPostNow(q.user) THEN "rate_limited"
    ELSE "created"

\* Mutation of ThreadAnswer: opening a thread does not wait for the interval.
ThreadAnswerAtOnce(q) ==
    IF ~Found(q.user) THEN "forbidden" ELSE "created"

\* The same for createThread, whose board exists.
ThreadAnswer(q) ==
    IF ~Found(q.user) THEN "forbidden"
    ELSE IF ~MayPostNow(q.user) THEN "rate_limited"
    ELSE "created"

\* findModeratedThread: the thread a moderation names must still be shown.
ModeratedThreadAnswer(t) ==
    IF t \notin DOMAIN threads THEN "not_found"
    ELSE IF threads[t].unpublishedAt # NULL THEN "unpublished"
    ELSE "done"

PostsNumbered(t, n) == {i \in PostsOf(t) : posts[i].number = n}

-----------------------------------------------------------------------------
Init ==
    /\ users = [u \in Users |-> [present |-> TRUE, deletedAt |-> NULL]]
    /\ threads = <<>>
    /\ posts = <<>>
    /\ references = {}
    /\ log = <<>>
    /\ requests = [r \in Requests |-> NULL]
    /\ answer = "none"
    /\ clock = 0

-----------------------------------------------------------------------------
(* Requests *)

\* A form reaches a route behind RequireAuth: the session names an account that
\* has not withdrawn.  For a moderation the policy is resolved here as well, from
\* roles that the transaction does not read again; which accounts hold them is the
\* business of module Roles, so here any account may turn out to be allowed.
Arrive(r, op, u, t, n, cites) ==
    /\ requests[r] = NULL
    /\ Found(u)
    /\ requests' = [requests EXCEPT ![r] =
            [op |-> op, user |-> u, thread |-> t, number |-> n, cites |-> cites]]
    /\ answer' = "none"
    /\ UNCHANGED <<users, contentVars, clock>>

Answered(r, code) ==
    /\ requests' = [requests EXCEPT ![r] = NULL]
    /\ answer' = code

Handles(r, op) == requests[r] # NULL /\ requests[r].op = op

\* BEGIN, a statement or COMMIT fails, or the process dies: the transaction rolls
\* back and the request is over.
Fail(r) ==
    /\ requests[r] # NULL
    /\ Answered(r, "failed")
    /\ UNCHANGED <<users, contentVars, clock>>

-----------------------------------------------------------------------------
(* Posting *)

NewPost(t, u, n) ==
    [thread |-> t, author |-> u, number |-> n, createdAt |-> clock,
     unpublishedAt |-> NULL]

\* Mutation of ReferenceRows: a body may cite its own number.
ReferenceRowsToSelf(post, t, n, cites) ==
    {<<post, i>> : i \in {j \in PostsOf(t) : posts[j].number \in cites}
                         \union {j \in {post} : n \in cites}}

\* The rows INSERT ... SELECT writes for the numbers a body cites.
ReferenceRows(post, t, n, cites) ==
    {<<post, i>> : i \in {j \in PostsOf(t) : posts[j].number < n /\ posts[j].number \in cites}}

\* Mutation of WithLastPost: posts_count is not written.
WithLastPostUncounted(thread, count, post, at) ==
    [thread EXCEPT !.lastPost = post, !.lastPostedAt = at]

\* Mutation of WithLastPost: last_posted_at is not written.
WithLastPostUntimed(thread, count, post, at) ==
    [thread EXCEPT !.postsCount = count, !.lastPost = post]

\* Mutation of WithLastPost: an unset last post.
WithLastPostUnset(thread, count, post, at) ==
    [thread EXCEPT !.postsCount = count, !.lastPost = NULL, !.lastPostedAt = at]

WithLastPost(thread, count, post, at) ==
    [thread EXCEPT !.postsCount = count, !.lastPost = post, !.lastPostedAt = at]

CreatePost(r) ==
    LET q == requests[r]
        t == q.thread
        number == threads[t].postsCount + 1
        id == Len(posts) + 1
        verdict == ReplyAnswer(q)
    IN  /\ Handles(r, "create_post")
        /\ Answered(r, verdict)
        /\ \/ /\ verdict = "created"
              /\ posts' = Append(posts, NewPost(t, q.user, number))
              /\ threads' = [threads EXCEPT ![t] = WithLastPost(@, number, id, clock)]
              /\ references' = references \union ReferenceRows(id, t, number, q.cites)
           \/ /\ verdict # "created"
              /\ UNCHANGED <<threads, posts, references>>
        /\ UNCHANGED <<users, log, clock>>

NewThread(u, post, at) ==
    [author |-> u, postsCount |-> 1, lastPost |-> post, lastPostedAt |-> at,
     lockedAt |-> NULL, unpublishedAt |-> NULL]

CreateThread(r) ==
    LET q == requests[r]
        t == Len(threads) + 1
        id == Len(posts) + 1
        verdict == ThreadAnswer(q)
    IN  /\ Handles(r, "create_thread")
        /\ Len(threads) < MaxThreads
        /\ Answered(r, verdict)
        /\ \/ /\ verdict = "created"
              /\ posts' = Append(posts, NewPost(t, q.user, 1))
              /\ threads' = Append(threads, NewThread(q.user, id, clock))
           \/ /\ verdict # "created"
              /\ UNCHANGED <<threads, posts>>
        /\ UNCHANGED <<users, references, log, clock>>

-----------------------------------------------------------------------------
(* Moderation *)

\* recordModerationLog: the row names the actor, so it cannot be inserted, and the
\* whole transaction fails, once the purge has deleted the actor's row.
Record(q, post) ==
    /\ users[q.user].present
    /\ Len(log) < MaxLog
    /\ log' = Append(log, [actor |-> q.user, action |-> q.op, thread |-> q.thread,
                           post |-> post, createdAt |-> clock])

\* A use case that changes nothing: it refuses, or finds the work already done.
Declined(r, code) ==
    /\ Answered(r, code)
    /\ UNCHANGED contentVars

\* Mutation of LockThread: a locked thread is locked, and recorded, again.
LockThreadAgain(r) ==
    LET q == requests[r]
        t == q.thread
        verdict == ModeratedThreadAnswer(t)
    IN  /\ Handles(r, "lock_thread")
        /\ \/ verdict # "done" /\ Declined(r, verdict)
           \/ /\ verdict = "done"
              /\ threads' = [threads EXCEPT ![t].lockedAt = clock]
              /\ Record(q, NULL)
              /\ Answered(r, "done")
              /\ UNCHANGED <<posts, references>>
        /\ UNCHANGED <<users, clock>>

LockThread(r) ==
    LET q == requests[r]
        t == q.thread
        verdict == ModeratedThreadAnswer(t)
    IN  /\ Handles(r, "lock_thread")
        /\ \/ verdict # "done" /\ Declined(r, verdict)
           \/ verdict = "done" /\ threads[t].lockedAt # NULL /\ Declined(r, "done")
           \/ /\ verdict = "done"
              /\ threads[t].lockedAt = NULL
              /\ threads' = [threads EXCEPT ![t].lockedAt = clock]
              /\ Record(q, NULL)
              /\ Answered(r, "done")
              /\ UNCHANGED <<posts, references>>
        /\ UNCHANGED <<users, clock>>

UnlockThread(r) ==
    LET q == requests[r]
        t == q.thread
        verdict == ModeratedThreadAnswer(t)
    IN  /\ Handles(r, "unlock_thread")
        /\ \/ verdict # "done" /\ Declined(r, verdict)
           \/ verdict = "done" /\ threads[t].lockedAt = NULL /\ Declined(r, "done")
           \/ /\ verdict = "done"
              /\ threads[t].lockedAt # NULL
              /\ threads' = [threads EXCEPT ![t].lockedAt = NULL]
              /\ Record(q, NULL)
              /\ Answered(r, "done")
              /\ UNCHANGED <<posts, references>>
        /\ UNCHANGED <<users, clock>>

\* Only findExistingThread: a thread already out of sight is a success.
UnpublishThread(r) ==
    LET q == requests[r]
        t == q.thread
    IN  /\ Handles(r, "unpublish_thread")
        /\ \/ t \notin DOMAIN threads /\ Declined(r, "not_found")
           \/ t \in DOMAIN threads /\ threads[t].unpublishedAt # NULL /\ Declined(r, "done")
           \/ /\ t \in DOMAIN threads
              /\ threads[t].unpublishedAt = NULL
              /\ threads' = [threads EXCEPT ![t].unpublishedAt = clock]
              /\ Record(q, NULL)
              /\ Answered(r, "done")
              /\ UNCHANGED <<posts, references>>
        /\ UNCHANGED <<users, clock>>

UnpublishPost(r) ==
    LET q == requests[r]
        verdict == ModeratedThreadAnswer(q.thread)
        named == PostsNumbered(q.thread, q.number)
    IN  /\ Handles(r, "unpublish_post")
        /\ \/ verdict # "done" /\ Declined(r, verdict)
           \/ verdict = "done" /\ named = {} /\ Declined(r, "not_found")
           \/ /\ verdict = "done"
              /\ \E i \in named : posts[i].unpublishedAt # NULL
              /\ Declined(r, "done")
           \/ /\ verdict = "done"
              /\ \E i \in named :
                  /\ posts[i].unpublishedAt = NULL
                  /\ posts' = [posts EXCEPT ![i].unpublishedAt = clock]
                  /\ Record(q, i)
              /\ Answered(r, "done")
              /\ UNCHANGED <<threads, references>>
        /\ UNCHANGED <<users, clock>>

-----------------------------------------------------------------------------
(* Accounts, as far as the conversation depends on them.  Module Roles models the *)
(* withdrawal with its request, its sessions, its roles and the check for the last *)
(* administrator; here every account may come to withdraw.                         *)

\* The update goes by id alone: a withdrawal sent twice stamps deleted_at twice.
Withdraw(u) ==
    /\ users[u].present
    /\ users' = [users EXCEPT ![u].deletedAt = clock]
    /\ answer' = "none"
    /\ UNCHANGED <<contentVars, requests, clock>>

\* Mutation of Unlinked: the foreign key has no ON DELETE clause.
Dangling(u, gone) == u

\* ON DELETE SET NULL.
Unlinked(u, gone) == IF u \in gone THEN NULL ELSE u

\* Mutation of WithoutAuthors: ON DELETE CASCADE takes the posts along.
PostsCascaded(gone) == SelectSeq(posts, LAMBDA p : p.author \notin gone)

WithoutAuthors(gone) ==
    [i \in DOMAIN posts |-> [posts[i] EXCEPT !.author = Unlinked(@, gone)]]

\* DELETE FROM users of the daily job; the foreign keys cascade to the roles and
\* set the author and actor columns to NULL.
PurgeWithdrawnUsers ==
    LET gone == {u \in Users : /\ users[u].present
                               /\ users[u].deletedAt # NULL
                               /\ users[u].deletedAt < clock - Retention}
    IN  /\ gone # {}
        /\ users' = [u \in Users |->
                        IF u \in gone THEN [users[u] EXCEPT !.present = FALSE] ELSE users[u]]
        /\ threads' = [t \in DOMAIN threads |->
                        [threads[t] EXCEPT !.author = Unlinked(@, gone)]]
        /\ posts' = WithoutAuthors(gone)
        /\ log' = [e \in DOMAIN log |-> [log[e] EXCEPT !.actor = Unlinked(@, gone)]]
        /\ answer' = "none"
        /\ UNCHANGED <<references, requests, clock>>

Tick ==
    /\ clock < MaxClock
    /\ clock' = clock + 1
    /\ answer' = "none"
    /\ UNCHANGED <<users, contentVars, requests>>

-----------------------------------------------------------------------------
\* A thread id or post number that names nothing is one past the last.
ArriveStep ==
    \E r \in Requests, u \in Users :
        \/ /\ "create_thread" \in Operations
           /\ Arrive(r, "create_thread", u, 0, 0, {})
        \/ /\ "create_post" \in Operations
           /\ \E t \in 1..Len(threads) + 1, cites \in Citations :
                Arrive(r, "create_post", u, t, 0, cites)
        \/ \E op \in (Operations \intersect ModerationOperations) \ {"unpublish_post"},
              t \in 1..Len(threads) + 1 :
                Arrive(r, op, u, t, 0, {})
        \/ /\ "unpublish_post" \in Operations
           /\ \E t \in 1..Len(threads) + 1, n \in 1..ThreadPostLimit + 1 :
                Arrive(r, "unpublish_post", u, t, n, {})

UseCaseStep ==
    \E r \in Requests :
        \/ CreateThread(r)
        \/ CreatePost(r)
        \/ LockThread(r)
        \/ UnlockThread(r)
        \/ UnpublishThread(r)
        \/ UnpublishPost(r)
        \/ Fail(r)

AccountStep ==
    \/ \E u \in Users : Withdraw(u)
    \/ PurgeWithdrawnUsers

Next == ArriveStep \/ UseCaseStep \/ AccountStep \/ Tick

Spec == Init /\ [][Next]_vars

-----------------------------------------------------------------------------
(* What makes the conversation correct *)

\* A post number is a permanent address: in every thread the numbers handed out are
\* 1, 2, ..., posts_count, each to one post, whoever raced for them (createPost takes
\* the number from the count it read inside the transaction).
PostNumbersAreAddresses ==
    \A t \in DOMAIN threads :
        /\ {posts[i].number : i \in PostsOf(t)} = 1..threads[t].postsCount
        /\ \A i, j \in PostsOf(t) : posts[i].number = posts[j].number => i = j

\* No thread ever holds more than ThreadPostLimit posts (the 1000th post does not let a
\* 1001st through), and every post is in a thread.
ThreadsNeverOverflow ==
    /\ \A t \in DOMAIN threads : Cardinality(PostsOf(t)) <= ThreadPostLimit
    /\ \A i \in DOMAIN posts : posts[i].thread \in DOMAIN threads

\* The three denormalised columns a board's list is drawn from state one fact: which post
\* is the latest, which number it has, and when it was written.
LastPostIsTheLatest ==
    \A t \in DOMAIN threads :
        LET last == threads[t].lastPost
        IN  /\ last \in PostsOf(t)
            /\ posts[last].number = threads[t].postsCount
            /\ posts[last].createdAt = threads[t].lastPostedAt
            /\ \A i \in PostsOf(t) :
                i <= last /\ posts[i].createdAt <= threads[t].lastPostedAt

\* A stored reference joins a post to an earlier post of the same thread, so the thread page
\* finds both of its ends among the posts it lists.
ReferencesPointBack ==
    \A ref \in references :
        /\ ref[1] \in DOMAIN posts
        /\ ref[2] \in DOMAIN posts
        /\ posts[ref[1]].thread = posts[ref[2]].thread
        /\ posts[ref[2]].number < posts[ref[1]].number

\* The interval belongs to the person: two posts of one account are PostInterval apart in
\* whichever threads they stand, replies and first posts alike.
PostsAreSpaced ==
    \A i, j \in DOMAIN posts :
        i < j /\ posts[i].author = posts[j].author /\ posts[i].author # NULL
            => posts[j].createdAt - posts[i].createdAt >= PostInterval

\* The wait a rate-limited writer is told (Retry-After) is whole seconds, is enough, and is
\* less than a second too long.
AdvisedWaitIsExact ==
    \A u \in Users, i \in DOMAIN posts :
        LET wait == PostIntervalWait(posts[i].createdAt, clock)
        IN  IsLatest(u, i) =>
                /\ wait % Second = 0
                /\ clock + wait - posts[i].createdAt >= PostInterval
                /\ wait > 0 => clock + wait - Second - posts[i].createdAt < PostInterval

\* Nothing is posted to a thread after the lock that stands on it, or after it was taken out
\* of sight, even by a request that arrived before.
NothingPostedAfterClosing ==
    \A t \in DOMAIN threads : \A i \in PostsOf(t) :
        \A closed \in {threads[t].lockedAt, threads[t].unpublishedAt} \ {NULL} :
            posts[i].createdAt <= closed

\* No post is attributed to an account later than its withdrawal, even by a request the
\* account sent while it was signed in (verifyPostAuthor).
NobodyPostsAfterWithdrawing ==
    \A i \in DOMAIN posts :
        LET u == posts[i].author
        IN  u # NULL /\ users[u].deletedAt # NULL => posts[i].createdAt <= users[u].deletedAt

\* Authors and actors name rows that exist: the purge unlinks what people wrote and did
\* from their account instead of leaving it dangling.
NoOrphans ==
    /\ \A i \in DOMAIN posts : posts[i].author # NULL => users[posts[i].author].present
    /\ \A t \in DOMAIN threads : threads[t].author # NULL => users[threads[t].author].present
    /\ \A e \in DOMAIN log : log[e].actor # NULL => users[log[e].actor].present

Entries(t, actions) ==
    {e \in DOMAIN log : log[e].thread = t /\ log[e].action \in actions}

LockEntries(t) == Entries(t, {"lock_thread", "unlock_thread"})

\* e comes right after d in a set of entries.
Follows(d, e, S) == d < e /\ \A f \in S : f <= d \/ f >= e

\* The history accounts for the state: along the entries of a thread locks and unlocks
\* alternate, the last of them is what locked_at says, a thread out of sight was taken out by
\* one entry after which nothing was done to it, and a hidden post by one entry of its own.
\* (recordModerationLog runs in the transaction of the change, and an operation that finds its
\* work done records nothing.)
LogExplainsState ==
    \A t \in DOMAIN threads :
        /\ \A e \in LockEntries(t) :
            /\ (\A d \in LockEntries(t) : d >= e) => log[e].action = "lock_thread"
            /\ \A d \in LockEntries(t) :
                Follows(d, e, LockEntries(t)) => log[d].action # log[e].action
            /\ (\A d \in LockEntries(t) : d <= e) =>
                threads[t].lockedAt =
                    (IF log[e].action = "lock_thread" THEN log[e].createdAt ELSE NULL)
        /\ LockEntries(t) = {} => threads[t].lockedAt = NULL
        /\ Entries(t, {"unpublish_thread"}) = {} <=> threads[t].unpublishedAt = NULL
        /\ \A e \in Entries(t, {"unpublish_thread"}) :
            /\ threads[t].unpublishedAt = log[e].createdAt
            /\ \A d \in Entries(t, ModerationOperations) : d <= e
        /\ \A i \in PostsOf(t) :
            LET hiding == {e \in Entries(t, {"unpublish_post"}) : log[e].post = i}
            IN  /\ hiding = {} <=> posts[i].unpublishedAt = NULL
                /\ \A e \in hiding : hiding = {e} /\ posts[i].unpublishedAt = log[e].createdAt

\* What was said stays where it was said: no step removes a post, moves it, renumbers it,
\* redates it, gives it to someone else or brings it back into sight; all that may change is
\* that its author is forgotten or that it is hidden, once.
PostsArePermanent ==
    [][/\ Len(posts') >= Len(posts)
       /\ \A i \in DOMAIN posts :
            /\ posts'[i].thread = posts[i].thread
            /\ posts'[i].number = posts[i].number
            /\ posts'[i].createdAt = posts[i].createdAt
            /\ posts'[i].author \in {posts[i].author, NULL}
            /\ posts[i].unpublishedAt # NULL => posts'[i].unpublishedAt = posts[i].unpublishedAt
       /\ references \subseteq references']_vars

\* A reply is told to wait only when waiting helps: the thread is shown and takes posts, and
\* the account may write (createPost asks about the interval last).
RateLimitedMeansWait ==
    [][\A r \in Requests :
        requests[r] # NULL /\ requests'[r] = NULL /\ answer' = "rate_limited" =>
            /\ Found(requests[r].user)
            /\ requests[r].op = "create_post" =>
                /\ threads[requests[r].thread].unpublishedAt = NULL
                /\ LockReasons(requests[r].thread) = {}]_vars

\* The tables of a conversation hold together: the number a thread hands out next is in range, no
\* post is outside a thread or from the future, and the addresses, the latest posts and the
\* references are as above.  The parts are inductive only together (create_post.go, create_thread.go).
CountsInRange == \A t \in DOMAIN threads : threads[t].postsCount \in 1..ThreadPostLimit

PostsInThreads == \A i \in DOMAIN posts : posts[i].thread \in DOMAIN threads

PostsInThePast == \A i \in DOMAIN posts : posts[i].createdAt <= clock

Coherent ==
    /\ TypeOK
    /\ CountsInRange
    /\ PostsInThreads
    /\ PostsInThePast
    /\ PostNumbersAreAddresses
    /\ LastPostIsTheLatest
    /\ ReferencesPointBack
=============================================================================
