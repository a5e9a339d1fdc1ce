---------------------------- MODULE ThreadPages ----------------------------
(***************************************************************************)
(* The page of a thread as one visitor meets it: composed from several     *)
(* reads while others post, moderate and leave, offering what the visitor  *)
(* may do, and the requests that take up what was offered.                 *)
(*                                                                         *)
(* What the others do is Threads, here reduced to its effect on the rows   *)
(* the page reads.  A page remembers what has changed since its request    *)
(* arrived, so that an offer that is refused can be explained.             *)
(***************************************************************************)
EXTENDS Integers, Sequences, FiniteSets

CONSTANTS
    Grants,     \* sets of scopes that the roles of the visitor can add up to
    Citations,  \* sets of numbers that a body can cite
    PostLimit,  \* model.ThreadPostLimit
    NULL

Scopes == {"lock", "unpublish_thread", "unpublish_post"}

Numbers == 1..PostLimit
People == {"visitor", "other"}

\* What can change under a page: the session of the visitor, its roles, the lock, the
\* posts, one of them becoming unpublished, the thread becoming unpublished.
Changes == {"account", "role", "lock", "posts", "post", "thread"}

VARIABLES
    thread,   \* the row of the thread
    posts,    \* its posts by number
    scopes,   \* what the roles of the visitor allow
    left,     \* people who have withdrawn
    signedIn, \* the session of the visitor resolves
    request,  \* the request of the visitor that is in flight, or NULL
    page      \* what the browser of the visitor shows

vars == <<thread, posts, scopes, left, signedIn, request, page>>
world == <<thread, posts, scopes, left, signedIn>>

Offer(route, number) == [route |-> route, number |-> number]

Confirmations == {"new_lock", "new_thread_unpublication", "new_post_unpublication"}
Moderations == {"lock", "unlock", "unpublish_thread", "unpublish_post"}
Offers == [route : {"show", "reply", "new_thread", "sign_in"}
                      \union Confirmations \union Moderations,
           number : 0..PostLimit]

Post == [author : People, cites : Citations, unpublished : BOOLEAN]
Rows == {rows \in Seq(Post) : Len(rows) \in 0..PostLimit}
ShownPost == [hidden : BOOLEAN, author : People \union {NULL},
              links : SUBSET Numbers, replies : SUBSET Numbers]

Reasons == {"locked_by_moderator", "post_limit_reached"}
ThreadRow == [locked : BOOLEAN, unpublished : BOOLEAN]

\* A request, with what its handler has read so far.
Stages == {"arrived", "resolved", "found", "listed", "referenced", "authored", "allowed", "refused"}
Request == [offer : Offers, stage : Stages, offered : SUBSET Changes, changes : SUBSET Changes,
            before : [count : Numbers, left : SUBSET People, hidden : SUBSET Numbers],
            signedIn : BOOLEAN, thread : ThreadRow \union {NULL}, posts : Rows,
            cited : [Numbers -> SUBSET Numbers], authors : SUBSET People,
            reasons : SUBSET Reasons]

Page == [view : {"nothing", "unpublished", "not_found", "forbidden", "sign_in", "thread", "retry",
                 "board", "error"} \union Confirmations,
         offers : SUBSET Offers, reasons : SUBSET Reasons, draft : BOOLEAN,
         changes : SUBSET Changes]

ASSUME ThreadPagesAssumption ==
    /\ PostLimit \in Nat \ {0}
    /\ Grants \subseteq SUBSET Scopes
    /\ {} \in Citations /\ Citations \subseteq SUBSET Numbers
    /\ NULL \notin People \union ThreadRow \union Request

TypeOK ==
    /\ thread \in ThreadRow
    /\ posts \in Rows /\ Len(posts) # 0
    /\ scopes \in Grants
    /\ left \subseteq People
    /\ signedIn \in BOOLEAN
    /\ request \in Request \union {NULL}
    /\ page \in Page

Nothing == [view |-> "nothing", offers |-> {}, reasons |-> {}, draft |-> FALSE,
            changes |-> {}]

Init ==
    /\ thread = [locked |-> FALSE, unpublished |-> FALSE]
    /\ posts = <<[author |-> "other", cites |-> {}, unpublished |-> FALSE]>>
    /\ scopes \in Grants
    /\ left = {}
    /\ signedIn \in BOOLEAN
    /\ request = NULL
    /\ page = Nothing

-----------------------------------------------------------------------------
\* The browser and the others.

\* What a page must not show is what was gone when its request arrived.
Before(rows) == [count |-> Len(rows), left |-> left,
                 hidden |-> {k \in DOMAIN rows : rows[k].unpublished}]

Arriving(offer, offered) ==
    [offer |-> offer, stage |-> "arrived", offered |-> offered, changes |-> {},
     before |-> Before(posts), signedIn |-> FALSE, thread |-> NULL, posts |-> <<>>,
     cited |-> [k \in Numbers |-> {}], authors |-> {}, reasons |-> {}]

\* The address of the thread is typed, or a link elsewhere leads to it.
Open ==
    /\ request = NULL
    /\ request' = Arriving(Offer("show", 0), Changes)
    /\ page' = Nothing
    /\ UNCHANGED world

\* What the page offers is taken up.  Signing in and opening another thread lead elsewhere.
TakeUp ==
    /\ request = NULL
    /\ \E offer \in page.offers :
        /\ offer.route \notin {"new_thread", "sign_in"}
        /\ request' = Arriving(offer, page.changes)
    /\ page' = Nothing
    /\ UNCHANGED world

Changed(kind) ==
    /\ page' = IF page.offers = {} THEN page ELSE [page EXCEPT !.changes = @ \union {kind}]
    /\ request' = IF request = NULL THEN NULL
                  ELSE [request EXCEPT !.changes = @ \union {kind},
                                       !.offered = @ \union {kind}]

Closed(row, count) ==
    (IF row.locked THEN {"locked_by_moderator"} ELSE {})
        \union (IF count >= PostLimit THEN {"post_limit_reached"} ELSE {})

OtherPosts ==
    /\ ~thread.unpublished
    /\ Closed(thread, Len(posts)) = {}
    /\ "other" \notin left
    /\ \E cites \in Citations :
        posts' = Append(posts, [author |-> "other", cites |-> cites, unpublished |-> FALSE])
    /\ Changed("posts")
    /\ UNCHANGED <<thread, scopes, left, signedIn>>

OtherLocks ==
    /\ ~thread.unpublished
    /\ thread' = [thread EXCEPT !.locked = ~@]
    /\ Changed("lock")
    /\ UNCHANGED <<posts, scopes, left, signedIn>>

OtherUnpublishes ==
    /\ ~thread.unpublished
    /\ \/ /\ thread' = [thread EXCEPT !.unpublished = TRUE]
          /\ Changed("thread")
          /\ UNCHANGED posts
       \/ /\ \E k \in DOMAIN posts :
                /\ ~posts[k].unpublished
                /\ posts' = [posts EXCEPT ![k].unpublished = TRUE]
          /\ Changed("post")
          /\ UNCHANGED thread
    /\ UNCHANGED <<scopes, left, signedIn>>

OtherLeaves ==
    /\ "other" \notin left
    /\ left' = left \union {"other"}
    /\ UNCHANGED <<thread, posts, scopes, signedIn, request, page>>

\* The visitor withdraws by another device; its sessions go with it.
VisitorLeaves ==
    /\ "visitor" \notin left
    /\ left' = left \union {"visitor"}
    /\ signedIn' = FALSE
    /\ Changed("account")
    /\ UNCHANGED <<thread, posts, scopes>>

ChangeRoles ==
    /\ scopes' \in Grants \ {scopes}
    /\ Changed("role")
    /\ UNCHANGED <<thread, posts, left, signedIn>>

-----------------------------------------------------------------------------
\* Reading the page of the thread.

At(route, stage) == request # NULL /\ request.offer.route = route /\ request.stage = stage

Reads(fields) == request' = fields /\ UNCHANGED <<world, page>>

Answer(view, offers, reasons, draft, changes) ==
    /\ request' = NULL
    /\ page' = [view |-> view, offers |-> offers, reasons |-> reasons, draft |-> draft,
                changes |-> changes]
    /\ UNCHANGED world

Say(view) == Answer(view, {}, {}, FALSE, {})
SayUnpublished == Say("unpublished")
SayNotFound == Say("not_found")
SayForbidden == Say("forbidden")

\* SetUser.
ResolveVisitor ==
    /\ At("show", "arrived")
    /\ Reads([request EXCEPT !.stage = "resolved", !.signedIn = signedIn])

FindThread ==
    /\ At("show", "resolved")
    /\ \/ thread.unpublished /\ SayUnpublished
       \/ ~thread.unpublished
          /\ Reads([request EXCEPT !.stage = "found", !.thread = thread,
                                   !.reasons = Closed(thread, Len(posts))])

ListPosts ==
    /\ At("show", "found")
    /\ Reads([request EXCEPT !.stage = "listed", !.posts = posts])

\* The rows of post_references that cite k: a body cites whatever it likes, and a row is
\* kept for what came before it.
CitedBy(k) == {j \in DOMAIN posts : j > k /\ k \in posts[j].cites}

ListReferences ==
    /\ At("show", "listed")
    /\ Reads([request EXCEPT !.stage = "referenced",
                             !.cited = [k \in Numbers |-> IF k \in DOMAIN request.posts
                                                          THEN CitedBy(k) ELSE {}]])

\* Accounts that have withdrawn are not among them.
ListAuthors ==
    /\ At("show", "referenced")
    /\ Reads([request EXCEPT !.stage = "authored",
                !.authors = {request.posts[k].author : k \in DOMAIN request.posts} \ left])

\* Mutant: a number that is cited is linked wherever the citing post is.
RepliesAnywhere(k) == request.cited[k]

\* assembleThreadPosts leaves out replies that are not on the page.
Replies(k) == request.cited[k] \intersect DOMAIN request.posts

\* Mutant: a post that was unpublished is shown to whoever may unpublish.
IsHiddenToSome(k) == request.posts[k].unpublished /\ "unpublish_post" \notin scopes

IsHidden(k) == request.posts[k].unpublished

HiddenPost == [hidden |-> TRUE, author |-> NULL, links |-> {}, replies |-> {}]

\* Who left is not told from who was purged.
AuthorOf(k) == IF request.posts[k].author \in request.authors THEN request.posts[k].author ELSE NULL

\* A number that no post on the page has stays text.
LinksOf(k) == request.posts[k].cites \intersect DOMAIN request.posts

\* showPosts: an unpublished post keeps its number and nothing else.
ShowPosts ==
    [k \in DOMAIN request.posts |->
        IF IsHidden(k)
        THEN HiddenPost
        ELSE [hidden |-> FALSE, author |-> AuthorOf(k), links |-> LinksOf(k),
              replies |-> Replies(k)]]

\* Mutant: the form to reply does not look at the lock.
ReplyFormAlways == IF request.signedIn THEN {Offer("reply", 0)} ELSE {Offer("sign_in", 0)}

ReplyForm == IF request.reasons # {} THEN {}
             ELSE IF request.signedIn THEN {Offer("reply", 0)} ELSE {Offer("sign_in", 0)}

\* ThreadLockNotice: a new thread is the way on only if the limit is all that closes this one.
LockNotice == IF request.reasons = {"post_limit_reached"} THEN {Offer("new_thread", 0)} ELSE {}

\* The lock is taken off from the page itself and put on by way of a confirmation.
LockLink == IF "lock" \notin scopes THEN {}
            ELSE IF request.thread.locked THEN {Offer("unlock", 0)} ELSE {Offer("new_lock", 0)}

ThreadUnpublicationLink ==
    IF "unpublish_thread" \in scopes THEN {Offer("new_thread_unpublication", 0)} ELSE {}

PostUnpublicationLinks ==
    IF "unpublish_post" \notin scopes THEN {}
    ELSE {Offer("new_post_unpublication", k) : k \in {i \in DOMAIN request.posts : ~IsHidden(i)}}

ShowModeration == IF request.signedIn
                  THEN LockLink \union ThreadUnpublicationLink \union PostUnpublicationLinks
                  ELSE {}

\* The roles are read last.
ShowThread ==
    /\ At("show", "authored")
    /\ Answer("thread", ReplyForm \union LockNotice \union ShowModeration,
              request.reasons, FALSE, request.changes)

-----------------------------------------------------------------------------
\* Confirmations and what they confirm.

\* RequireAuth.
ResolveMember ==
    /\ request # NULL
    /\ request.offer.route # "show"
    /\ request.stage = "arrived"
    /\ \/ ~signedIn /\ Say("sign_in")
       \/ signedIn /\ Reads([request EXCEPT !.stage = "resolved", !.signedIn = TRUE])

Allows(route) ==
    CASE route \in Confirmations -> scopes # {}
      [] route \in {"lock", "unlock"} -> "lock" \in scopes
      [] route = "unpublish_thread" -> "unpublish_thread" \in scopes
      [] route = "unpublish_post" -> "unpublish_post" \in scopes

Moderating(route, stage) == route \in Confirmations \union Moderations /\ At(route, stage)

\* resolveCommunityPolicy, outside of the transaction.
ResolvePolicy ==
    \E route \in Confirmations \union Moderations :
        /\ Moderating(route, "resolved")
        /\ \/ ~Allows(route) /\ SayForbidden
           \/ Allows(route) /\ Reads([request EXCEPT !.stage = "allowed"])

Confirmed(route) ==
    CASE route = "new_lock" -> "lock"
      [] route = "new_thread_unpublication" -> "unpublish_thread"
      [] route = "new_post_unpublication" -> "unpublish_post"

\* A confirmation leads to what it confirms, and back to the thread.
NewLock == {Offer("lock", 0), Offer("show", 0)}
NewThreadUnpublication == {Offer("unpublish_thread", 0), Offer("show", 0)}
NewPostUnpublication == {Offer("unpublish_post", request.offer.number), Offer("show", 0)}

\* Whoever may do any of the three sees it, so what it offers is as old as the page of the
\* thread.
ConfirmationPage(route) ==
    Answer(route,
           CASE route = "new_lock" -> NewLock
             [] route = "new_thread_unpublication" -> NewThreadUnpublication
             [] route = "new_post_unpublication" -> NewPostUnpublication,
           {}, FALSE, request.offered)

PostIsGone ==
    /\ request.offer.route = "new_post_unpublication"
    /\ posts[request.offer.number].unpublished

\* GetThreadModeration reads the thread, then the post.
FindModerated ==
    \E route \in Confirmations :
        /\ Moderating(route, "allowed")
        /\ \/ thread.unpublished /\ SayUnpublished
           \/ ~thread.unpublished /\ PostIsGone /\ SayNotFound
           \/ ~thread.unpublished /\ ~PostIsGone /\ ConfirmationPage(route)

\* The reason is missing or too long: the confirmation is shown again, from rows read anew.
RefuseReason ==
    \E route \in Confirmations :
        /\ At(Confirmed(route), "allowed")
        /\ Reads([request EXCEPT !.stage = "resolved", !.offer.route = route])

\* The redirect back to a thread that now has the posts "rows".
SeeThread(rows) ==
    request' = [Arriving(Offer("show", 0), request.changes) EXCEPT !.before = Before(rows)]

\* Locking what is locked and unlocking what is open change nothing and succeed.
SetLock ==
    \E route \in {"lock", "unlock"} :
        /\ At(route, "allowed")
        /\ \/ thread.unpublished /\ SayUnpublished
           \/ /\ ~thread.unpublished
              /\ thread' = [thread EXCEPT !.locked = (route = "lock")]
              /\ SeeThread(posts)
              /\ UNCHANGED <<posts, scopes, left, signedIn, page>>

\* The thread is not there to come back to: the board is shown.
UnpublishThread ==
    /\ At("unpublish_thread", "allowed")
    /\ thread' = [thread EXCEPT !.unpublished = TRUE]
    /\ request' = NULL
    /\ page' = [Nothing EXCEPT !.view = "board"]
    /\ UNCHANGED <<posts, scopes, left, signedIn>>

\* Unpublishing what is unpublished changes nothing and succeeds.
UnpublishPost ==
    /\ At("unpublish_post", "allowed")
    /\ \/ thread.unpublished /\ SayUnpublished
       \/ /\ ~thread.unpublished
          /\ posts' = [posts EXCEPT ![request.offer.number].unpublished = TRUE]
          /\ SeeThread(posts')
          /\ UNCHANGED <<thread, scopes, left, signedIn, page>>

-----------------------------------------------------------------------------
\* Replies.

Refuse(reasons) == Reads([request EXCEPT !.stage = "refused", !.reasons = reasons])

\* The checks of createPost in their order, within its transaction.
Reply ==
    /\ At("reply", "resolved")
    /\ \/ /\ thread.unpublished
          /\ SayUnpublished
       \/ /\ ~thread.unpublished
          /\ "visitor" \notin left
          /\ Closed(thread, Len(posts)) # {}
          /\ Refuse(Closed(thread, Len(posts)))
       \/ /\ ~thread.unpublished
          /\ "visitor" \notin left
          /\ Closed(thread, Len(posts)) = {}
          /\ \E cites \in Citations :
                posts' = Append(posts,
                            [author |-> "visitor", cites |-> cites, unpublished |-> FALSE])
          /\ SeeThread(posts')
          /\ UNCHANGED <<thread, scopes, left, signedIn, page>>

\* The text is empty or too long, the account has left or has just posted, or the database
\* fails: none of them closes the thread.
RefuseReply ==
    /\ At("reply", "resolved")
    /\ Refuse({})

\* Mutant: a closed thread is answered without the text.
KeepsDraftWhileOpen == request.reasons = {}

\* Both the form and the notice of a closed thread carry the text that was written.
KeepsDraft == TRUE

\* The form to try once more stands by the refusal it follows: it does not look at the lock
\* again.
RetryForm == IF request.reasons = {} THEN {Offer("reply", 0)} ELSE {}

\* renderRefused reads the thread again: the form, or the text and the reason if the thread is
\* closed.
RetryPage ==
    /\ At("reply", "refused")
    /\ \/ thread.unpublished /\ SayUnpublished
       \/ /\ ~thread.unpublished
          /\ Answer("retry",
                    {Offer("show", 0)} \union RetryForm,
                    request.reasons, KeepsDraft, request.offered)

\* The database cannot be reached.
Fail == request # NULL /\ Say("error")

Visitor ==
    \/ Open \/ TakeUp
    \/ ResolveVisitor \/ FindThread \/ ListPosts \/ ListReferences \/ ListAuthors \/ ShowThread
    \/ ResolveMember \/ ResolvePolicy \/ FindModerated \/ RefuseReason
    \/ SetLock \/ UnpublishThread \/ UnpublishPost
    \/ Reply \/ RefuseReply \/ RetryPage \/ Fail

Others == OtherPosts \/ OtherLocks \/ OtherUnpublishes \/ OtherLeaves
              \/ VisitorLeaves \/ ChangeRoles

Next == Visitor \/ Others

Spec == Init /\ [][Next]_vars

-----------------------------------------------------------------------------
\* What a page offers is refused only for what has changed since its request arrived: the
\* conditions of the templates are those of the use cases, and the reads of a page do not
\* hide a change from each other (thread/show.templ, GetThread, GetThreadModeration, the
\* moderating use cases, CreatePost).
OffersAreHonoured ==
    [][(request # NULL /\ request' = NULL) =>
          /\ page'.view = "sign_in" => "account" \in request.offered
          /\ page'.view = "forbidden" => "role" \in request.offered
          /\ page'.view = "unpublished" => "thread" \in request.offered
          /\ page'.view = "not_found" => "post" \in request.offered
          /\ (page'.view = "retry" /\ page'.reasons # {}) =>
                 request.offered \intersect {"lock", "posts"} # {}]_vars

\* A page that is composed from several moments omits what was hidden or had left before
\* the first of them, and shows every post there was (GetThread, showPosts).
PagesOmitWhatWasGone ==
    At("show", "authored") =>
        /\ Len(ShowPosts) >= request.before.count
        /\ \A k \in DOMAIN ShowPosts :
            /\ ShowPosts[k] \in ShownPost
            /\ k \in request.before.hidden => ShowPosts[k].hidden
            /\ ShowPosts[k].author \notin request.before.left

\* Whatever arrived between the reads of a page, each of its links leads to a post on it, and
\* a post lists another as a reply just when the other, if it is published, links back to it
\* (assembleThreadPosts, NewPostBody).
RepliesMirrorLinks ==
    At("show", "authored") =>
        LET on == DOMAIN ShowPosts IN
        \A k \in on :
            /\ ShowPosts[k].links \union ShowPosts[k].replies \subseteq on
            /\ \A j \in on :
                (k < j /\ ~ShowPosts[k].hidden /\ ~ShowPosts[j].hidden) =>
                    (j \in ShowPosts[k].replies <=> k \in ShowPosts[j].links)

\* However a reply is refused, and whatever happens while its answer is composed, the text
\* comes back, unless the thread has gone, the visitor is signed out or the database fails
\* (handler/post/create.go).
TextIsNeverLost ==
    [][(request # NULL /\ request.offer.route = "reply" /\ request' = NULL) =>
          \/ page'.draft
          \/ page'.view = "unpublished" /\ thread.unpublished
          \/ page'.view = "sign_in" /\ ~signedIn
          \/ page'.view = "error"]_vars
=============================================================================
