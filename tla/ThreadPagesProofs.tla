------------------------- MODULE ThreadPagesProofs -------------------------
(***************************************************************************)
(* Proofs about the page of a thread: its types, what it omits, how its    *)
(* links and replies fit, that its offers are honoured and that the text   *)
(* of a reply comes back.                                                  *)
(***************************************************************************)
EXTENDS ThreadPages, SequenceTheorems, TLAPS

-----------------------------------------------------------------------------
(* Types *)

LEMMA NothingIsAPage == Nothing \in Page
    BY DEF Nothing, Page

LEMMA RequestIsNotNull == NULL \notin Request /\ NULL \notin ThreadRow /\ NULL \notin People
    BY ThreadPagesAssumption

\* What a step of others leaves of a request and a page.
LEMMA ChangedRows ==
    ASSUME request \in Request \union {NULL}, page \in Page, NEW kind \in Changes, Changed(kind)
    PROVE  request' \in Request \union {NULL} /\ page' \in Page
<1>1. page' \in Page
  <2>1. [page EXCEPT !.changes = @ \union {kind}] \in Page
      BY DEF Page
  <2> QED
      BY <2>1 DEF Changed
<1>2. request' \in Request \union {NULL}
  <2>1. CASE request = NULL
      BY <2>1 DEF Changed
  <2>2. CASE request # NULL
    <3>1. request \in Request
        BY <2>2
    <3>2. [request EXCEPT !.changes = @ \union {kind}, !.offered = @ \union {kind}] \in Request
        BY <3>1 DEF Request
    <3> QED
        BY <2>2, <3>2 DEF Changed
  <2> QED
      BY <2>1, <2>2
<1> QED
    BY <1>1, <1>2

\* The rows of posts, by number.
LEMMA PostRows ==
    ASSUME TypeOK
    PROVE  /\ DOMAIN posts = 1..Len(posts)
           /\ Len(posts) \in Nat /\ Len(posts) >= 1 /\ Len(posts) <= PostLimit /\ PostLimit \in Nat
           /\ DOMAIN posts \subseteq Numbers
           /\ posts \in Seq(Post) /\ Len(posts) \in Numbers
           /\ \A k \in DOMAIN posts : posts[k] \in Post
<1>1. posts \in Seq(Post) /\ Len(posts) \in 0..PostLimit /\ Len(posts) # 0 /\ PostLimit \in Nat
    BY ThreadPagesAssumption DEF TypeOK, Rows
<1>2. DOMAIN posts = 1..Len(posts) /\ \A k \in 1..Len(posts) : posts[k] \in Post
    BY <1>1, LenProperties, ElementOfSeq
<1> QED
    BY <1>1, <1>2 DEF Numbers

\* One more post.
LEMMA PostAppended ==
    ASSUME TypeOK, NEW author \in People, NEW cites \in Citations,
           Closed(thread, Len(posts)) = {},
           posts' = Append(posts, [author |-> author, cites |-> cites, unpublished |-> FALSE])
    PROVE  /\ posts' \in Rows
           /\ Len(posts') = Len(posts) + 1 /\ Len(posts') \in Numbers
           /\ \A k \in DOMAIN posts : posts'[k] = posts[k]
<1>1. PICK row : row = [author |-> author, cites |-> cites, unpublished |-> FALSE]
    OBVIOUS
<1>2. row \in Post
    BY <1>1, ThreadPagesAssumption DEF Post
<1>3. posts' = Append(posts, row)
    BY <1>1
<1>4. posts \in Seq(Post)
    BY PostRows
<1>5. /\ Append(posts, row) \in Seq(Post)
      /\ Len(Append(posts, row)) = Len(posts) + 1
      /\ \A i \in 1..Len(posts) : Append(posts, row)[i] = posts[i]
    BY <1>2, <1>4, AppendProperties
<1>6. ~(Len(posts) >= PostLimit)
    BY DEF Closed
<1>7. Len(posts) + 1 \in Numbers
    BY <1>6, PostRows DEF Numbers
<1> QED
    BY <1>3, <1>5, <1>7, PostRows DEF Rows, Numbers

\* One post is hidden.
LEMMA PostHidden ==
    ASSUME TypeOK, NEW k, posts' = [posts EXCEPT ![k].unpublished = TRUE]
    PROVE  /\ posts' \in Rows
           /\ Len(posts') = Len(posts)
           /\ \A j \in DOMAIN posts :
                /\ posts'[j].cites = posts[j].cites
                /\ posts'[j].author = posts[j].author
                /\ posts'[j].unpublished = (posts[j].unpublished \/ j = k)
<1>0. posts \in Seq(Post) /\ posts \in Rows
    BY PostRows DEF TypeOK
<1>1. CASE k \in DOMAIN posts
  <2>1. PICK row : row = [posts[k] EXCEPT !.unpublished = TRUE]
      OBVIOUS
  <2>2. /\ row \in Post /\ row.cites = posts[k].cites /\ row.author = posts[k].author
        /\ row.unpublished = TRUE
      BY <1>1, <2>1, PostRows DEF Post
  <2>3. posts' = [posts EXCEPT ![k] = row]
      BY <2>1
  <2>4. /\ [posts EXCEPT ![k] = row] \in Seq(Post)
        /\ Len([posts EXCEPT ![k] = row]) = Len(posts)
      BY <1>0, <1>1, <2>2, PostRows, ExceptSeq
  <2>5. \A j \in DOMAIN posts : posts'[j] = IF j = k THEN row ELSE posts[j]
      BY <2>3
  <2>6. ASSUME NEW j \in DOMAIN posts
        PROVE  /\ posts'[j].cites = posts[j].cites
               /\ posts'[j].author = posts[j].author
               /\ posts'[j].unpublished = (posts[j].unpublished \/ j = k)
    <3>1. CASE j = k
      <4>1. posts'[j] = row
          BY <2>5, <3>1
      <4> QED
          BY <2>2, <3>1, <4>1, Zenon
    <3>2. CASE j # k
      <4>1. posts'[j] = posts[j] /\ posts[j].unpublished \in BOOLEAN
          BY <2>5, <3>2, PostRows DEF Post
      <4> QED
          BY <3>2, <4>1, Zenon
    <3> QED
        BY <3>1, <3>2
  <2> QED
      BY <1>0, <2>3, <2>4, <2>6 DEF Rows
<1>2. CASE k \notin DOMAIN posts
  <2>1. posts' = posts
      BY <1>0, <1>2
  <2>2. \A j \in DOMAIN posts : posts[j].unpublished \in BOOLEAN /\ j # k
      BY <1>2, PostRows DEF Post
  <2> QED
      BY <1>0, <2>1, <2>2, Zenon
<1> QED
    BY <1>1, <1>2

LEMMA BeforeRows ==
    ASSUME NEW rows \in Seq(Post), Len(rows) \in Numbers, left \subseteq People
    PROVE  /\ Before(rows) \in [count : Numbers, left : SUBSET People, hidden : SUBSET Numbers]
           /\ Before(rows).count = Len(rows) /\ Before(rows).left = left
           /\ Before(rows).hidden = {k \in DOMAIN rows : rows[k].unpublished}
<1>1. DOMAIN rows = 1..Len(rows) /\ Len(rows) \in 1..PostLimit /\ PostLimit \in Nat
    BY LenProperties, ThreadPagesAssumption DEF Numbers
<1>2. DOMAIN rows \subseteq Numbers
    BY <1>1 DEF Numbers
<1> QED
    BY <1>2 DEF Before

\* A request as it arrives, at rows as they are then.
LEMMA ArrivingRows ==
    ASSUME TypeOK, NEW offer \in Offers, NEW offered \in SUBSET Changes, NEW rows \in Seq(Post),
           Len(rows) \in Numbers
    PROVE  /\ [Arriving(offer, offered) EXCEPT !.before = Before(rows)] \in Request
           /\ Arriving(offer, offered) \in Request
<1>1. left \subseteq People /\ posts \in Seq(Post) /\ Len(posts) \in Numbers
    BY PostRows DEF TypeOK
<1>2. /\ Before(rows) \in [count : Numbers, left : SUBSET People, hidden : SUBSET Numbers]
      /\ Before(posts) \in [count : Numbers, left : SUBSET People, hidden : SUBSET Numbers]
    BY <1>1, BeforeRows
<1>3. <<>> \in Rows /\ [k \in Numbers |-> {}] \in [Numbers -> SUBSET Numbers]
    BY EmptySeq, ThreadPagesAssumption DEF Rows
<1>4. Arriving(offer, offered) \in Request
    BY <1>2, <1>3 DEF Arriving, Request, Stages
<1>5. PICK q \in Request : q = Arriving(offer, offered)
    BY <1>4
<1>6. [q EXCEPT !.before = Before(rows)] \in Request
    BY <1>2 DEF Request
<1> QED
    BY <1>4, <1>5, <1>6

-----------------------------------------------------------------------------
(* What the steps do to a request *)

\* A handler goes on, and nothing changes but what it holds.
Advances(stage) ==
    /\ request \in Request /\ request' \in Request
    /\ request'.stage = stage
    /\ request'.offered = request.offered /\ request'.changes = request.changes
    /\ request'.before = request.before
    /\ UNCHANGED <<world, page>>

\* It ends with a page.
Ends == request \in Request /\ request' = NULL /\ page' \in Page /\ UNCHANGED world

\* It ends with a page that offers nothing.
Says(view) == Ends /\ page'.view = view /\ page'.offers = {}

LEMMA Sayings ==
    ASSUME TypeOK, request # NULL, NEW view,
           view \in {"unpublished", "not_found", "forbidden", "sign_in", "error"}, Say(view)
    PROVE  Says(view)
<1>1. [view |-> view, offers |-> {}, reasons |-> {}, draft |-> FALSE, changes |-> {}] \in Page
    BY DEF Page
<1>2. request \in Request
    BY DEF TypeOK
<1> QED
    BY <1>1, <1>2 DEF Says, Ends, Say, Answer

LEMMA Advancing ==
    ASSUME TypeOK, request # NULL
    PROVE  /\ request \in Request
           /\ request.offer \in Offers /\ request.stage \in Stages
           /\ request.offered \subseteq Changes /\ request.changes \subseteq Changes
           /\ request.posts \in Rows /\ request.reasons \subseteq Reasons
           /\ request.thread \in ThreadRow \union {NULL}
    BY DEF TypeOK, Request

LEMMA VisitorResolved ==
    ASSUME TypeOK, ResolveVisitor
    PROVE  /\ Advances("resolved") /\ request'.offer = request.offer
           /\ request'.signedIn = signedIn
<1>1. request \in Request /\ signedIn \in BOOLEAN
    BY Advancing DEF ResolveVisitor, At, TypeOK
<1>2. [request EXCEPT !.stage = "resolved", !.signedIn = signedIn] \in Request
    BY <1>1 DEF Request, Stages
<1>3. request' = [request EXCEPT !.stage = "resolved", !.signedIn = signedIn]
      /\ UNCHANGED <<world, page>>
    BY DEF ResolveVisitor, Reads
<1> QED
    BY <1>1, <1>2, <1>3 DEF Advances, Request

LEMMA ClosedReasons == \A row, count : Closed(row, count) \subseteq Reasons
    BY DEF Closed, Reasons

LEMMA ThreadFound ==
    ASSUME TypeOK, FindThread
    PROVE  \/ Says("unpublished") /\ thread.unpublished
           \/ /\ Advances("found") /\ request'.offer = request.offer
              /\ ~thread.unpublished
              /\ request'.signedIn = request.signedIn /\ request'.thread = thread
              /\ request'.reasons = Closed(thread, Len(posts))
<1>1. request \in Request /\ thread \in ThreadRow /\ request # NULL
    BY Advancing DEF FindThread, At, TypeOK
<1>2. CASE thread.unpublished /\ SayUnpublished
    BY <1>1, <1>2, Sayings DEF SayUnpublished
<1>3. CASE /\ ~thread.unpublished
           /\ Reads([request EXCEPT !.stage = "found", !.thread = thread,
                                    !.reasons = Closed(thread, Len(posts))])
  <2>1. PICK reasons \in SUBSET Reasons : reasons = Closed(thread, Len(posts))
      BY ClosedReasons
  <2>2. request' = [request EXCEPT !.stage = "found", !.thread = thread, !.reasons = reasons]
      BY <1>3, <2>1 DEF Reads
  <2>3. [request EXCEPT !.stage = "found", !.thread = thread, !.reasons = reasons] \in Request
      BY <1>1 DEF Request, Stages
  <2> QED
      BY <1>1, <1>3, <2>1, <2>2, <2>3 DEF Advances, Request, Reads
<1> QED
    BY <1>2, <1>3 DEF FindThread

LEMMA PostsListed ==
    ASSUME TypeOK, ListPosts
    PROVE  /\ Advances("listed") /\ request'.offer = request.offer
           /\ request'.signedIn = request.signedIn /\ request'.thread = request.thread
           /\ request'.reasons = request.reasons
           /\ request'.posts = posts
<1>1. request \in Request /\ posts \in Rows
    BY Advancing DEF ListPosts, At, TypeOK
<1>2. [request EXCEPT !.stage = "listed", !.posts = posts] \in Request
    BY <1>1 DEF Request, Stages
<1>3. request' = [request EXCEPT !.stage = "listed", !.posts = posts]
    BY DEF ListPosts, Reads
<1> QED
    BY <1>1, <1>2, <1>3 DEF Advances, Request, ListPosts, Reads

LEMMA ReferencesListed ==
    ASSUME TypeOK, ListReferences
    PROVE  /\ Advances("referenced") /\ request'.offer = request.offer
           /\ request'.signedIn = request.signedIn /\ request'.thread = request.thread
           /\ request'.reasons = request.reasons
           /\ request'.posts = request.posts
           /\ \A k \in DOMAIN request.posts \intersect Numbers : request'.cited[k] = CitedBy(k)
<1> DEFINE cited == [k \in Numbers |-> IF k \in DOMAIN request.posts THEN CitedBy(k) ELSE {}]
<1>1. request \in Request
    BY Advancing DEF ListReferences, At
<1>2. cited \in [Numbers -> SUBSET Numbers]
    BY PostRows DEF CitedBy
<1>3. PICK c \in [Numbers -> SUBSET Numbers] : c = cited
    BY <1>2
<1>4. [request EXCEPT !.stage = "referenced", !.cited = c] \in Request
    BY <1>1 DEF Request, Stages
<1>5. request' = [request EXCEPT !.stage = "referenced", !.cited = c] /\ UNCHANGED <<world, page>>
    BY <1>3 DEF ListReferences, Reads
<1>6. \A k \in DOMAIN request.posts \intersect Numbers : c[k] = CitedBy(k)
    BY <1>3
<1> HIDE DEF cited
<1> QED
    BY <1>1, <1>4, <1>5, <1>6 DEF Advances, Request

LEMMA AuthorsListed ==
    ASSUME TypeOK, ListAuthors
    PROVE  /\ Advances("authored") /\ request'.offer = request.offer
           /\ request'.signedIn = request.signedIn /\ request'.thread = request.thread
           /\ request'.reasons = request.reasons
           /\ request'.posts = request.posts /\ request'.cited = request.cited
           /\ request'.authors \intersect left = {}
<1>1. request \in Request
    BY Advancing DEF ListAuthors, At
<1>2. PICK authors :
          authors = {request.posts[k].author : k \in DOMAIN request.posts} \ left
    OBVIOUS
<1>3. request.posts \in Seq(Post)
    BY <1>1 DEF Request, Rows
<1>4. \A k \in DOMAIN request.posts : request.posts[k] \in Post
    BY <1>3, ElementOfSeq, LenProperties
<1>5. authors \in SUBSET People
    BY <1>2, <1>4 DEF Post
<1>6. [request EXCEPT !.stage = "authored", !.authors = authors] \in Request
    BY <1>1, <1>5 DEF Request, Stages
<1>7. request' = [request EXCEPT !.stage = "authored", !.authors = authors]
      /\ UNCHANGED <<world, page>>
    BY <1>2 DEF ListAuthors, Reads
<1>8. authors \intersect left = {}
    BY <1>2
<1> QED
    BY <1>1, <1>6, <1>7, <1>8 DEF Advances, Request

\* What a confirmation page offers.
Confirmable(route) ==
    CASE route = "new_lock" -> NewLock
      [] route = "new_thread_unpublication" -> NewThreadUnpublication
      [] route = "new_post_unpublication" -> NewPostUnpublication

LEMMA MemberResolved ==
    ASSUME TypeOK, ResolveMember
    PROVE  /\ request \in Request /\ request.offer.route # "show" /\ request.stage = "arrived"
           /\ \/ Says("sign_in") /\ ~signedIn
              \/ Advances("resolved") /\ request'.offer = request.offer /\ signedIn
<1>1. request \in Request /\ request # NULL
    BY Advancing DEF ResolveMember
<1>2. CASE ~signedIn /\ Say("sign_in")
    BY <1>1, <1>2, Sayings DEF ResolveMember
<1>3. CASE signedIn /\ Reads([request EXCEPT !.stage = "resolved", !.signedIn = TRUE])
  <2>1. [request EXCEPT !.stage = "resolved", !.signedIn = TRUE] \in Request
      BY <1>1 DEF Request, Stages
  <2>2. request' = [request EXCEPT !.stage = "resolved", !.signedIn = TRUE]
        /\ UNCHANGED <<world, page>>
      BY <1>3 DEF Reads
  <2>3. Advances("resolved") /\ request'.offer = request.offer
      BY <1>1, <2>1, <2>2 DEF Advances, Request
  <2> QED
      BY <1>1, <1>3, <2>3 DEF ResolveMember
<1> QED
    BY <1>2, <1>3 DEF ResolveMember

LEMMA PolicyResolved ==
    ASSUME TypeOK, ResolvePolicy
    PROVE  \E route \in Confirmations \union Moderations :
               /\ At(route, "resolved")
               /\ \/ Says("forbidden") /\ ~Allows(route)
                  \/ Advances("allowed") /\ request'.offer = request.offer /\ Allows(route)
<1>1. PICK route \in Confirmations \union Moderations :
          /\ Moderating(route, "resolved")
          /\ \/ ~Allows(route) /\ SayForbidden
             \/ Allows(route) /\ Reads([request EXCEPT !.stage = "allowed"])
    BY DEF ResolvePolicy
<1>2. At(route, "resolved") /\ request \in Request /\ request # NULL
    BY <1>1, Advancing DEF Moderating, At
<1>3. CASE ~Allows(route) /\ SayForbidden
    BY <1>2, <1>3, Sayings DEF SayForbidden
<1>4. CASE Allows(route) /\ Reads([request EXCEPT !.stage = "allowed"])
  <2>1. [request EXCEPT !.stage = "allowed"] \in Request
      BY <1>2 DEF Request, Stages
  <2>2. request' = [request EXCEPT !.stage = "allowed"] /\ UNCHANGED <<world, page>>
      BY <1>4 DEF Reads
  <2>3. Advances("allowed") /\ request'.offer = request.offer
      BY <1>2, <2>1, <2>2 DEF Advances, Request
  <2> QED
      BY <1>2, <1>4, <2>3
<1> QED
    BY <1>1, <1>3, <1>4

LEMMA OffersMade ==
    ASSUME NEW number \in 0..PostLimit,
           NEW route \in {"show", "reply", "new_thread", "sign_in"}
                             \union Confirmations \union Moderations
    PROVE  /\ Offer(route, number) \in Offers
           /\ Offer(route, number).route = route /\ Offer(route, number).number = number
    BY DEF Offer, Offers

LEMMA ZeroIsANumber == 0 \in 0..PostLimit
    BY ThreadPagesAssumption

LEMMA ModeratedFound ==
    ASSUME TypeOK, FindModerated
    PROVE  \E route \in Confirmations :
               /\ At(route, "allowed")
               /\ \/ Says("unpublished") /\ thread.unpublished
                  \/ /\ Says("not_found")
                     /\ route = "new_post_unpublication"
                     /\ posts[request.offer.number].unpublished
                  \/ /\ Ends /\ ~thread.unpublished /\ ~PostIsGone
                     /\ page'.view = route /\ page'.offers = Confirmable(route)
                     /\ page'.changes = request.offered
<1>1. PICK route \in Confirmations :
          /\ Moderating(route, "allowed")
          /\ \/ thread.unpublished /\ SayUnpublished
             \/ ~thread.unpublished /\ PostIsGone /\ SayNotFound
             \/ ~thread.unpublished /\ ~PostIsGone /\ ConfirmationPage(route)
    BY DEF FindModerated
<1>2. At(route, "allowed") /\ request \in Request /\ request # NULL
    BY <1>1, Advancing DEF Moderating, At
<1>3. CASE thread.unpublished /\ SayUnpublished
    BY <1>2, <1>3, Sayings DEF SayUnpublished
<1>4. CASE ~thread.unpublished /\ PostIsGone /\ SayNotFound
  <2>1. Says("not_found")
      BY <1>2, <1>4, Sayings DEF SayNotFound
  <2> QED
      BY <1>2, <1>4, <2>1 DEF PostIsGone, At
<1>5. CASE ~thread.unpublished /\ ~PostIsGone /\ ConfirmationPage(route)
  <2>1. /\ request.offer.number \in 0..PostLimit /\ request.offered \in SUBSET Changes
      BY <1>2 DEF Request, Offers
  <2>2. Confirmable(route) \in SUBSET Offers
      BY <2>1, OffersMade, ZeroIsANumber
         DEF Confirmable, Confirmations, NewLock, NewThreadUnpublication, NewPostUnpublication,
             Moderations
  <2>3. PICK offers \in SUBSET Offers : offers = Confirmable(route)
      BY <2>2
  <2>4. /\ request' = NULL /\ UNCHANGED world
        /\ page' = [view |-> route, offers |-> offers, reasons |-> {}, draft |-> FALSE,
                    changes |-> request.offered]
      BY <1>5, <2>3 DEF ConfirmationPage, Answer, Confirmable
  <2>5. page' \in Page
      BY <2>1, <2>4 DEF Page
  <2>6. Ends
      BY <1>2, <2>4, <2>5 DEF Ends
  <2> QED
      BY <1>2, <1>5, <2>3, <2>4, <2>6
<1> QED
    BY <1>1, <1>3, <1>4, <1>5

LEMMA ReasonRefused ==
    ASSUME TypeOK, RefuseReason
    PROVE  \E route \in Confirmations :
               /\ At(Confirmed(route), "allowed")
               /\ Advances("resolved")
               /\ request'.offer = [route |-> route, number |-> request.offer.number]
<1>1. PICK route \in Confirmations :
          /\ At(Confirmed(route), "allowed")
          /\ Reads([request EXCEPT !.stage = "resolved", !.offer.route = route])
    BY DEF RefuseReason
<1>2. request \in Request
    BY <1>1, Advancing DEF At
<1>3. PICK old \in Offers : old = request.offer
    BY <1>2 DEF Request
<1>4. [old EXCEPT !.route = route] = [route |-> route, number |-> old.number]
    BY DEF Offers
<1>5. PICK offer : offer = [old EXCEPT !.route = route]
    OBVIOUS
<1>6. offer \in Offers
    BY <1>4, <1>5 DEF Offers
<1>7. request' = [request EXCEPT !.stage = "resolved", !.offer = offer]
      /\ UNCHANGED <<world, page>>
    BY <1>1, <1>3, <1>5 DEF Reads
<1>8. [request EXCEPT !.stage = "resolved", !.offer = offer] \in Request
    BY <1>2, <1>6 DEF Request, Stages
<1>9. Advances("resolved") /\ request'.offer = offer
    BY <1>2, <1>7, <1>8 DEF Advances, Request
<1> QED
    BY <1>1, <1>3, <1>4, <1>5, <1>9

\* A request arrives from a page or an address.
Begins(offer, offered) ==
    /\ request = NULL /\ request' \in Request
    /\ request'.stage = "arrived" /\ request'.offer = offer
    /\ request'.offered = offered /\ request'.changes = {}
    /\ request'.before = Before(posts)
    /\ page' = Nothing
    /\ UNCHANGED world

\* A request that has changed something goes back to the thread.
Returns ==
    /\ request \in Request /\ request' \in Request
    /\ request'.stage = "arrived" /\ request'.offer = Offer("show", 0)
    /\ request'.offered = request.changes /\ request'.changes = {}
    /\ request'.before = Before(posts')
    /\ ~thread.unpublished /\ ~thread'.unpublished
    /\ UNCHANGED <<scopes, left, signedIn, page>>

\* The rows keep their types, and nothing that was gone comes back.
Grows ==
    /\ thread' \in ThreadRow /\ posts' \in Rows /\ Len(posts') # 0
    /\ scopes' \in Grants /\ left' \subseteq People /\ signedIn' \in BOOLEAN
    /\ Len(posts) <= Len(posts')
    /\ \A k \in DOMAIN posts : /\ k \in DOMAIN posts'
                               /\ posts'[k].cites = posts[k].cites
                               /\ posts[k].unpublished => posts'[k].unpublished
    /\ left \subseteq left'

LEMMA RestGrows == ASSUME TypeOK, UNCHANGED world PROVE Grows
    BY PostRows DEF world, Grows, TypeOK

\* Longer rows have the same numbers and more.
LEMMA PostsGrow ==
    ASSUME TypeOK, posts' \in Rows, Len(posts) <= Len(posts')
    PROVE  /\ DOMAIN posts \subseteq DOMAIN posts'
           /\ DOMAIN posts' = 1..Len(posts') /\ Len(posts') \in Nat /\ Len(posts') # 0
<1>1. posts' \in Seq(Post) /\ Len(posts') \in 0..PostLimit
    BY DEF Rows
<1>2. DOMAIN posts' = 1..Len(posts')
    BY <1>1, LenProperties
<1> QED
    BY <1>1, <1>2, PostRows

LEMMA PostsAdded ==
    ASSUME TypeOK, NEW author \in People, NEW cites \in Citations,
           Closed(thread, Len(posts)) = {},
           posts' = Append(posts, [author |-> author, cites |-> cites, unpublished |-> FALSE]),
           thread' = thread, scopes' = scopes, left' = left, signedIn' = signedIn
    PROVE  Grows /\ \A k \in DOMAIN posts : posts'[k] = posts[k]
<1>1. /\ posts' \in Rows /\ Len(posts') = Len(posts) + 1
      /\ \A k \in DOMAIN posts : posts'[k] = posts[k]
    BY PostAppended
<1>2. Len(posts) <= Len(posts') /\ Len(posts') # 0
    BY <1>1, PostRows
<1> QED
    BY <1>1, <1>2, PostsGrow DEF Grows, TypeOK

LEMMA PostsHidden ==
    ASSUME TypeOK, NEW k, posts' = [posts EXCEPT ![k].unpublished = TRUE],
           thread' = thread, scopes' = scopes, left' = left, signedIn' = signedIn
    PROVE  Grows
<1>1. /\ posts' \in Rows /\ Len(posts') = Len(posts)
      /\ \A j \in DOMAIN posts : posts'[j].cites = posts[j].cites
    BY PostHidden
<1>2. \A j \in DOMAIN posts : posts[j].unpublished => posts'[j].unpublished
  <2>1. \A j \in DOMAIN posts : posts'[j].unpublished = (posts[j].unpublished \/ j = k)
      BY PostHidden
  <2> QED
      BY <2>1, Zenon
<1>3. Len(posts) <= Len(posts') /\ Len(posts') # 0
    BY <1>1, PostRows
<1> QED
    BY <1>1, <1>2, <1>3, PostsGrow DEF Grows, TypeOK

LEMMA Opening ==
    ASSUME TypeOK, Open
    PROVE  Begins(Offer("show", 0), Changes)
<1>1. Arriving(Offer("show", 0), Changes) \in Request
    BY ArrivingRows, OffersMade, ZeroIsANumber, PostRows
<1> QED
    BY <1>1 DEF Open, Begins, Arriving

LEMMA TakingUp ==
    ASSUME TypeOK, TakeUp
    PROVE  \E offer \in page.offers : /\ offer.route \notin {"new_thread", "sign_in"}
                                      /\ Begins(offer, page.changes)
<1>1. PICK offer \in page.offers : /\ offer.route \notin {"new_thread", "sign_in"}
                                   /\ request' = Arriving(offer, page.changes)
    BY DEF TakeUp
<1>2. page.offers \subseteq Offers /\ page.changes \in SUBSET Changes
    BY DEF TypeOK, Page
<1>3. Arriving(offer, page.changes) \in Request
    BY <1>2, ArrivingRows, PostRows
<1> QED
    BY <1>1, <1>3 DEF TakeUp, Begins, Arriving

\* What the posts of a request are numbered by.
LEMMA RowsListed ==
    ASSUME NEW q \in Request
    PROVE  /\ q.posts \in Seq(Post) /\ Len(q.posts) \in Nat /\ Len(q.posts) <= PostLimit
           /\ DOMAIN q.posts = 1..Len(q.posts)
           /\ DOMAIN q.posts \subseteq Numbers
           /\ \A k \in DOMAIN q.posts : q.posts[k] \in Post
<1>1. q.posts \in Seq(Post) /\ Len(q.posts) \in 0..PostLimit /\ PostLimit \in Nat
    BY ThreadPagesAssumption DEF Request, Rows
<1>2. DOMAIN q.posts = 1..Len(q.posts) /\ \A k \in 1..Len(q.posts) : q.posts[k] \in Post
    BY <1>1, LenProperties, ElementOfSeq
<1> QED
    BY <1>1, <1>2 DEF Numbers

LEMMA PageShown ==
    ASSUME TypeOK, ShowThread
    PROVE  /\ At("show", "authored") /\ Ends
           /\ page'.view = "thread" /\ page'.changes = request.changes
           /\ page'.offers = ReplyForm \union LockNotice \union ShowModeration
<1>1. request \in Request /\ request # NULL
    BY Advancing DEF ShowThread, At
<1>2. DOMAIN request.posts \subseteq 0..PostLimit
    BY <1>1, RowsListed, ThreadPagesAssumption DEF Numbers
<1>3. ReplyForm \in SUBSET Offers /\ LockNotice \in SUBSET Offers
    BY OffersMade, ZeroIsANumber DEF ReplyForm, LockNotice
<1>4. LockLink \in SUBSET Offers /\ ThreadUnpublicationLink \in SUBSET Offers
    BY OffersMade, ZeroIsANumber
       DEF LockLink, ThreadUnpublicationLink, Confirmations, Moderations
<1>5. PostUnpublicationLinks \in SUBSET Offers
    BY <1>2, OffersMade DEF PostUnpublicationLinks, Confirmations
<1>6. ShowModeration \in SUBSET Offers
    BY <1>4, <1>5 DEF ShowModeration
<1>7. PICK offers \in SUBSET Offers : offers = ReplyForm \union LockNotice \union ShowModeration
    BY <1>3, <1>6
<1>8. /\ request' = NULL /\ UNCHANGED world
      /\ page' = [view |-> "thread", offers |-> offers, reasons |-> request.reasons,
                  draft |-> FALSE, changes |-> request.changes]
    BY <1>7 DEF ShowThread, Answer
<1>9. request.reasons \subseteq Reasons /\ request.changes \subseteq Changes
    BY <1>1 DEF Request
<1>10. page' \in Page
    BY <1>8, <1>9 DEF Page
<1> QED
    BY <1>1, <1>7, <1>8, <1>10 DEF ShowThread, Ends

LEMMA GoingBack ==
    ASSUME TypeOK, request # NULL, ~thread.unpublished, Grows, ~thread'.unpublished,
           SeeThread(posts'), UNCHANGED <<scopes, left, signedIn, page>>
    PROVE  Returns
<1>1. request \in Request /\ request.changes \in SUBSET Changes
    BY Advancing
<1>2. posts' \in Seq(Post) /\ Len(posts') \in Numbers
    BY PostsGrow DEF Grows, Rows, Numbers
<1>3. Offer("show", 0) \in Offers
    BY OffersMade, ZeroIsANumber
<1>4. [Arriving(Offer("show", 0), request.changes) EXCEPT !.before = Before(posts')] \in Request
    BY <1>1, <1>2, <1>3, ArrivingRows
<1>5. PICK q : q = Arriving(Offer("show", 0), request.changes)
    OBVIOUS
<1>6. /\ q.stage = "arrived" /\ q.offer = Offer("show", 0)
      /\ q.offered = request.changes /\ q.changes = {}
    BY <1>5 DEF Arriving
<1>7. q \in Request
    BY <1>1, <1>2, <1>3, <1>5, ArrivingRows
<1>8. request' = [q EXCEPT !.before = Before(posts')] /\ request' \in Request
    BY <1>4, <1>5 DEF SeeThread
<1>9. /\ request'.stage = q.stage /\ request'.offer = q.offer /\ request'.offered = q.offered
      /\ request'.changes = q.changes /\ request'.before = Before(posts')
    BY <1>7, <1>8 DEF Request
<1> QED
    BY <1>1, <1>6, <1>8, <1>9 DEF Returns

LEMMA LockSet ==
    ASSUME TypeOK, SetLock
    PROVE  \E route \in {"lock", "unlock"} :
               /\ At(route, "allowed")
               /\ \/ Says("unpublished") /\ thread.unpublished
                  \/ Returns /\ Grows
<1>1. PICK route \in {"lock", "unlock"} :
          /\ At(route, "allowed")
          /\ \/ thread.unpublished /\ SayUnpublished
             \/ /\ ~thread.unpublished
                /\ thread' = [thread EXCEPT !.locked = (route = "lock")]
                /\ SeeThread(posts)
                /\ UNCHANGED <<posts, scopes, left, signedIn, page>>
    BY DEF SetLock
<1>2. request # NULL
    BY <1>1 DEF At
<1>3. CASE thread.unpublished /\ SayUnpublished
    BY <1>1, <1>2, <1>3, Sayings DEF SayUnpublished
<1>4. CASE /\ ~thread.unpublished
           /\ thread' = [thread EXCEPT !.locked = (route = "lock")]
           /\ SeeThread(posts)
           /\ UNCHANGED <<posts, scopes, left, signedIn, page>>
  <2>1. PICK locked \in BOOLEAN : locked = (route = "lock")
      OBVIOUS
  <2>2. thread' = [thread EXCEPT !.locked = locked] /\ thread \in ThreadRow
      BY <1>4, <2>1 DEF TypeOK
  <2>3. thread' \in ThreadRow /\ thread'.unpublished = thread.unpublished
      BY <2>2 DEF ThreadRow
  <2>4. Grows
      BY <1>4, <2>3, PostRows DEF Grows, TypeOK
  <2>5. SeeThread(posts')
      BY <1>4
  <2>6. ~thread'.unpublished
      BY <1>4, <2>3
  <2>7. Returns
      BY <1>2, <1>4, <2>4, <2>5, <2>6, GoingBack
  <2> QED
      BY <1>1, <2>4, <2>7
<1> QED
    BY <1>1, <1>3, <1>4

LEMMA ThreadTakenDown ==
    ASSUME TypeOK, UnpublishThread
    PROVE  /\ At("unpublish_thread", "allowed") /\ request \in Request
           /\ request' = NULL /\ page' \in Page /\ page'.view = "board" /\ page'.offers = {}
           /\ Grows
<1>1. request \in Request /\ thread \in ThreadRow
    BY Advancing DEF UnpublishThread, At, TypeOK
<1>2. thread' = [thread EXCEPT !.unpublished = TRUE]
    BY DEF UnpublishThread
<1>3. thread' \in ThreadRow
    BY <1>1, <1>2 DEF ThreadRow
<1>4. UNCHANGED <<posts, scopes, left, signedIn>>
    BY DEF UnpublishThread
<1>5. Grows
    BY <1>3, <1>4, PostRows DEF Grows, TypeOK
<1>6. page' = [Nothing EXCEPT !.view = "board"]
    BY DEF UnpublishThread
<1>7. page' \in Page /\ page'.view = "board" /\ page'.offers = {}
    BY <1>6 DEF Nothing, Page
<1> QED
    BY <1>1, <1>5, <1>7 DEF UnpublishThread

LEMMA PostTakenDown ==
    ASSUME TypeOK, UnpublishPost
    PROVE  /\ At("unpublish_post", "allowed")
           /\ \/ Says("unpublished") /\ thread.unpublished
              \/ Returns /\ Grows
<1>1. request # NULL /\ At("unpublish_post", "allowed")
    BY DEF At, UnpublishPost
<1>2. CASE thread.unpublished /\ SayUnpublished
    BY <1>1, <1>2, Sayings DEF SayUnpublished
<1>3. CASE /\ ~thread.unpublished
           /\ posts' = [posts EXCEPT ![request.offer.number].unpublished = TRUE]
           /\ SeeThread(posts')
           /\ UNCHANGED <<thread, scopes, left, signedIn, page>>
  <2>1. Grows
      BY <1>3, PostsHidden
  <2>2. Returns
      BY <1>1, <1>3, <2>1, GoingBack
  <2> QED
      BY <1>1, <2>1, <2>2
<1> QED
    BY <1>2, <1>3 DEF UnpublishPost

LEMMA Refused ==
    ASSUME TypeOK, request # NULL, NEW reasons \in SUBSET Reasons, Refuse(reasons)
    PROVE  Advances("refused") /\ request'.offer = request.offer /\ request'.reasons = reasons
<1>1. request \in Request
    BY Advancing
<1>2. [request EXCEPT !.stage = "refused", !.reasons = reasons] \in Request
    BY <1>1 DEF Request, Stages
<1>3. request' = [request EXCEPT !.stage = "refused", !.reasons = reasons]
      /\ UNCHANGED <<world, page>>
    BY DEF Refuse, Reads
<1> QED
    BY <1>1, <1>2, <1>3 DEF Advances, Request

LEMMA Replying ==
    ASSUME TypeOK, Reply
    PROVE  /\ At("reply", "resolved")
           /\ \/ Says("unpublished") /\ thread.unpublished
              \/ /\ Advances("refused") /\ request'.offer = request.offer
                 /\ ~thread.unpublished
                 /\ request'.reasons = Closed(thread, Len(posts))
              \/ Returns /\ Grows
<1>1. request # NULL /\ At("reply", "resolved")
    BY DEF At, Reply
<1>2. CASE thread.unpublished /\ SayUnpublished
    BY <1>1, <1>2, Sayings DEF SayUnpublished
<1>3. CASE ~thread.unpublished /\ Refuse(Closed(thread, Len(posts)))
  <2>1. PICK reasons \in SUBSET Reasons : reasons = Closed(thread, Len(posts))
      BY ClosedReasons
  <2> QED
      BY <1>1, <1>3, <2>1, Refused
<1>4. ASSUME ~thread.unpublished, Closed(thread, Len(posts)) = {},
             NEW cites \in Citations,
             posts' = Append(posts,
                        [author |-> "visitor", cites |-> cites, unpublished |-> FALSE]),
             SeeThread(posts'), UNCHANGED <<thread, scopes, left, signedIn, page>>
      PROVE  Returns /\ Grows
  <2>1. Grows
      BY <1>4, PostsAdded DEF People
  <2> QED
      BY <1>1, <1>4, <2>1, GoingBack
<1> QED
    BY <1>1, <1>2, <1>3, <1>4 DEF Reply

LEMMA ReplyRefused ==
    ASSUME TypeOK, RefuseReply
    PROVE  /\ At("reply", "resolved")
           /\ Advances("refused") /\ request'.offer = request.offer /\ request'.reasons = {}
    BY Refused DEF RefuseReply, At

LEMMA Retrying ==
    ASSUME TypeOK, RetryPage
    PROVE  /\ At("reply", "refused")
           /\ \/ Says("unpublished") /\ thread.unpublished
              \/ /\ Ends /\ ~thread.unpublished
                 /\ page'.view = "retry" /\ page'.draft /\ page'.reasons = request.reasons
                 /\ page'.offers = {Offer("show", 0)} \union RetryForm
                 /\ page'.changes = request.offered
<1>1. request \in Request /\ At("reply", "refused")
    BY Advancing DEF At, RetryPage
<1>2. CASE thread.unpublished /\ SayUnpublished
    BY <1>1, <1>2, Sayings DEF SayUnpublished, At
<1>3. CASE /\ ~thread.unpublished
           /\ Answer("retry", {Offer("show", 0)} \union RetryForm,
                     request.reasons, KeepsDraft, request.offered)
  <2>1. {Offer("show", 0)} \union RetryForm \in SUBSET Offers
      BY OffersMade, ZeroIsANumber DEF RetryForm
  <2>2. PICK offers \in SUBSET Offers : offers = {Offer("show", 0)} \union RetryForm
      BY <2>1
  <2>3. /\ request' = NULL /\ UNCHANGED world
        /\ page' = [view |-> "retry", offers |-> offers, reasons |-> request.reasons,
                    draft |-> TRUE, changes |-> request.offered]
      BY <1>3, <2>2 DEF Answer, KeepsDraft
  <2>4. request.reasons \subseteq Reasons /\ request.offered \subseteq Changes
      BY <1>1 DEF Request
  <2>5. page' \in Page
      BY <2>3, <2>4 DEF Page
  <2> QED
      BY <1>1, <1>3, <2>2, <2>3, <2>5 DEF Ends
<1> QED
    BY <1>1, <1>2, <1>3 DEF RetryPage

LEMMA Failing ==
    ASSUME TypeOK, Fail
    PROVE  Says("error")
    BY Sayings DEF Fail

\* What the others change has a kind.
Differs(kind) ==
    /\ signedIn /\ ~signedIn' => kind = "account"
    /\ scopes' # scopes => kind = "role"
    /\ thread'.unpublished => thread.unpublished \/ kind = "thread"
    /\ \A k \in DOMAIN posts : posts'[k].unpublished => posts[k].unpublished \/ kind = "post"
    /\ Closed(thread', Len(posts')) = Closed(thread, Len(posts)) \/ kind \in {"lock", "posts"}

LEMMA OthersChange ==
    ASSUME TypeOK, Others
    PROVE  /\ Grows
           /\ \/ UNCHANGED <<thread, posts, scopes, signedIn, request, page>>
              \/ \E kind \in Changes : Changed(kind) /\ Differs(kind)
<1>1. CASE OtherPosts
  <2>1. PICK cites \in Citations :
            posts' = Append(posts, [author |-> "other", cites |-> cites, unpublished |-> FALSE])
      BY <1>1 DEF OtherPosts
  <2>2. Grows /\ \A k \in DOMAIN posts : posts'[k] = posts[k]
      BY <1>1, <2>1, PostsAdded DEF OtherPosts, People
  <2>3. Changed("posts") /\ Differs("posts") /\ "posts" \in Changes
      BY <1>1, <2>2 DEF OtherPosts, Differs, Changes
  <2> QED
      BY <2>2, <2>3
<1>2. CASE OtherLocks
  <2>1. thread \in ThreadRow /\ thread' = [thread EXCEPT !.locked = ~@]
      BY <1>2 DEF OtherLocks, TypeOK
  <2>2. PICK locked \in BOOLEAN : locked = ~thread.locked
      OBVIOUS
  <2>3. thread' = [thread EXCEPT !.locked = locked]
      BY <2>1, <2>2
  <2>4. thread' \in ThreadRow /\ thread'.unpublished = thread.unpublished
      BY <2>1, <2>3 DEF ThreadRow
  <2>5. UNCHANGED <<posts, scopes, left, signedIn>>
      BY <1>2 DEF OtherLocks
  <2>6. Grows
      BY <2>4, <2>5, PostRows DEF Grows, TypeOK
  <2>7. Changed("lock") /\ Differs("lock") /\ "lock" \in Changes
      BY <1>2, <2>4, <2>5 DEF OtherLocks, Differs, Changes
  <2> QED
      BY <2>6, <2>7
<1>3. CASE /\ thread' = [thread EXCEPT !.unpublished = TRUE]
           /\ Changed("thread")
           /\ UNCHANGED <<posts, scopes, left, signedIn>>
  <2>1. thread' \in ThreadRow /\ thread'.locked = thread.locked
      BY <1>3 DEF ThreadRow, TypeOK
  <2>2. Grows
      BY <1>3, <2>1, PostRows DEF Grows, TypeOK
  <2>3. Closed(thread', Len(posts')) = Closed(thread, Len(posts))
      BY <1>3, <2>1 DEF Closed
  <2>4. Differs("thread") /\ "thread" \in Changes
      BY <1>3, <2>3 DEF Differs, Changes
  <2> QED
      BY <1>3, <2>2, <2>4
<1>4. ASSUME NEW k \in DOMAIN posts, posts' = [posts EXCEPT ![k].unpublished = TRUE],
             Changed("post"), UNCHANGED <<thread, scopes, left, signedIn>>
      PROVE  Grows /\ \E kind \in Changes : Changed(kind) /\ Differs(kind)
  <2>1. Grows
      BY <1>4, PostsHidden
  <2>2. Len(posts') = Len(posts)
      BY <1>4, PostHidden
  <2>3. Differs("post") /\ "post" \in Changes
      BY <1>4, <2>2 DEF Differs, Changes
  <2> QED
      BY <1>4, <2>1, <2>3
<1>5. CASE OtherUnpublishes
    BY <1>3, <1>4, <1>5 DEF OtherUnpublishes
<1>6. CASE OtherLeaves
  <2>1. Grows
      BY <1>6, PostRows DEF OtherLeaves, Grows, TypeOK, People
  <2> QED
      BY <1>6, <2>1 DEF OtherLeaves
<1>7. CASE VisitorLeaves
  <2>0. signedIn' \in BOOLEAN
    <3>1. signedIn' = FALSE
        BY <1>7 DEF VisitorLeaves
    <3> QED
        BY <3>1
  <2>1. Grows
    <3>1. /\ left' = left \union {"visitor"} /\ left \subseteq People
          /\ UNCHANGED <<thread, posts, scopes>>
        BY <1>7 DEF VisitorLeaves, TypeOK
    <3> QED
        BY <2>0, <3>1, PostRows DEF Grows, TypeOK, People
  <2>2. Changed("account") /\ Differs("account") /\ "account" \in Changes
      BY <1>7 DEF VisitorLeaves, Differs, Changes
  <2> QED
      BY <2>1, <2>2
<1>8. CASE ChangeRoles
  <2>1. Grows
      BY <1>8, PostRows DEF ChangeRoles, Grows, TypeOK
  <2>2. Changed("role") /\ Differs("role") /\ "role" \in Changes
      BY <1>8 DEF ChangeRoles, Differs, Changes
  <2> QED
      BY <2>1, <2>2
<1> QED
    BY <1>1, <1>2, <1>5, <1>6, <1>7, <1>8 DEF Others

\* What a step of the visitor can be.
LEMMA VisitorMoves ==
    ASSUME TypeOK, Visitor
    PROVE  \/ \E offer, offered : Begins(offer, offered)
           \/ \E stage \in {"resolved", "found", "allowed", "refused"} : Advances(stage)
           \/ ListPosts \/ ListReferences \/ ListAuthors
           \/ Ends
           \/ Returns /\ Grows
           \/ UnpublishThread
    BY Opening, TakingUp, VisitorResolved, ThreadFound, PageShown, MemberResolved, PolicyResolved,
       ModeratedFound, ReasonRefused, LockSet, PostTakenDown, Replying, ReplyRefused, Retrying,
       Failing DEF Visitor, Says

LEMMA TypeInit == Init => TypeOK
<1> SUFFICES ASSUME Init PROVE TypeOK
    OBVIOUS
<1>1. PICK row : row = [author |-> "other", cites |-> {}, unpublished |-> FALSE]
    OBVIOUS
<1>2. posts = <<row>> /\ PostLimit \in Nat \ {0}
    BY <1>1, ThreadPagesAssumption DEF Init
<1>3. row \in Post
    BY <1>1, ThreadPagesAssumption DEF Post, People
<1>4. <<row>> \in Seq(Post) /\ Len(<<row>>) = 1
    BY <1>3
<1>5. posts \in Rows /\ Len(posts) # 0
    BY <1>2, <1>4 DEF Rows
<1>6. Nothing \in Page
    BY NothingIsAPage
<1> QED
    BY <1>5, <1>6 DEF Init, TypeOK, ThreadRow

LEMMA TypeNext == TypeOK /\ [Next]_vars => TypeOK'
<1> SUFFICES ASSUME TypeOK, [Next]_vars PROVE TypeOK'
    OBVIOUS
<1>0. request \in Request \union {NULL} /\ page \in Page
    BY DEF TypeOK
<1>1. CASE UNCHANGED vars
    BY <1>1 DEF TypeOK, vars
<1>2. ASSUME Grows, request' \in Request \union {NULL}, page' \in Page
      PROVE  TypeOK'
    BY <1>2 DEF Grows, TypeOK
<1>3. CASE Others
    BY <1>0, <1>2, <1>3, OthersChange, ChangedRows
<1>4. CASE Visitor
  <2>1. ASSUME NEW offer, NEW offered, Begins(offer, offered) PROVE TypeOK'
      BY <1>2, <2>1, RestGrows, NothingIsAPage DEF Begins
  <2>2. ASSUME NEW stage, Advances(stage) PROVE TypeOK'
      BY <1>0, <1>2, <2>2, RestGrows DEF Advances
  <2>6. CASE ListPosts \/ ListReferences \/ ListAuthors
      BY <2>2, <2>6, PostsListed, ReferencesListed, AuthorsListed
  <2>3. CASE Ends
      BY <1>2, <2>3, RestGrows DEF Ends
  <2>4. CASE Returns /\ Grows
      BY <1>0, <1>2, <2>4 DEF Returns
  <2>5. CASE UnpublishThread
      BY <1>2, <2>5, ThreadTakenDown
  <2> QED
      BY <1>4, <2>1, <2>2, <2>3, <2>4, <2>5, <2>6, VisitorMoves
<1> QED
    BY <1>1, <1>3, <1>4 DEF Next

\* Every row, request and page of the thread keeps its type, whatever the rights of the visitor,
\* the limit of posts and what bodies cite.
THEOREM ThreadPagesTypeCorrect == Spec => []TypeOK
    BY TypeInit, TypeNext, PTL DEF Spec

-----------------------------------------------------------------------------
(* What a page omits, and how its links fit *)

\* What was gone when the request arrived is still gone.
Behind ==
    /\ request.before.count <= Len(posts)
    /\ \A k \in request.before.hidden : k \in DOMAIN posts /\ posts[k].unpublished
    /\ request.before.left \subseteq left

\* The posts that were read are a beginning of those there are, and no older than the request.
Copied ==
    request.stage \in {"listed", "referenced", "authored"} =>
        /\ request.before.count <= Len(request.posts) /\ Len(request.posts) <= Len(posts)
        /\ \A k \in request.before.hidden :
              k \in DOMAIN request.posts /\ request.posts[k].unpublished
        /\ \A k \in DOMAIN request.posts : request.posts[k].cites = posts[k].cites

\* The references that were read join those posts as the posts do themselves.
Joined ==
    request.stage \in {"referenced", "authored"} =>
        \A k, j \in DOMAIN request.posts :
            j \in request.cited[k] <=> (j > k /\ k \in request.posts[j].cites)

\* The authors that were read had not left before.
Named == request.stage = "authored" => request.authors \intersect request.before.left = {}

UpToDate == request # NULL => Behind /\ Copied /\ Joined /\ Named

PagesUpToDate == TypeOK /\ UpToDate

\* What was read stays as good as it was.
LEMMA StaysUpToDate ==
    ASSUME TypeOK, UpToDate, Grows, request # NULL, NEW q \in Request, request' = q,
           q.before = request.before,
           q.stage \in {"listed", "referenced", "authored"} =>
               /\ q.stage = request.stage /\ q.posts = request.posts
               /\ q.cited = request.cited /\ q.authors = request.authors
    PROVE  UpToDate'
<1>0. request \in Request /\ request.before.count \in Nat
    BY Advancing, ThreadPagesAssumption DEF Request, Numbers
<1>1. Behind'
  <2>1. Len(posts) \in Nat /\ Len(posts') \in Nat
      BY PostRows, PostsGrow DEF Grows
  <2> QED
      BY <1>0, <2>1 DEF UpToDate, Behind, Grows
<1>2. Copied'
  <2> SUFFICES ASSUME q.stage \in {"listed", "referenced", "authored"} PROVE Copied'
      BY DEF Copied
  <2>1. Copied /\ request.stage \in {"listed", "referenced", "authored"}
      BY DEF UpToDate
  <2>2. DOMAIN request.posts \subseteq DOMAIN posts /\ Len(request.posts) \in Nat
      BY <1>0, <2>1, RowsListed, PostRows DEF Copied
  <2>3. Len(posts) \in Nat /\ Len(posts') \in Nat /\ Len(posts) <= Len(posts')
      BY PostRows, PostsGrow DEF Grows
  <2>4. \A k \in DOMAIN request.posts : request.posts[k].cites = posts'[k].cites
      BY <2>1, <2>2 DEF Copied, Grows
  <2> QED
      BY <2>1, <2>2, <2>3, <2>4 DEF Copied
<1>3. Joined' /\ Named'
    BY DEF UpToDate, Joined, Named
<1> QED
    BY <1>1, <1>2, <1>3 DEF UpToDate

\* A request begins with the rows there are.
LEMMA BeginsUpToDate ==
    ASSUME NEW q \in Request, q.stage = "arrived", posts' \in Seq(Post), Len(posts') \in Numbers,
           left' = left, left \subseteq People, request' = q, q.before = Before(posts')
    PROVE  UpToDate'
<1>1. /\ q.before.count = Len(posts') /\ q.before.left = left
      /\ q.before.hidden = {k \in DOMAIN posts' : posts'[k].unpublished}
    BY BeforeRows
<1>2. Len(posts') \in Nat
    BY ThreadPagesAssumption DEF Numbers
<1>3. Behind'
    BY <1>1, <1>2 DEF Behind
<1> QED
    BY <1>3 DEF UpToDate, Copied, Joined, Named

LEMMA ListedUpToDate ==
    ASSUME TypeOK, UpToDate, ListPosts
    PROVE  UpToDate'
<1>1. /\ request # NULL /\ request \in Request /\ request' \in Request
      /\ request'.stage = "listed" /\ request'.before = request.before
      /\ request'.posts = posts /\ posts' = posts /\ left' = left
    BY PostsListed DEF ListPosts, At, Advances, world
<1>2. Behind
    BY <1>1 DEF UpToDate
<1>3. Len(posts) \in Nat
    BY PostRows
<1>4. Behind' /\ Copied'
    BY <1>1, <1>2, <1>3 DEF Behind, Copied
<1> QED
    BY <1>1, <1>4 DEF UpToDate, Joined, Named

LEMMA ReferencedUpToDate ==
    ASSUME TypeOK, UpToDate, ListReferences
    PROVE  UpToDate'
<1>1. /\ request # NULL /\ request \in Request /\ request' \in Request
      /\ request.stage = "listed"
      /\ request'.stage = "referenced" /\ request'.before = request.before
      /\ request'.posts = request.posts /\ posts' = posts /\ left' = left
      /\ \A k \in DOMAIN request.posts \intersect Numbers : request'.cited[k] = CitedBy(k)
    BY ReferencesListed DEF ListReferences, At, Advances, world
<1>2. Behind /\ Copied
    BY <1>1 DEF UpToDate
<1>3. Behind' /\ Copied'
    BY <1>1, <1>2 DEF Behind, Copied
<1>4. DOMAIN request.posts \subseteq Numbers /\ DOMAIN request.posts \subseteq DOMAIN posts
    BY <1>1, <1>2, RowsListed, PostRows DEF Copied
<1>5. ASSUME NEW k \in DOMAIN request.posts, NEW j \in DOMAIN request.posts
      PROVE  j \in request'.cited[k] <=> (j > k /\ k \in request.posts[j].cites)
    BY <1>1, <1>2, <1>4, <1>5 DEF CitedBy, Copied
<1>6. Joined'
    BY <1>1, <1>5 DEF Joined
<1> QED
    BY <1>1, <1>3, <1>6 DEF UpToDate, Named

LEMMA AuthoredUpToDate ==
    ASSUME TypeOK, UpToDate, ListAuthors
    PROVE  UpToDate'
<1>1. /\ request # NULL /\ request \in Request /\ request' \in Request
      /\ request.stage = "referenced"
      /\ request'.stage = "authored" /\ request'.before = request.before
      /\ request'.posts = request.posts /\ request'.cited = request.cited
      /\ posts' = posts /\ left' = left /\ request'.authors \intersect left = {}
    BY AuthorsListed DEF ListAuthors, At, Advances, world
<1>2. Behind /\ Copied /\ Joined
    BY <1>1 DEF UpToDate
<1>3. Behind' /\ Copied'
    BY <1>1, <1>2 DEF Behind, Copied
<1>4. Joined'
    BY <1>1, <1>2 DEF Joined
<1>5. Named'
    BY <1>1, <1>2 DEF Named, Behind
<1> QED
    BY <1>3, <1>4, <1>5 DEF UpToDate

\* The changes of others are added to a request, and nothing else of it is touched.
LEMMA ChangedRequest ==
    ASSUME TypeOK, request # NULL, NEW kind \in Changes, Changed(kind)
    PROVE  /\ request' \in Request
           /\ request'.offered = request.offered \union {kind}
           /\ request'.changes = request.changes \union {kind}
           /\ request'.offer = request.offer /\ request'.stage = request.stage
           /\ request'.before = request.before /\ request'.signedIn = request.signedIn
           /\ request'.thread = request.thread /\ request'.posts = request.posts
           /\ request'.cited = request.cited /\ request'.authors = request.authors
           /\ request'.reasons = request.reasons
<1>1. request \in Request
    BY Advancing
<1>2. request' = [request EXCEPT !.changes = @ \union {kind}, !.offered = @ \union {kind}]
    BY DEF Changed
<1>3. request' \in Request
    BY <1>1, <1>2, ChangedRows, RequestIsNotNull DEF TypeOK, Request
<1> QED
    BY <1>1, <1>2, <1>3 DEF Request

LEMMA UpToDateNext == TypeOK /\ UpToDate /\ [Next]_vars => UpToDate'
<1> SUFFICES ASSUME TypeOK, UpToDate, [Next]_vars PROVE UpToDate'
    OBVIOUS
<1>0. request' = NULL => UpToDate'
    BY DEF UpToDate
<1>1. CASE UNCHANGED vars
    BY <1>1 DEF UpToDate, Behind, Copied, Joined, Named, vars
<1>2. CASE Others
  <2>1. Grows
      BY <1>2, OthersChange
  <2>2. CASE request = NULL
    <3>1. request' = NULL
        BY <1>2, <2>2, OthersChange DEF Changed
    <3> QED
        BY <1>0, <3>1
  <2>3. CASE request # NULL /\ request' = request
      BY <2>1, <2>3, Advancing, StaysUpToDate
  <2>4. ASSUME NEW kind \in Changes, Changed(kind), request # NULL PROVE UpToDate'
      BY <2>1, <2>4, ChangedRequest, StaysUpToDate
  <2> QED
      BY <1>2, <2>2, <2>3, <2>4, OthersChange
<1>3. CASE Visitor
  <2>1. ASSUME NEW offer, NEW offered, Begins(offer, offered) PROVE UpToDate'
    <3>1. /\ request' \in Request /\ request'.stage = "arrived" /\ posts' = posts /\ left' = left
          /\ request'.before = Before(posts')
        BY <2>1 DEF Begins, world
    <3> QED
        BY <3>1, BeginsUpToDate, PostRows DEF TypeOK
  <2>2. ASSUME NEW stage \in {"resolved", "found", "allowed", "refused"}, Advances(stage)
        PROVE  UpToDate'
    <3>1. /\ request \in Request /\ request' \in Request /\ request'.stage = stage
          /\ request'.before = request.before /\ Grows
        BY <2>2, RestGrows DEF Advances
    <3> QED
        BY <3>1, StaysUpToDate, RequestIsNotNull
  <2>3. CASE ListPosts \/ ListReferences \/ ListAuthors
      BY <2>3, ListedUpToDate, ReferencedUpToDate, AuthoredUpToDate
  <2>4. CASE Ends \/ UnpublishThread
      BY <1>0, <2>4, ThreadTakenDown DEF Ends
  <2>5. CASE Returns /\ Grows
    <3>1. /\ request' \in Request /\ request'.stage = "arrived" /\ left' = left
          /\ request'.before = Before(posts')
        BY <2>5 DEF Returns
    <3>2. posts' \in Seq(Post) /\ Len(posts') \in Numbers
        BY <2>5, PostsGrow DEF Grows, Rows, Numbers
    <3> QED
        BY <3>1, <3>2, BeginsUpToDate DEF TypeOK
  <2> QED
      BY <1>3, <2>1, <2>2, <2>3, <2>4, <2>5, VisitorMoves
<1> QED
    BY <1>1, <1>2, <1>3 DEF Next

LEMMA UpToDateAlways == Spec => []PagesUpToDate
<1>1. Init => PagesUpToDate
    BY TypeInit DEF Init, PagesUpToDate, UpToDate
<1>2. PagesUpToDate /\ [Next]_vars => PagesUpToDate'
    BY TypeNext, UpToDateNext DEF PagesUpToDate
<1> QED
    BY <1>1, <1>2, PTL DEF Spec

LEMMA ShownRows ==
    ASSUME TypeOK, At("show", "authored")
    PROVE  /\ request \in Request /\ request # NULL
           /\ DOMAIN ShowPosts = DOMAIN request.posts
           /\ Len(request.posts) \in Nat /\ DOMAIN request.posts = 1..Len(request.posts)
           /\ \A k \in DOMAIN request.posts :
                ShowPosts[k] =
                    IF IsHidden(k) THEN HiddenPost
                    ELSE [hidden |-> FALSE, author |-> AuthorOf(k), links |-> LinksOf(k),
                          replies |-> Replies(k)]
    BY Advancing, RowsListed DEF At, ShowPosts

\* A page omits what was hidden or had left when its request arrived, and shows every post there
\* was then, whatever is written, hidden and left between its reads (get_thread.go, showPosts).
THEOREM NothingGoneIsShown == Spec => []PagesOmitWhatWasGone
<1>1. ASSUME PagesUpToDate PROVE PagesOmitWhatWasGone
  <2> SUFFICES ASSUME At("show", "authored")
               PROVE  /\ Len(ShowPosts) >= request.before.count
                      /\ \A k \in DOMAIN ShowPosts :
                          /\ ShowPosts[k] \in ShownPost
                          /\ k \in request.before.hidden => ShowPosts[k].hidden
                          /\ ShowPosts[k].author \notin request.before.left
      BY DEF PagesOmitWhatWasGone
  <2>1. TypeOK /\ Copied /\ Named /\ request.stage = "authored"
      BY <1>1 DEF PagesUpToDate, UpToDate, At
  <2>2. request \in Request
      BY <2>1, ShownRows
  <2>3. Len(ShowPosts) = Len(request.posts)
      BY <2>1, ShownRows
  <2>4. request.before.count \in Nat /\ request.before.left \subseteq People
      BY <2>2, ThreadPagesAssumption DEF Request, Numbers
  <2>5. ASSUME NEW k \in DOMAIN request.posts
        PROVE  /\ ShowPosts[k] \in ShownPost
               /\ k \in request.before.hidden => ShowPosts[k].hidden
               /\ ShowPosts[k].author \notin request.before.left
    <3>1. request.posts[k] \in Post /\ DOMAIN request.posts \subseteq Numbers
        BY <2>2, RowsListed
    <3>2. CASE IsHidden(k)
      <4>1. ShowPosts[k] = HiddenPost
          BY <2>1, <3>2, ShownRows
      <4>2. HiddenPost \in ShownPost /\ HiddenPost.hidden /\ HiddenPost.author = NULL
          BY DEF HiddenPost, ShownPost
      <4> QED
          BY <2>4, <4>1, <4>2, RequestIsNotNull
    <3>3. CASE ~IsHidden(k)
      <4>1. PICK row : row = [hidden |-> FALSE, author |-> AuthorOf(k), links |-> LinksOf(k),
                              replies |-> Replies(k)]
          OBVIOUS
      <4>2. ShowPosts[k] = row
          BY <2>1, <3>3, <4>1, ShownRows
      <4>3. AuthorOf(k) \in People \union {NULL} /\ AuthorOf(k) \in request.authors \union {NULL}
          BY <2>2, <3>1 DEF AuthorOf, Request
      <4>4. LinksOf(k) \subseteq Numbers /\ Replies(k) \subseteq Numbers
          BY <3>1 DEF LinksOf, Replies
      <4>5. row \in ShownPost
          BY <4>1, <4>3, <4>4 DEF ShownPost
      <4>6. row.author = AuthorOf(k)
          BY <4>1
      <4>7. row.author \notin request.before.left
          BY <2>1, <2>4, <4>3, <4>6, RequestIsNotNull DEF Named
      <4>8. k \notin request.before.hidden
          BY <2>1, <3>3 DEF Copied, IsHidden
      <4> QED
          BY <4>2, <4>5, <4>7, <4>8
    <3> QED
        BY <3>2, <3>3
  <2>6. Len(request.posts) >= request.before.count
      BY <2>1 DEF Copied
  <2> QED
      BY <2>1, <2>3, <2>5, <2>6, ShownRows
<1> QED
    BY <1>1, UpToDateAlways, PTL

\* The links and the replies of a page lead to posts on it, and mirror each other, whatever is
\* written between its reads (assembleThreadPosts, NewPostBody).
THEOREM LinksAndRepliesFit == Spec => []RepliesMirrorLinks
<1>1. ASSUME PagesUpToDate PROVE RepliesMirrorLinks
  <2> SUFFICES ASSUME At("show", "authored"), NEW k \in DOMAIN ShowPosts
               PROVE  /\ ShowPosts[k].links \union ShowPosts[k].replies \subseteq DOMAIN ShowPosts
                      /\ \A j \in DOMAIN ShowPosts :
                          (k < j /\ ~ShowPosts[k].hidden /\ ~ShowPosts[j].hidden) =>
                              (j \in ShowPosts[k].replies <=> k \in ShowPosts[j].links)
      BY DEF RepliesMirrorLinks
  <2>1. TypeOK /\ Joined /\ request.stage = "authored" /\ DOMAIN ShowPosts = DOMAIN request.posts
      BY <1>1, ShownRows DEF PagesUpToDate, UpToDate, At
  <2>2. ASSUME NEW i \in DOMAIN request.posts
        PROVE  \/ ShowPosts[i].hidden /\ ShowPosts[i].links = {} /\ ShowPosts[i].replies = {}
               \/ ShowPosts[i].links = LinksOf(i) /\ ShowPosts[i].replies = Replies(i)
    <3>1. CASE IsHidden(i)
      <4>1. ShowPosts[i] = HiddenPost
          BY <2>1, <3>1, ShownRows
      <4>2. HiddenPost.hidden /\ HiddenPost.links = {} /\ HiddenPost.replies = {}
          BY DEF HiddenPost
      <4> QED
          BY <4>1, <4>2
    <3>2. CASE ~IsHidden(i)
      <4>1. ShowPosts[i] = [hidden |-> FALSE, author |-> AuthorOf(i), links |-> LinksOf(i),
                            replies |-> Replies(i)]
          BY <2>1, <3>2, ShownRows
      <4>2. ShowPosts[i].links = LinksOf(i) /\ ShowPosts[i].replies = Replies(i)
          BY <4>1
      <4> QED
          BY <4>2
    <3> QED
        BY <3>1, <3>2
  <2>3. \A i \in DOMAIN request.posts :
            LinksOf(i) \subseteq DOMAIN request.posts /\ Replies(i) \subseteq DOMAIN request.posts
      BY DEF LinksOf, Replies
  <2>4. ASSUME NEW j \in DOMAIN request.posts, k < j
        PROVE  j \in Replies(k) <=> k \in LinksOf(j)
      BY <2>1, <2>4 DEF Joined, Replies, LinksOf
  <2> QED
      BY <2>1, <2>2, <2>3, <2>4
<1> QED
    BY <1>1, UpToDateAlways, PTL

-----------------------------------------------------------------------------
(* Offers *)

\* An offer made by a page is good, or what has spoiled it is among the changes.
Stands(offer, changes) ==
    /\ offer.route \in {"reply"} \union Confirmations \union Moderations
           => signedIn \/ "account" \in changes
    /\ offer.route \in Confirmations => Allows(Confirmed(offer.route)) \/ "role" \in changes
    /\ offer.route \in Moderations => Allows(offer.route) \/ "role" \in changes
    /\ ~thread.unpublished \/ "thread" \in changes
    /\ offer.route \in {"unpublish_post", "new_post_unpublication"} =>
           /\ offer.number \in DOMAIN posts
           /\ ~posts[offer.number].unpublished \/ "post" \in changes
    /\ offer.route = "reply" =>
           Closed(thread, Len(posts)) = {} \/ changes \intersect {"lock", "posts"} # {}

\* What the handler of the thread page has read is still so, or has changed meanwhile.
Fresh ==
    LET changes == request.changes
        later == {"listed", "referenced", "authored"}
    IN
    /\ request.stage \in {"resolved", "found"} \union later =>
           (request.signedIn => signedIn \/ "account" \in changes)
    /\ request.stage \in {"found"} \union later =>
           /\ ~thread.unpublished \/ "thread" \in changes
           /\ request.reasons = {} =>
                 Closed(thread, Len(posts)) = {} \/ changes \intersect {"lock", "posts"} # {}
    /\ request.stage \in later =>
           \A k \in DOMAIN request.posts :
               /\ k \in DOMAIN posts
               /\ ~request.posts[k].unpublished => ~posts[k].unpublished \/ "post" \in changes

\* A request that follows an offer follows one that stands; a refusal that a thread is closed
\* has its reason in a change.
Asked ==
    /\ page.offers = {}
    /\ request.offer.route \notin {"new_thread", "sign_in"}
    /\ Stands(request.offer, request.offered)
    /\ request.stage = "refused" /\ request.reasons # {} =>
           request.offered \intersect {"lock", "posts"} # {}
    /\ request.offer.route = "show" => Fresh

OffersStand ==
    /\ TypeOK
    /\ \A offer \in page.offers : Stands(offer, page.changes)
    /\ request # NULL => Asked

LEMMA StandsThere ==
    ASSUME NEW offer, NEW changes, NEW more, changes \subseteq more, Stands(offer, changes),
           UNCHANGED <<thread, posts, scopes, signedIn>>
    PROVE  Stands(offer, more)'
<1>1. UNCHANGED <<Allows(Confirmed(offer.route)), Allows(offer.route), Closed(thread, Len(posts))>>
    BY DEF Allows, Closed
<1> QED
    BY <1>1 DEF Stands

\* An offer outlives a change, if the change is noted.
LEMMA StandsOn ==
    ASSUME TypeOK, Grows, NEW kind, Differs(kind), NEW offer, NEW changes, NEW more,
           changes \subseteq more, kind \in more, Stands(offer, changes)
    PROVE  Stands(offer, more)'
<1>1. signedIn \/ "account" \in changes => signedIn' \/ "account" \in more
    BY DEF Differs
<1>2. ASSUME NEW route, Allows(route) \/ "role" \in changes
      PROVE  Allows(route)' \/ "role" \in more
  <2>1. scopes' = scopes => Allows(route)' = Allows(route)
      BY DEF Allows
  <2> QED
      BY <1>2, <2>1 DEF Differs
<1>3. ~thread'.unpublished \/ "thread" \in more
    BY DEF Differs, Stands
<1>4. \A k \in DOMAIN posts :
          (~posts[k].unpublished \/ "post" \in changes) =>
              k \in DOMAIN posts' /\ (~posts'[k].unpublished \/ "post" \in more)
    BY DEF Differs, Grows
<1>5. (Closed(thread, Len(posts)) = {} \/ changes \intersect {"lock", "posts"} # {}) =>
          (Closed(thread', Len(posts')) = {} \/ more \intersect {"lock", "posts"} # {})
    BY DEF Differs
<1>6. Stands(offer, more)' <=>
          /\ offer.route \in {"reply"} \union Confirmations \union Moderations
                 => signedIn' \/ "account" \in more
          /\ offer.route \in Confirmations
                 => Allows(Confirmed(offer.route))' \/ "role" \in more
          /\ offer.route \in Moderations => Allows(offer.route)' \/ "role" \in more
          /\ ~thread'.unpublished \/ "thread" \in more
          /\ offer.route \in {"unpublish_post", "new_post_unpublication"} =>
                 /\ offer.number \in DOMAIN posts'
                 /\ ~posts'[offer.number].unpublished \/ "post" \in more
          /\ offer.route = "reply" =>
                 \/ Closed(thread', Len(posts')) = {}
                 \/ more \intersect {"lock", "posts"} # {}
    BY DEF Stands
<1> QED
    BY <1>1, <1>2, <1>3, <1>4, <1>5, <1>6 DEF Stands

\* What was read outlives a change, if the change is noted.
LEMMA FreshOn ==
    ASSUME TypeOK, Grows, NEW kind \in Changes, Differs(kind), Changed(kind), request # NULL, Fresh
    PROVE  Fresh'
<1>1. /\ request'.changes = request.changes \union {kind} /\ request'.stage = request.stage
      /\ request'.signedIn = request.signedIn /\ request'.reasons = request.reasons
      /\ request'.posts = request.posts
    BY ChangedRequest
<1>2. signedIn \/ "account" \in request.changes => signedIn' \/ "account" \in request'.changes
    BY <1>1 DEF Differs
<1>3. (~thread.unpublished \/ "thread" \in request.changes) =>
          (~thread'.unpublished \/ "thread" \in request'.changes)
    BY <1>1 DEF Differs
<1>4. (\/ Closed(thread, Len(posts)) = {}
       \/ request.changes \intersect {"lock", "posts"} # {}) =>
          (\/ Closed(thread', Len(posts')) = {}
           \/ request'.changes \intersect {"lock", "posts"} # {})
    BY <1>1 DEF Differs
<1>5. \A k \in DOMAIN posts :
          (~posts[k].unpublished \/ "post" \in request.changes) =>
              k \in DOMAIN posts' /\ (~posts'[k].unpublished \/ "post" \in request'.changes)
    BY <1>1 DEF Differs, Grows
<1> DEFINE later == {"listed", "referenced", "authored"}
<1>6. /\ request.stage \in {"resolved", "found"} \union later =>
             (request.signedIn => signedIn' \/ "account" \in request'.changes)
      /\ request.stage \in {"found"} \union later =>
             /\ ~thread'.unpublished \/ "thread" \in request'.changes
             /\ request.reasons = {} =>
                    \/ Closed(thread', Len(posts')) = {}
                    \/ request'.changes \intersect {"lock", "posts"} # {}
    BY <1>2, <1>3, <1>4 DEF Fresh
<1>7. request.stage \in later =>
          \A k \in DOMAIN request.posts :
              /\ k \in DOMAIN posts'
              /\ ~request.posts[k].unpublished =>
                     ~posts'[k].unpublished \/ "post" \in request'.changes
  <2> SUFFICES ASSUME request.stage \in later, NEW k \in DOMAIN request.posts
               PROVE  /\ k \in DOMAIN posts'
                      /\ ~request.posts[k].unpublished =>
                             ~posts'[k].unpublished \/ "post" \in request'.changes
      OBVIOUS
  <2>1. /\ k \in DOMAIN posts
        /\ ~request.posts[k].unpublished =>
               ~posts[k].unpublished \/ "post" \in request.changes
      BY DEF Fresh
  <2>2. k \in DOMAIN posts'
      BY <2>1 DEF Grows
  <2> QED
      BY <1>5, <2>1, <2>2
<1>8. /\ request'.stage \in {"resolved", "found"} \union later =>
             (request'.signedIn => signedIn' \/ "account" \in request'.changes)
      /\ request'.stage \in {"found"} \union later =>
             /\ ~thread'.unpublished \/ "thread" \in request'.changes
             /\ request'.reasons = {} =>
                    \/ Closed(thread', Len(posts')) = {}
                    \/ request'.changes \intersect {"lock", "posts"} # {}
    BY <1>1, <1>6
<1>9. request'.stage \in later =>
          \A k \in DOMAIN request'.posts :
              /\ k \in DOMAIN posts'
              /\ ~request'.posts[k].unpublished =>
                     ~posts'[k].unpublished \/ "post" \in request'.changes
    BY <1>1, <1>7
<1> QED
    BY <1>8, <1>9, Zenon DEF Fresh

\* Others leave the offers and the requests as good as they were.
LEMMA OthersLeaveStanding == ASSUME OffersStand, Others PROVE OffersStand'
<1>0. TypeOK /\ TypeOK' /\ Grows
    BY TypeNext, OthersChange DEF OffersStand, Next
<1>1. CASE UNCHANGED <<thread, posts, scopes, signedIn, request, page>>
  <2>1. \A offer, changes : Stands(offer, changes) => Stands(offer, changes)'
      BY <1>1, StandsThere
  <2>2. \A offer \in page'.offers : Stands(offer, page.changes)'
      BY <1>1, <2>1 DEF OffersStand
  <2>3. ASSUME request # NULL PROVE Asked'
    <3>1. Stands(request.offer, request.offered)'
      <4>1. PICK offer, changes : offer = request.offer /\ changes = request.offered
          OBVIOUS
      <4>2. Stands(offer, changes)'
          BY <2>1, <2>3, <4>1 DEF OffersStand, Asked
      <4> QED
          BY <1>1, <4>1, <4>2
    <3>2. Fresh => Fresh'
        BY <1>1 DEF Fresh, Closed
    <3> QED
        BY <1>1, <2>3, <3>1, <3>2 DEF OffersStand, Asked
  <2> QED
      BY <1>0, <1>1, <2>2, <2>3 DEF OffersStand
<1>2. ASSUME NEW kind \in Changes, Changed(kind), Differs(kind) PROVE OffersStand'
  <2>1. \A offer, changes, more :
            (Stands(offer, changes) /\ changes \union {kind} = more) => Stands(offer, more)'
      BY <1>0, <1>2, StandsOn
  <2>2. CASE page.offers = {}
    <3>1. page' = page
        BY <1>2, <2>2 DEF Changed
    <3>2. CASE request = NULL
      <4>1. request' = NULL
          BY <1>2, <3>2 DEF Changed
      <4> QED
          BY <1>0, <2>2, <3>1, <4>1 DEF OffersStand
    <3>3. CASE request # NULL
      <4>1. Asked
          BY <3>3 DEF OffersStand
      <4>2. /\ request'.offer = request.offer /\ request'.stage = request.stage
            /\ request'.offered = request.offered \union {kind}
            /\ request'.reasons = request.reasons
          BY <1>0, <1>2, <3>3, ChangedRequest
      <4>3. PICK offer, more : offer = request.offer /\ more = request.offered \union {kind}
          OBVIOUS
      <4>4. Stands(offer, more)'
          BY <2>1, <4>1, <4>3 DEF Asked
      <4>5. request'.offer = offer /\ request'.offered = more
          BY <4>2, <4>3
      <4>6. Stands(request.offer, request.offered)'
          BY <4>4, <4>5
      <4>7. Fresh => Fresh'
          BY <1>0, <1>2, <3>3, FreshOn
      <4>8. Asked'
          BY <2>2, <3>1, <4>1, <4>2, <4>6, <4>7 DEF Asked
      <4> QED
          BY <1>0, <2>2, <3>1, <4>8 DEF OffersStand
    <3> QED
        BY <3>2, <3>3
  <2>3. CASE page.offers # {}
    <3>1. request = NULL /\ request' = NULL
        BY <1>2, <2>3 DEF OffersStand, Asked, Changed
    <3>2. /\ page'.offers = page.offers /\ page'.changes = page.changes \union {kind}
        BY <1>0, <1>2, <2>3 DEF Changed, TypeOK, Page
    <3>3. ASSUME NEW offer \in page.offers PROVE Stands(offer, page.changes)'
      <4>1. PICK more : more = page.changes \union {kind}
          OBVIOUS
      <4>2. Stands(offer, more)'
          BY <2>1, <4>1 DEF OffersStand
      <4> QED
          BY <3>2, <4>1, <4>2
    <3> QED
        BY <1>0, <3>1, <3>2, <3>3 DEF OffersStand
  <2> QED
      BY <2>2, <2>3
<1> QED
    BY <1>0, <1>1, <1>2, OthersChange DEF OffersStand

LEMMA BeginsStanding ==
    ASSUME OffersStand, NEW offer, NEW offered, Begins(offer, offered),
           offer.route \notin {"new_thread", "sign_in"}, Stands(offer, offered)
    PROVE  OffersStand'
<1>1. TypeOK /\ UNCHANGED <<thread, posts, scopes, signedIn>>
    BY DEF OffersStand, Begins, world
<1>2. request' \in Request /\ page' \in Page /\ Grows
    BY <1>1, RestGrows, NothingIsAPage DEF Begins
<1>3. TypeOK'
    BY <1>2 DEF Grows, TypeOK
<1>4. page'.offers = {}
    BY DEF Begins, Nothing
<1>5. Stands(offer, offered)'
    BY <1>1, StandsThere
<1>6. request'.offer = offer /\ request'.offered = offered /\ request'.stage = "arrived"
    BY DEF Begins
<1>7. Stands(request.offer, request.offered)'
    BY <1>5, <1>6
<1>8. Fresh'
    BY <1>6 DEF Fresh
<1> QED
    BY <1>3, <1>4, <1>6, <1>7, <1>8 DEF OffersStand, Asked

LEMMA AdvancesStanding ==
    ASSUME OffersStand, request # NULL, NEW stage, Advances(stage),
           NEW offer, request'.offer = offer, offer.route \notin {"new_thread", "sign_in"},
           Stands(offer, request.offered),
           stage = "refused" /\ request'.reasons # {} =>
               request.offered \intersect {"lock", "posts"} # {},
           offer.route = "show" => Fresh'
    PROVE  OffersStand'
<1>1. TypeOK /\ Asked /\ UNCHANGED <<thread, posts, scopes, signedIn>>
    BY DEF OffersStand, Advances, world
<1>2. request' \in Request /\ page' = page /\ Grows
    BY <1>1, RestGrows DEF Advances
<1>3. TypeOK'
    BY <1>1, <1>2 DEF Grows, TypeOK
<1>4. PICK offered : offered = request.offered
    OBVIOUS
<1>5. Stands(offer, offered)'
    BY <1>1, <1>4, StandsThere
<1>6. request'.offer = offer /\ request'.offered = offered /\ request'.stage = stage
    BY <1>4 DEF Advances
<1>7. Stands(request.offer, request.offered)'
    BY <1>5, <1>6
<1> QED
    BY <1>1, <1>2, <1>3, <1>4, <1>6, <1>7 DEF OffersStand, Asked

LEMMA EndsStanding ==
    ASSUME OffersStand, Ends, NEW changes, page'.changes = changes,
           \A offer \in page'.offers : Stands(offer, changes)
    PROVE  OffersStand'
<1>1. TypeOK /\ UNCHANGED <<thread, posts, scopes, signedIn>>
    BY DEF OffersStand, Ends, world
<1>2. request' = NULL /\ page' \in Page /\ Grows
    BY <1>1, RestGrows DEF Ends
<1>3. TypeOK'
    BY <1>2 DEF Grows, TypeOK
<1>4. ASSUME NEW offer \in page'.offers PROVE Stands(offer, page.changes)'
  <2>1. Stands(offer, changes)'
      BY <1>1, <1>4, StandsThere
  <2> QED
      BY <2>1
<1> QED
    BY <1>2, <1>3, <1>4 DEF OffersStand

LEMMA SaysStanding == ASSUME OffersStand, NEW view, Says(view) PROVE OffersStand'
<1>1. PICK changes : changes = page'.changes
    OBVIOUS
<1> QED
    BY <1>1, EndsStanding DEF Says

LEMMA ReturnsStanding == ASSUME OffersStand, Returns, Grows PROVE OffersStand'
<1>1. TypeOK /\ Asked /\ request' \in Request /\ page' = page
    BY RequestIsNotNull DEF OffersStand, Returns
<1>2. TypeOK'
    BY <1>1 DEF Grows, TypeOK
<1>3. PICK offer, offered : offer = Offer("show", 0) /\ offered = request.changes
    OBVIOUS
<1>4. offer.route = "show"
    BY <1>3 DEF Offer
<1>5. ~thread'.unpublished
    BY DEF Returns
<1>6. Stands(offer, offered)'
    BY <1>4, <1>5 DEF Stands, Confirmations, Moderations
<1>7. request'.offer = offer /\ request'.offered = offered /\ request'.stage = "arrived"
    BY <1>3 DEF Returns
<1>8. Stands(request.offer, request.offered)'
    BY <1>6, <1>7
<1>9. Fresh'
    BY <1>7 DEF Fresh
<1>10. Asked'
    BY <1>1, <1>4, <1>7, <1>8, <1>9 DEF Asked
<1> QED
    BY <1>1, <1>2, <1>10 DEF OffersStand, Asked

\* Reading the page of the thread.
LEMMA ReadsStanding ==
    ASSUME OffersStand, ResolveVisitor \/ FindThread \/ ListPosts \/ ListReferences \/ ListAuthors
    PROVE  OffersStand'
<1>0. TypeOK /\ request # NULL /\ Asked /\ request.offer.route = "show" /\ Fresh
    BY DEF OffersStand, Asked, ResolveVisitor, FindThread, ListPosts, ListReferences,
           ListAuthors, At
<1>1. ASSUME NEW stage \in {"resolved", "found", "listed", "referenced", "authored"},
             Advances(stage), request'.offer = request.offer, Fresh'
      PROVE  OffersStand'
  <2>1. PICK offer : offer = request.offer
      OBVIOUS
  <2> QED
      BY <1>0, <1>1, <2>1, AdvancesStanding DEF Asked
<1>2. ASSUME NEW stage, Advances(stage)
      PROVE  /\ request'.changes = request.changes /\ request'.stage = stage
             /\ UNCHANGED <<thread, posts, scopes, signedIn>>
    BY <1>2 DEF Advances, world
<1>3. CASE ResolveVisitor
  <2>1. /\ Advances("resolved") /\ request'.offer = request.offer
        /\ request'.signedIn = signedIn
      BY <1>0, <1>3, VisitorResolved
  <2>2. Fresh'
      BY <1>2, <2>1 DEF Fresh
  <2> QED
      BY <1>1, <2>1, <2>2
<1>4. CASE FindThread
  <2>1. CASE Says("unpublished")
      BY <2>1, SaysStanding
  <2>2. CASE ~Says("unpublished")
    <3>1. /\ Advances("found") /\ request'.offer = request.offer /\ ~thread.unpublished
          /\ request'.signedIn = request.signedIn
          /\ request'.reasons = Closed(thread, Len(posts))
        BY <1>0, <1>4, <2>2, ThreadFound
    <3>2. request.stage = "resolved"
        BY <1>4 DEF FindThread, At
    <3>3. request.signedIn => signedIn \/ "account" \in request.changes
        BY <1>0, <3>2 DEF Fresh
    <3>4. Closed(thread, Len(posts))' = Closed(thread, Len(posts))
        BY <1>2, <3>1
    <3>5. Fresh'
        BY <1>2, <3>1, <3>3, <3>4 DEF Fresh
    <3> QED
        BY <1>1, <3>1, <3>5
  <2> QED
      BY <2>1, <2>2
<1>5. CASE ListPosts
  <2>1. /\ Advances("listed") /\ request'.offer = request.offer
        /\ request'.signedIn = request.signedIn
        /\ request'.reasons = request.reasons /\ request'.posts = posts
      BY <1>0, <1>5, PostsListed
  <2>2. request.stage = "found"
      BY <1>5 DEF ListPosts, At
  <2>3. Closed(thread, Len(posts))' = Closed(thread, Len(posts))
      BY <1>2, <2>1
  <2>4. Fresh'
      BY <1>0, <1>2, <2>1, <2>2, <2>3 DEF Fresh
  <2> QED
      BY <1>1, <2>1, <2>4
<1>6. CASE ListReferences \/ ListAuthors
  <2>1. PICK stage \in {"referenced", "authored"} :
            /\ Advances(stage) /\ request'.offer = request.offer
            /\ request'.signedIn = request.signedIn
            /\ request'.reasons = request.reasons /\ request'.posts = request.posts
      BY <1>0, <1>6, ReferencesListed, AuthorsListed
  <2>2. request.stage \in {"listed", "referenced"}
      BY <1>6 DEF ListReferences, ListAuthors, At
  <2>3. Closed(thread, Len(posts))' = Closed(thread, Len(posts))
      BY <1>2, <2>1
  <2>4. Fresh'
      BY <1>0, <1>2, <2>1, <2>2, <2>3 DEF Fresh
  <2> QED
      BY <1>1, <2>1, <2>4
<1> QED
    BY <1>3, <1>4, <1>5, <1>6

\* What the page of the thread offers is what its visitor may do, unless that has changed.
LEMMA ShownStanding == ASSUME OffersStand, ShowThread PROVE OffersStand'
<1>1. TypeOK /\ request # NULL /\ Fresh /\ request.stage = "authored"
    BY DEF OffersStand, Asked, ShowThread, At
<1>2. /\ Ends /\ page'.changes = request.changes
      /\ page'.offers = ReplyForm \union LockNotice \union ShowModeration
    BY <1>1, PageShown
<1>3. PICK changes : changes = request.changes
    OBVIOUS
<1>4. /\ request.signedIn => signedIn \/ "account" \in changes
      /\ ~thread.unpublished \/ "thread" \in changes
      /\ request.reasons = {} =>
            Closed(thread, Len(posts)) = {} \/ changes \intersect {"lock", "posts"} # {}
      /\ \A k \in DOMAIN request.posts :
            /\ k \in DOMAIN posts
            /\ ~request.posts[k].unpublished => ~posts[k].unpublished \/ "post" \in changes
    BY <1>1, <1>3 DEF Fresh
<1>5. ASSUME NEW offer \in ReplyForm PROVE Stands(offer, changes)
  <2>1. offer.route = "sign_in" \/ offer.route = "reply"
      BY <1>5 DEF ReplyForm, Offer
  <2>2. offer.route = "reply" => request.reasons = {} /\ request.signedIn
      BY <1>5 DEF ReplyForm, Offer
  <2> QED
      BY <1>4, <2>1, <2>2 DEF Stands, Confirmations, Moderations
<1>6. ASSUME NEW offer \in LockNotice PROVE Stands(offer, changes)
  <2>1. offer.route = "new_thread"
      BY <1>6 DEF LockNotice, Offer
  <2> QED
      BY <1>4, <2>1 DEF Stands, Confirmations, Moderations
<1>7. ASSUME NEW offer \in ShowModeration PROVE Stands(offer, changes)
  <2>0. request.signedIn
      BY <1>7 DEF ShowModeration
  <2>1. CASE offer \in LockLink
    <3>1. offer.route \in {"unlock", "new_lock"} /\ "lock" \in scopes
        BY <2>1 DEF LockLink, Offer
    <3> QED
        BY <1>4, <2>0, <3>1 DEF Stands, Confirmations, Moderations, Confirmed, Allows
  <2>2. CASE offer \in ThreadUnpublicationLink
    <3>1. offer.route = "new_thread_unpublication" /\ "unpublish_thread" \in scopes
        BY <2>2 DEF ThreadUnpublicationLink, Offer
    <3> QED
        BY <1>4, <2>0, <3>1 DEF Stands, Confirmations, Moderations, Confirmed, Allows
  <2>3. CASE offer \in PostUnpublicationLinks
    <3>1. PICK k \in DOMAIN request.posts :
              ~request.posts[k].unpublished /\ offer = Offer("new_post_unpublication", k)
        BY <2>3 DEF PostUnpublicationLinks, IsHidden
    <3>2. /\ offer.route = "new_post_unpublication" /\ offer.number = k
          /\ "unpublish_post" \in scopes
        BY <2>3, <3>1 DEF PostUnpublicationLinks, Offer
    <3>3. k \in DOMAIN posts /\ (~posts[k].unpublished \/ "post" \in changes)
        BY <1>4, <3>1
    <3> QED
        BY <1>4, <2>0, <3>2, <3>3 DEF Stands, Confirmations, Moderations, Confirmed, Allows
  <2> QED
      BY <1>7, <2>1, <2>2, <2>3 DEF ShowModeration
<1>8. \A offer \in page'.offers : Stands(offer, changes)
    BY <1>2, <1>5, <1>6, <1>7
<1> QED
    BY <1>2, <1>3, <1>8, EndsStanding

\* A request that is resolved or allowed goes on with the offer it follows.
LEMMA GoesOnStanding ==
    ASSUME OffersStand, request # NULL, request.offer.route # "show",
           NEW stage \in {"resolved", "allowed"}, Advances(stage), request'.offer = request.offer
    PROVE  OffersStand'
<1>1. PICK offer : offer = request.offer
    OBVIOUS
<1> QED
    BY <1>1, AdvancesStanding DEF OffersStand, Asked

\* A confirmation offers what led to it, and it stands as the page before does.
LEMMA ConfirmsStanding ==
    ASSUME OffersStand, FindModerated
    PROVE  OffersStand'
<1>1. TypeOK
    BY DEF OffersStand
<1>2. PICK route \in Confirmations :
          /\ At(route, "allowed")
          /\ \/ \E view : Says(view)
             \/ /\ Ends /\ ~thread.unpublished /\ ~PostIsGone
                /\ page'.view = route /\ page'.offers = Confirmable(route)
                /\ page'.changes = request.offered
    BY <1>1, ModeratedFound
<1>3. CASE \E view : Says(view)
    BY <1>3, SaysStanding
<1>4. CASE /\ Ends /\ ~thread.unpublished /\ ~PostIsGone
           /\ page'.offers = Confirmable(route) /\ page'.changes = request.offered
  <2>1. PICK changes, number : changes = request.offered /\ number = request.offer.number
      OBVIOUS
  <2>2. request.offer.route = route /\ Stands(request.offer, changes)
      BY <1>2, <2>1 DEF At, OffersStand, Asked
  <2>3. /\ signedIn \/ "account" \in changes
        /\ Allows(Confirmed(route)) \/ "role" \in changes
        /\ route = "new_post_unpublication" =>
              /\ number \in DOMAIN posts
              /\ ~posts[number].unpublished \/ "post" \in changes
      BY <2>1, <2>2 DEF Stands
  <2>4. ASSUME NEW offer \in Confirmable(route)
        PROVE  \/ offer.route = "show"
               \/ offer.route = Confirmed(route) /\ offer.number \in {0, number}
                  /\ (route = "new_post_unpublication" => offer.number = number)
      BY <2>1, <2>4
         DEF Confirmable, Confirmations, NewLock, NewThreadUnpublication,
             NewPostUnpublication, Offer, Confirmed
  <2>5. /\ Confirmed(route) \in Moderations
        /\ Confirmed(route) = "unpublish_post" => route = "new_post_unpublication"
      BY DEF Confirmed, Confirmations, Moderations
  <2>6. ASSUME NEW offer \in Confirmable(route) PROVE Stands(offer, changes)
    <3>1. CASE offer.route = "show"
        BY <1>4, <3>1 DEF Stands, Confirmations, Moderations
    <3>2. CASE offer.route = Confirmed(route)
      <4>1. offer.route \in Moderations /\ offer.route \notin Confirmations
            /\ offer.route # "reply" /\ offer.route # "new_post_unpublication"
          BY <2>5, <3>2 DEF Confirmations, Moderations
      <4>2. offer.route = "unpublish_post" => offer.number = number
          BY <2>4, <2>5, <2>6, <3>2, <4>1 DEF Moderations
      <4>3. Allows(offer.route) \/ "role" \in changes
          BY <2>3, <3>2
      <4> QED
          BY <1>4, <2>3, <2>5, <3>2, <4>1, <4>2, <4>3 DEF Stands
    <3> QED
        BY <2>4, <2>6, <3>1, <3>2
  <2> QED
      BY <1>4, <2>1, <2>6, EndsStanding
<1> QED
    BY <1>2, <1>3, <1>4

\* A confirmation that is shown again confirms the same.
LEMMA AgainStanding == ASSUME OffersStand, RefuseReason PROVE OffersStand'
<1>1. TypeOK
    BY DEF OffersStand
<1>2. PICK route \in Confirmations :
          /\ At(Confirmed(route), "allowed")
          /\ Advances("resolved")
          /\ request'.offer = [route |-> route, number |-> request.offer.number]
    BY <1>1, ReasonRefused
<1>3. PICK offer, number :
          number = request.offer.number /\ offer = [route |-> route, number |-> number]
    OBVIOUS
<1>4. /\ request # NULL /\ request.offer.route = Confirmed(route)
      /\ Stands(request.offer, request.offered)
    BY <1>2 DEF At, OffersStand, Asked
<1>5. /\ Confirmed(route) \in Moderations
      /\ route = "new_post_unpublication" => Confirmed(route) = "unpublish_post"
      /\ route \notin Moderations
      /\ route \notin {"reply", "show", "new_thread", "sign_in", "unpublish_post"}
    BY DEF Confirmed, Confirmations, Moderations
<1>6. /\ signedIn \/ "account" \in request.offered
      /\ Allows(Confirmed(route)) \/ "role" \in request.offered
      /\ ~thread.unpublished \/ "thread" \in request.offered
      /\ route = "new_post_unpublication" =>
            /\ number \in DOMAIN posts
            /\ ~posts[number].unpublished \/ "post" \in request.offered
    BY <1>3, <1>4, <1>5 DEF Stands
<1>7. offer.route = route /\ offer.number = number /\ request'.offer = offer
    BY <1>2, <1>3
<1>8. Stands(offer, request.offered)
    BY <1>5, <1>6, <1>7 DEF Stands
<1> QED
    BY <1>2, <1>4, <1>5, <1>7, <1>8, AdvancesStanding

LEMMA RepliesStanding ==
    ASSUME OffersStand, Reply \/ RefuseReply \/ RetryPage
    PROVE  OffersStand'
<1>0. /\ TypeOK /\ request # NULL /\ Asked /\ request.offer.route = "reply"
    BY DEF OffersStand, Reply, RefuseReply, RetryPage, At
<1>1. ASSUME Advances("refused"), request'.offer = request.offer,
             request'.reasons # {} => request.offered \intersect {"lock", "posts"} # {}
      PROVE  OffersStand'
  <2>1. PICK offer : offer = request.offer
      OBVIOUS
  <2> QED
      BY <1>0, <1>1, <2>1, AdvancesStanding DEF Asked
<1>2. CASE Reply
  <2>1. CASE Says("unpublished")
      BY <2>1, SaysStanding
  <2>2. CASE /\ Advances("refused") /\ request'.offer = request.offer
             /\ request'.reasons = Closed(thread, Len(posts))
    <3>1. Closed(thread, Len(posts)) = {} \/ request.offered \intersect {"lock", "posts"} # {}
        BY <1>0 DEF Asked, Stands
    <3> QED
        BY <1>1, <2>2, <3>1
  <2>3. CASE Returns /\ Grows
      BY <2>3, ReturnsStanding
  <2> QED
      BY <1>0, <1>2, <2>1, <2>2, <2>3, Replying
<1>3. CASE RefuseReply
    BY <1>0, <1>1, <1>3, ReplyRefused
<1>4. CASE RetryPage
  <2>1. CASE Says("unpublished")
      BY <2>1, SaysStanding
  <2>2. CASE ~Says("unpublished")
    <3>1. /\ Ends /\ ~thread.unpublished /\ page'.changes = request.offered
          /\ page'.offers = {Offer("show", 0)} \union RetryForm
        BY <1>0, <1>4, <2>2, Retrying
    <3>2. PICK changes : changes = request.offered
        OBVIOUS
    <3>3. /\ signedIn \/ "account" \in changes
          /\ Closed(thread, Len(posts)) = {} \/ changes \intersect {"lock", "posts"} # {}
        BY <1>0, <3>2 DEF Asked, Stands
    <3>4. ASSUME NEW offer \in page'.offers PROVE Stands(offer, changes)
      <4>1. offer.route \in {"show", "reply"}
          BY <3>1, <3>4 DEF Offer, RetryForm
      <4> QED
          BY <3>1, <3>3, <4>1 DEF Stands, Confirmations, Moderations
    <3> QED
        BY <3>1, <3>2, <3>4, EndsStanding
  <2> QED
      BY <2>1, <2>2
<1> QED
    BY <1>2, <1>3, <1>4

LEMMA StandingNext == OffersStand /\ [Next]_vars => OffersStand'
<1> SUFFICES ASSUME OffersStand, [Next]_vars PROVE OffersStand'
    OBVIOUS
<1>0. TypeOK /\ TypeOK'
    BY TypeNext DEF OffersStand
<1>1. CASE UNCHANGED vars
  <2>1. UNCHANGED <<thread, posts, scopes, signedIn, request, page>>
      BY <1>1 DEF vars
  <2>2. ASSUME NEW offer, NEW changes, Stands(offer, changes) PROVE Stands(offer, changes)'
      BY <2>1, <2>2, StandsThere
  <2>3. \A offer \in page.offers : Stands(offer, page.changes)'
    <3>1. PICK changes : changes = page.changes
        OBVIOUS
    <3>2. \A offer \in page.offers : Stands(offer, changes)'
        BY <2>2, <3>1 DEF OffersStand
    <3> QED
        BY <2>1, <3>1, <3>2
  <2>4. ASSUME request # NULL PROVE Asked'
    <3>1. PICK offer, changes : offer = request.offer /\ changes = request.offered
        OBVIOUS
    <3>2. Stands(offer, changes)'
        BY <2>2, <2>4, <3>1 DEF OffersStand, Asked
    <3>3. Stands(request.offer, request.offered)'
        BY <2>1, <3>1, <3>2
    <3>4. Fresh => Fresh'
        BY <2>1 DEF Fresh, Closed
    <3> QED
        BY <2>1, <2>4, <3>3, <3>4 DEF OffersStand, Asked
  <2> QED
      BY <1>0, <2>1, <2>3, <2>4 DEF OffersStand
<1>2. CASE Others
    BY <1>2, OthersLeaveStanding
<1>3. CASE Open
  <2>1. PICK offer : offer = Offer("show", 0)
      OBVIOUS
  <2>2. Begins(offer, Changes) /\ offer.route = "show"
      BY <1>0, <1>3, <2>1, Opening DEF Offer
  <2>3. Stands(offer, Changes)
      BY <2>2 DEF Stands, Changes, Confirmations, Moderations
  <2> QED
      BY <2>2, <2>3, BeginsStanding
<1>4. CASE TakeUp
    BY <1>0, <1>4, TakingUp, BeginsStanding DEF OffersStand
<1>5. CASE ResolveVisitor \/ FindThread \/ ListPosts \/ ListReferences \/ ListAuthors
    BY <1>5, ReadsStanding
<1>6. CASE ShowThread
    BY <1>6, ShownStanding
<1>7. CASE ResolveMember
  <2>1. CASE Says("sign_in")
      BY <2>1, SaysStanding
  <2>2. CASE ~Says("sign_in")
    <3>1. /\ request \in Request /\ request.offer.route # "show"
          /\ Advances("resolved") /\ request'.offer = request.offer
        BY <1>0, <1>7, <2>2, MemberResolved
    <3> QED
        BY <3>1, GoesOnStanding, RequestIsNotNull
  <2> QED
      BY <2>1, <2>2
<1>8. CASE ResolvePolicy
  <2>1. CASE Says("forbidden")
      BY <2>1, SaysStanding
  <2>2. CASE ~Says("forbidden")
    <3>1. PICK route \in Confirmations \union Moderations :
              At(route, "resolved") /\ Advances("allowed") /\ request'.offer = request.offer
        BY <1>0, <1>8, <2>2, PolicyResolved
    <3>2. request # NULL /\ request.offer.route # "show"
        BY <3>1 DEF At, Confirmations, Moderations
    <3> QED
        BY <3>1, <3>2, GoesOnStanding
  <2> QED
      BY <2>1, <2>2
<1>9. CASE FindModerated
    BY <1>9, ConfirmsStanding
<1>10. CASE RefuseReason
    BY <1>10, AgainStanding
<1>11. CASE SetLock \/ UnpublishPost
    BY <1>0, <1>11, LockSet, PostTakenDown, SaysStanding, ReturnsStanding
<1>12. CASE UnpublishThread
  <2>1. request' = NULL /\ page'.offers = {}
      BY <1>0, <1>12, ThreadTakenDown
  <2> QED
      BY <1>0, <2>1 DEF OffersStand
<1>13. CASE Reply \/ RefuseReply \/ RetryPage
    BY <1>13, RepliesStanding
<1>14. CASE Fail
    BY <1>0, <1>14, Failing, SaysStanding
<1> QED
    BY <1>1, <1>2, <1>3, <1>4, <1>5, <1>6, <1>7, <1>8, <1>9, <1>10, <1>11, <1>12, <1>13, <1>14
       DEF Next, Visitor

LEMMA StandingAlways == Spec => []OffersStand
<1>1. Init => OffersStand
    BY TypeInit DEF Init, OffersStand, Nothing
<1> QED
    BY <1>1, StandingNext, PTL DEF Spec

\* Whoever takes up what a page of the thread offers is refused only for what has changed since
\* the request for that page arrived, however its reads, the confirmation and the changes of
\* others interleave (show.templ, get_thread_moderation.go, the moderating use cases,
\* create_post.go).
THEOREM OffersAreGood == Spec => OffersAreHonoured
<1> DEFINE Good ==
        (request # NULL /\ request' = NULL) =>
            /\ page'.view = "sign_in" => "account" \in request.offered
            /\ page'.view = "forbidden" => "role" \in request.offered
            /\ page'.view = "unpublished" => "thread" \in request.offered
            /\ page'.view = "not_found" => "post" \in request.offered
            /\ (page'.view = "retry" /\ page'.reasons # {}) =>
                   request.offered \intersect {"lock", "posts"} # {}
<1>1. ASSUME OffersStand, [Next]_vars PROVE Good
  <2> SUFFICES ASSUME request # NULL, request' = NULL PROVE Good
      OBVIOUS
  <2>0. TypeOK /\ Asked /\ request \in Request
      BY <1>1, Advancing DEF OffersStand
  <2>1. ASSUME NEW stage, Advances(stage) PROVE FALSE
      BY <2>1, RequestIsNotNull DEF Advances
  <2>2. ~thread.unpublished \/ "thread" \in request.offered
      BY <2>0 DEF Asked, Stands
  <2>3. CASE Says("error") \/ (Says("unpublished") /\ thread.unpublished)
      BY <2>2, <2>3 DEF Says
  <2>4. CASE Others
      BY <2>0, <2>4, OthersChange, ChangedRequest, RequestIsNotNull
  <2>5. CASE Open \/ TakeUp
      BY <2>5 DEF Open, TakeUp
  <2>6. CASE ResolveVisitor \/ FindThread \/ ListPosts \/ ListReferences \/ ListAuthors
      BY <2>0, <2>1, <2>3, <2>6, VisitorResolved, ThreadFound, PostsListed, ReferencesListed,
         AuthorsListed
  <2>7. CASE ShowThread
      BY <2>0, <2>7, PageShown
  <2>8. CASE ResolveMember
    <3>1. Says("sign_in") /\ ~signedIn /\ request.offer.route # "show"
        BY <2>0, <2>1, <2>8, MemberResolved
    <3>2. request.offer.route \in {"reply"} \union Confirmations \union Moderations
        BY <2>0, <3>1 DEF Asked, Request, Offers
    <3>3. "account" \in request.offered
        BY <2>0, <3>1, <3>2 DEF Asked, Stands
    <3> QED
        BY <3>1, <3>3 DEF Says
  <2>9. CASE ResolvePolicy
    <3>1. PICK route \in Confirmations \union Moderations :
              At(route, "resolved") /\ Says("forbidden") /\ ~Allows(route)
        BY <2>0, <2>1, <2>9, PolicyResolved
    <3>2. route \in Confirmations => ~Allows(Confirmed(route))
        BY <3>1 DEF Allows, Confirmed, Confirmations, Moderations
    <3>3. "role" \in request.offered
        BY <2>0, <3>1, <3>2 DEF Asked, Stands, At
    <3> QED
        BY <3>1, <3>3 DEF Says
  <2>10. CASE FindModerated
    <3>1. PICK route \in Confirmations :
              /\ At(route, "allowed")
              /\ \/ Says("unpublished") /\ thread.unpublished
                 \/ /\ Says("not_found")
                    /\ route = "new_post_unpublication"
                    /\ posts[request.offer.number].unpublished
                 \/ page'.view = route
        BY <2>0, <2>10, ModeratedFound
    <3>2. CASE /\ Says("not_found") /\ route = "new_post_unpublication"
               /\ posts[request.offer.number].unpublished
      <4>1. "post" \in request.offered
          BY <2>0, <3>1, <3>2 DEF Asked, Stands, At
      <4> QED
          BY <3>2, <4>1 DEF Says
    <3>3. CASE page'.view = route
        BY <3>1, <3>3 DEF Confirmations
    <3> QED
        BY <2>3, <3>1, <3>2, <3>3
  <2>11. CASE RefuseReason
      BY <2>0, <2>1, <2>11, ReasonRefused
  <2>12. CASE SetLock \/ UnpublishPost
      BY <2>0, <2>3, <2>12, LockSet, PostTakenDown, RequestIsNotNull DEF Returns
  <2>13. CASE UnpublishThread
      BY <2>0, <2>13, ThreadTakenDown
  <2>14. CASE Reply \/ RefuseReply
      BY <2>0, <2>1, <2>3, <2>14, Replying, ReplyRefused, RequestIsNotNull DEF Returns
  <2>15. CASE RetryPage
    <3>1. At("reply", "refused")
        BY <2>0, <2>15, Retrying
    <3>2. CASE page'.view = "retry" /\ page'.reasons = request.reasons
        BY <2>0, <3>1, <3>2 DEF Asked, At
    <3> QED
        BY <2>0, <2>3, <2>15, <3>2, Retrying
  <2>16. CASE Fail
      BY <2>0, <2>3, <2>16, Failing
  <2>17. ~UNCHANGED vars
      BY DEF vars
  <2> QED
      BY <1>1, <2>4, <2>5, <2>6, <2>7, <2>8, <2>9, <2>10, <2>11, <2>12, <2>13, <2>14, <2>15,
         <2>16, <2>17 DEF Next, Visitor
<1> QED
    BY <1>1, StandingAlways, PTL DEF Spec, OffersAreHonoured

-----------------------------------------------------------------------------
\* However a reply is refused, and whatever happens while its answer is composed, its text comes
\* back, unless the thread has gone, the visitor is signed out or the database fails
\* (handler/post/create.go).
THEOREM TextComesBack == Spec => TextIsNeverLost
<1> DEFINE Kept ==
        (request # NULL /\ request.offer.route = "reply" /\ request' = NULL) =>
            \/ page'.draft
            \/ page'.view = "unpublished" /\ thread.unpublished
            \/ page'.view = "sign_in" /\ ~signedIn
            \/ page'.view = "error"
<1>1. ASSUME TypeOK, [Next]_vars PROVE Kept
  <2> SUFFICES ASSUME request # NULL, request.offer.route = "reply", request' = NULL PROVE Kept
      OBVIOUS
  <2>0. request \in Request
      BY <1>1, Advancing
  <2>1. ASSUME NEW stage, Advances(stage) PROVE FALSE
      BY <2>1, RequestIsNotNull DEF Advances
  <2>2. ASSUME NEW route, NEW stage, At(route, stage) PROVE route = "reply"
      BY <2>2 DEF At
  <2>3. ASSUME NEW route \in Confirmations \union Moderations PROVE route # "reply"
      BY DEF Confirmations, Moderations
  <2>4. CASE Others
      BY <1>1, <2>0, <2>4, OthersChange, ChangedRequest, RequestIsNotNull
  <2>5. CASE Open \/ TakeUp
      BY <2>5 DEF Open, TakeUp
  <2>6. CASE \/ ResolveVisitor \/ FindThread \/ ListPosts \/ ListReferences \/ ListAuthors
             \/ ShowThread
      BY <2>6 DEF ResolveVisitor, FindThread, ListPosts, ListReferences, ListAuthors, ShowThread,
                  At
  <2>7. CASE ResolveMember
    <3>1. Says("sign_in") /\ ~signedIn
        BY <1>1, <2>1, <2>7, MemberResolved
    <3> QED
        BY <3>1 DEF Says
  <2>8. CASE ResolvePolicy \/ FindModerated
      BY <2>3, <2>8 DEF ResolvePolicy, FindModerated, Moderating, At
  <2>9. CASE RefuseReason
      BY <2>9 DEF RefuseReason, Confirmed, Confirmations, At
  <2>10. CASE SetLock \/ UnpublishThread \/ UnpublishPost
      BY <2>10 DEF SetLock, UnpublishThread, UnpublishPost, At
  <2>11. CASE Says("unpublished") /\ thread.unpublished
      BY <2>11 DEF Says
  <2>12. CASE Reply \/ RefuseReply
      BY <1>1, <2>1, <2>11, <2>12, Replying, ReplyRefused, RequestIsNotNull DEF Returns
  <2>13. CASE RetryPage
    <3>1. CASE ~thread.unpublished
        BY <2>13, <3>1 DEF RetryPage, Answer, KeepsDraft
    <3>2. CASE thread.unpublished
        BY <2>13, <3>2 DEF RetryPage, SayUnpublished, Say, Answer
    <3> QED
        BY <3>1, <3>2
  <2>14. CASE Fail
      BY <2>14 DEF Fail, Say, Answer
  <2>15. ~UNCHANGED vars
      BY DEF vars
  <2> QED
      BY <1>1, <2>4, <2>5, <2>6, <2>7, <2>8, <2>9, <2>10, <2>12, <2>13, <2>14, <2>15
         DEF Next, Visitor
<1> QED
    BY <1>1, ThreadPagesTypeCorrect, PTL DEF Spec, TextIsNeverLost
=============================================================================
