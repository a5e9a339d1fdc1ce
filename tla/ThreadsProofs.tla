--------------------------- MODULE ThreadsProofs ---------------------------
(***************************************************************************)
(* Theorems about the conversation, for every set of accounts and requests *)
(* and every value of the limits: its tables hold together (Coherent), its *)
(* history and its accounts agree with them, and it implements the board   *)
(* of module Conversation.                                                 *)
(***************************************************************************)
EXTENDS ThreadsRefinement, FiniteSetTheorems, FunctionTheorems, SequenceTheorems, TLAPS

-----------------------------------------------------------------------------
(* Rows of tables *)

\* An appended row is the last one, and the others keep their ids.
LEMMA AppendedRow ==
    ASSUME NEW S, NEW table \in Seq(S), NEW row \in S
    PROVE  /\ Append(table, row) \in Seq(S)
           /\ Len(Append(table, row)) = Len(table) + 1
           /\ DOMAIN Append(table, row) = DOMAIN table \union {Len(table) + 1}
           /\ Append(table, row)[Len(table) + 1] = row
           /\ \A i \in DOMAIN table : Append(table, row)[i] = table[i]
           /\ Len(table) + 1 \notin DOMAIN table
    OBVIOUS

\* An updated row keeps its id, and the others keep their contents.
LEMMA UpdatedRow ==
    ASSUME NEW S, NEW table \in Seq(S), NEW i \in DOMAIN table, NEW row \in S
    PROVE  /\ [table EXCEPT ![i] = row] \in Seq(S)
           /\ DOMAIN [table EXCEPT ![i] = row] = DOMAIN table
           /\ [table EXCEPT ![i] = row][i] = row
           /\ \A j \in DOMAIN table \ {i} : [table EXCEPT ![i] = row][j] = table[j]
    OBVIOUS

\* A table rewritten row by row keeps its ids.
LEMMA RewrittenRows ==
    ASSUME NEW S, NEW table \in Seq(S), NEW new,
           DOMAIN new = DOMAIN table, new = [i \in DOMAIN table |-> new[i]],
           \A i \in DOMAIN table : new[i] \in S
    PROVE  new \in Seq(S) /\ Len(new) = Len(table)
    OBVIOUS

\* What the checks of the use cases can answer.
LEMMA AnswerTypes ==
    ASSUME NEW q, NEW t
    PROVE  /\ ReplyAnswer(q) \in Answers
           /\ ThreadAnswer(q) \in Answers
           /\ ModeratedThreadAnswer(t) \in Answers
    BY DEF ReplyAnswer, ThreadAnswer, ModeratedThreadAnswer, Answers

-----------------------------------------------------------------------------
(* Types *)

LEMMA TypeInit == Init => TypeOK
    BY ConstantsAssumption, EmptySeq
    DEF Init, TypeOK, Account, MaybeTime, Time, Request, Answers

\* Only a request that names an existing thread is answered "created".
LEMMA CreatedReply ==
    ASSUME NEW q, ReplyAnswer(q) = "created"
    PROVE  /\ q.thread \in DOMAIN threads
           /\ threads[q.thread].unpublishedAt = NULL
           /\ Found(q.user)
           /\ LockReasons(q.thread) = {}
           /\ MayPostNow(q.user)
    BY DEF ReplyAnswer

LEMMA ThreadColumns ==
    ASSUME NEW row \in Thread, NEW count \in Nat, NEW post \in Nat, NEW at \in Time,
           NEW mark \in MaybeTime
    PROVE  /\ WithLastPost(row, count, post, at) \in Thread
           /\ [row EXCEPT !.lockedAt = mark] \in Thread
           /\ [row EXCEPT !.unpublishedAt = mark] \in Thread
    BY DEF Thread, WithLastPost

LEMMA TypeArrive ==
    ASSUME TypeOK, ArriveStep
    PROVE  TypeOK'
<1>1. PICK r \in Requests, u \in Users, op \in Operations, t \in Nat, n \in Nat,
           cites \in Citations : Arrive(r, op, u, t, n, cites)
    BY ConstantsAssumption DEF ArriveStep, TypeOK
<1>2. [op |-> op, user |-> u, thread |-> t, number |-> n, cites |-> cites] \in Request
    BY DEF Request
<1>3. requests' \in [Requests -> Request]
    BY <1>1, <1>2 DEF Arrive, TypeOK
<1> QED
    BY <1>1, <1>3 DEF Arrive, TypeOK, contentVars, Answers

LEMMA TypeAnswered ==
    ASSUME TypeOK, NEW r \in Requests, NEW code \in Answers, Answered(r, code)
    PROVE  requests' \in [Requests -> Request] /\ answer' \in Answers
    BY DEF TypeOK, Answered, Request

LEMMA HandledRequest ==
    ASSUME TypeOK, NEW r \in Requests, NEW op, Handles(r, op)
    PROVE  requests[r] \in [op : Operations, user : Users, thread : Nat, number : Nat,
                            cites : Citations]
    BY DEF TypeOK, Handles, Request

LEMMA TypeCreatePost ==
    ASSUME TypeOK, NEW r \in Requests, CreatePost(r)
    PROVE  TypeOK'
<1> DEFINE q == requests[r]
           number == threads[q.thread].postsCount + 1
           id == Len(posts) + 1
<1>1. q \in [op : Operations, user : Users, thread : Nat, number : Nat, cites : Citations]
    BY HandledRequest DEF CreatePost
<1>2. requests' \in [Requests -> Request] /\ answer' \in Answers
    BY TypeAnswered, AnswerTypes DEF CreatePost
<1>3. CASE ReplyAnswer(q) # "created"
    BY <1>2, <1>3 DEF CreatePost, TypeOK
<1>4. CASE ReplyAnswer(q) = "created"
  <2>1. q.thread \in DOMAIN threads /\ threads[q.thread] \in Thread
      BY <1>4, CreatedReply, ElementOfSeq, LenProperties DEF TypeOK
  <2>2. number \in Nat /\ id \in Nat /\ clock \in Time
      BY <2>1, LenProperties DEF TypeOK, Thread, Time
  <2>3. NewPost(q.thread, q.user, number) \in Post
      BY <1>1, <2>2 DEF NewPost, Post, MaybeUser, MaybeTime
  <2>4. posts' \in Seq(Post)
    <3>1. posts' = Append(posts, NewPost(q.thread, q.user, number))
        BY <1>4 DEF CreatePost
    <3> HIDE DEF q, number
    <3> QED
        BY <2>3, <3>1, AppendedRow DEF TypeOK
  <2>5. WithLastPost(threads[q.thread], number, id, clock) \in Thread
      BY <2>1, <2>2, ThreadColumns DEF MaybeTime
  <2>6. threads' = [threads EXCEPT ![q.thread] =
                       WithLastPost(threads[q.thread], number, id, clock)]
      BY <1>4 DEF CreatePost
  <2>7. threads' \in Seq(Thread)
      BY <2>1, <2>5, <2>6, UpdatedRow DEF TypeOK
  <2>8. ReferenceRows(id, q.thread, number, q.cites) \subseteq Nat \X Nat
      BY <2>2, LenProperties DEF ReferenceRows, PostsOf, TypeOK
  <2>9. references' \subseteq Nat \X Nat
      BY <1>4, <2>8 DEF CreatePost, TypeOK
  <2> QED
      BY <1>2, <2>4, <2>7, <2>9 DEF CreatePost, TypeOK
<1> QED
    BY <1>3, <1>4

LEMMA TypeCreateThread ==
    ASSUME TypeOK, NEW r \in Requests, CreateThread(r)
    PROVE  TypeOK'
<1> DEFINE q == requests[r]
           t == Len(threads) + 1
           id == Len(posts) + 1
<1>1. q \in [op : Operations, user : Users, thread : Nat, number : Nat, cites : Citations]
    BY HandledRequest DEF CreateThread
<1>2. requests' \in [Requests -> Request] /\ answer' \in Answers
    BY TypeAnswered, AnswerTypes DEF CreateThread
<1>3. CASE ThreadAnswer(q) # "created"
    BY <1>2, <1>3 DEF CreateThread, TypeOK
<1>4. CASE ThreadAnswer(q) = "created"
  <2>1. t \in Nat /\ id \in Nat /\ clock \in Time
      BY LenProperties DEF TypeOK
  <2>2. NewPost(t, q.user, 1) \in Post /\ NewThread(q.user, id, clock) \in Thread
      BY <1>1, <2>1 DEF NewPost, NewThread, Post, Thread, MaybeUser, MaybeTime
  <2>3. /\ posts' = Append(posts, NewPost(t, q.user, 1))
        /\ threads' = Append(threads, NewThread(q.user, id, clock))
      BY <1>4 DEF CreateThread
  <2>4. posts' \in Seq(Post) /\ threads' \in Seq(Thread)
    <3> HIDE DEF q, t, id
    <3> QED
        BY <2>2, <2>3, AppendedRow DEF TypeOK
  <2> QED
      BY <1>2, <2>4 DEF CreateThread, TypeOK
<1> QED
    BY <1>3, <1>4

\* A row of the history.
LEMMA TypeRecord ==
    ASSUME TypeOK, NEW r \in Requests, requests[r] # NULL, requests[r].op \in ModerationOperations,
           NEW post \in Nat \union {NULL}, Record(requests[r], post)
    PROVE  log' \in Seq(LogEntry)
<1> DEFINE q == requests[r]
           entry == [actor |-> q.user, action |-> q.op, thread |-> q.thread,
                     post |-> post, createdAt |-> clock]
<1>1. q \in [op : Operations, user : Users, thread : Nat, number : Nat, cites : Citations]
    BY DEF TypeOK, Request
<1>2. entry \in LogEntry
    BY <1>1 DEF LogEntry, MaybeUser, TypeOK
<1>3. log' = Append(log, entry)
    BY DEF Record
<1> HIDE DEF entry
<1> QED
    BY <1>2, <1>3, AppendedRow DEF TypeOK

\* A moderation of a thread marks or unmarks one of its columns and records it.
LEMMA TypeThreadMarked ==
    ASSUME TypeOK, NEW r \in Requests, requests[r] # NULL, requests[r].op \in ModerationOperations,
           NEW t \in DOMAIN threads, NEW mark \in MaybeTime,
           \/ threads' = [threads EXCEPT ![t].lockedAt = mark]
           \/ threads' = [threads EXCEPT ![t].unpublishedAt = mark],
           Record(requests[r], NULL), Answered(r, "done"),
           UNCHANGED <<users, posts, references, clock>>
    PROVE  TypeOK'
<1>1. threads[t] \in Thread
    BY ElementOfSeq, LenProperties DEF TypeOK
<1>2. \/ threads' = [threads EXCEPT ![t] = [threads[t] EXCEPT !.lockedAt = mark]]
      \/ threads' = [threads EXCEPT ![t] = [threads[t] EXCEPT !.unpublishedAt = mark]]
    OBVIOUS
<1>3. /\ [threads[t] EXCEPT !.lockedAt = mark] \in Thread
      /\ [threads[t] EXCEPT !.unpublishedAt = mark] \in Thread
    BY <1>1 DEF Thread
<1>4. threads' \in Seq(Thread)
  <2>1. PICK row \in Thread : threads' = [threads EXCEPT ![t] = row]
      BY <1>2, <1>3
  <2> QED
      BY <2>1, UpdatedRow DEF TypeOK
<1>5. "done" \in Answers
    BY DEF Answers
<1> QED
    BY <1>4, <1>5, TypeRecord, TypeAnswered DEF TypeOK

LEMMA TypeDeclined ==
    ASSUME TypeOK, NEW r \in Requests, NEW code \in Answers, Declined(r, code),
           UNCHANGED <<users, clock>>
    PROVE  TypeOK'
    BY TypeAnswered DEF Declined, contentVars, TypeOK

LEMMA TypeLockThread ==
    ASSUME TypeOK, NEW r \in Requests, LockThread(r)
    PROVE  TypeOK'
<1> DEFINE q == requests[r]
<1>1. /\ requests[r] # NULL /\ q.op \in ModerationOperations
      /\ ModeratedThreadAnswer(q.thread) \in Answers /\ "done" \in Answers
      /\ UNCHANGED <<users, clock>>
    BY AnswerTypes DEF LockThread, Handles, ModerationOperations, Answers
<1>2. CASE \E code \in Answers : Declined(r, code)
    BY <1>1, <1>2, TypeDeclined
<1>3. CASE /\ ModeratedThreadAnswer(q.thread) = "done"
           /\ threads' = [threads EXCEPT ![q.thread].lockedAt = clock]
           /\ Record(q, NULL) /\ Answered(r, "done")
           /\ UNCHANGED <<posts, references>>
  <2>1. q.thread \in DOMAIN threads /\ clock \in MaybeTime
      BY <1>3 DEF ModeratedThreadAnswer, MaybeTime, TypeOK
  <2> QED
      BY <1>1, <1>3, <2>1, TypeThreadMarked
<1> QED
    BY <1>1, <1>2, <1>3 DEF LockThread

LEMMA TypeUnlockThread ==
    ASSUME TypeOK, NEW r \in Requests, UnlockThread(r)
    PROVE  TypeOK'
<1> DEFINE q == requests[r]
<1>1. /\ requests[r] # NULL /\ q.op \in ModerationOperations
      /\ ModeratedThreadAnswer(q.thread) \in Answers /\ "done" \in Answers
      /\ UNCHANGED <<users, clock>>
    BY AnswerTypes DEF UnlockThread, Handles, ModerationOperations, Answers
<1>2. CASE \E code \in Answers : Declined(r, code)
    BY <1>1, <1>2, TypeDeclined
<1>3. CASE /\ ModeratedThreadAnswer(q.thread) = "done"
           /\ threads' = [threads EXCEPT ![q.thread].lockedAt = NULL]
           /\ Record(q, NULL) /\ Answered(r, "done")
           /\ UNCHANGED <<posts, references>>
  <2>1. q.thread \in DOMAIN threads /\ NULL \in MaybeTime
      BY <1>3 DEF ModeratedThreadAnswer, MaybeTime
  <2> QED
      BY <1>1, <1>3, <2>1, TypeThreadMarked
<1> QED
    BY <1>1, <1>2, <1>3 DEF UnlockThread

LEMMA TypeUnpublishThread ==
    ASSUME TypeOK, NEW r \in Requests, UnpublishThread(r)
    PROVE  TypeOK'
<1> DEFINE q == requests[r]
<1>1. /\ requests[r] # NULL /\ q.op \in ModerationOperations
      /\ "not_found" \in Answers /\ "done" \in Answers
      /\ UNCHANGED <<users, clock>>
    BY DEF UnpublishThread, Handles, ModerationOperations, Answers
<1>2. CASE \E code \in Answers : Declined(r, code)
    BY <1>1, <1>2, TypeDeclined
<1>3. CASE /\ q.thread \in DOMAIN threads
           /\ threads' = [threads EXCEPT ![q.thread].unpublishedAt = clock]
           /\ Record(q, NULL) /\ Answered(r, "done")
           /\ UNCHANGED <<posts, references>>
  <2>1. clock \in MaybeTime
      BY DEF MaybeTime, TypeOK
  <2> QED
      BY <1>1, <1>3, <2>1, TypeThreadMarked
<1> QED
    BY <1>1, <1>2, <1>3 DEF UnpublishThread

LEMMA TypeUnpublishPost ==
    ASSUME TypeOK, NEW r \in Requests, UnpublishPost(r)
    PROVE  TypeOK'
<1> DEFINE q == requests[r]
<1>1. /\ requests[r] # NULL /\ q.op \in ModerationOperations
      /\ ModeratedThreadAnswer(q.thread) \in Answers
      /\ "not_found" \in Answers /\ "done" \in Answers
      /\ UNCHANGED <<users, clock>>
    BY AnswerTypes DEF UnpublishPost, Handles, ModerationOperations, Answers
<1>2. CASE \E code \in Answers : Declined(r, code)
    BY <1>1, <1>2, TypeDeclined
<1>3. CASE \E i \in PostsNumbered(q.thread, q.number) :
            /\ posts' = [posts EXCEPT ![i].unpublishedAt = clock]
            /\ Record(q, i) /\ Answered(r, "done")
            /\ UNCHANGED <<threads, references>>
  <2>1. PICK i \in DOMAIN posts :
            /\ posts' = [posts EXCEPT ![i].unpublishedAt = clock]
            /\ Record(q, i) /\ Answered(r, "done")
            /\ UNCHANGED <<threads, references>>
      BY <1>3 DEF PostsNumbered, PostsOf
  <2>2. posts[i] \in Post /\ i \in Nat
      BY ElementOfSeq, LenProperties DEF TypeOK
  <2>3. [posts[i] EXCEPT !.unpublishedAt = clock] \in Post
      BY <2>2 DEF Post, MaybeTime, TypeOK
  <2>4. PICK row \in Post : posts' = [posts EXCEPT ![i] = row]
      BY <2>1, <2>3
  <2>5. posts' \in Seq(Post)
      BY <2>4, UpdatedRow DEF TypeOK
  <2>6. log' \in Seq(LogEntry)
      BY <1>1, <2>1, <2>2, TypeRecord
  <2> QED
      BY <1>1, <2>1, <2>5, <2>6, TypeAnswered DEF TypeOK
<1> QED
    BY <1>1, <1>2, <1>3 DEF UnpublishPost

LEMMA TypePurge ==
    ASSUME TypeOK, PurgeWithdrawnUsers
    PROVE  TypeOK'
<1>1. PICK gone \in SUBSET Users :
        /\ users' = [u \in Users |->
                        IF u \in gone THEN [users[u] EXCEPT !.present = FALSE] ELSE users[u]]
        /\ threads' = [t \in DOMAIN threads |->
                        [threads[t] EXCEPT !.author = Unlinked(@, gone)]]
        /\ posts' = WithoutAuthors(gone)
        /\ log' = [e \in DOMAIN log |-> [log[e] EXCEPT !.actor = Unlinked(@, gone)]]
        /\ answer' = "none"
        /\ UNCHANGED <<references, requests, clock>>
    BY DEF PurgeWithdrawnUsers
<1>2. users' \in [Users -> Account]
    BY <1>1 DEF TypeOK, Account
<1>3. \A u \in MaybeUser : Unlinked(u, gone) \in MaybeUser
    BY DEF Unlinked, MaybeUser
<1>4. threads' \in Seq(Thread)
  <2>1. \A t \in DOMAIN threads : threads[t] \in Thread
      BY ElementOfSeq, LenProperties DEF TypeOK
  <2>2. \A t \in DOMAIN threads : threads'[t] \in Thread
      BY <1>1, <1>3, <2>1 DEF Thread
  <2>3. DOMAIN threads' = DOMAIN threads /\ threads' = [t \in DOMAIN threads |-> threads'[t]]
      BY <1>1
  <2> QED
      BY <2>2, <2>3, RewrittenRows DEF TypeOK
<1>5. posts' \in Seq(Post)
  <2>1. \A i \in DOMAIN posts : posts[i] \in Post
      BY ElementOfSeq, LenProperties DEF TypeOK
  <2>2. \A i \in DOMAIN posts : posts'[i] \in Post
      BY <1>1, <1>3, <2>1 DEF Post, WithoutAuthors
  <2>3. DOMAIN posts' = DOMAIN posts /\ posts' = [i \in DOMAIN posts |-> posts'[i]]
      BY <1>1 DEF WithoutAuthors
  <2> QED
      BY <2>2, <2>3, RewrittenRows DEF TypeOK
<1>6. log' \in Seq(LogEntry)
  <2>1. \A e \in DOMAIN log : log[e] \in LogEntry
      BY ElementOfSeq, LenProperties DEF TypeOK
  <2>2. \A e \in DOMAIN log : log'[e] \in LogEntry
      BY <1>1, <1>3, <2>1 DEF LogEntry
  <2>3. DOMAIN log' = DOMAIN log /\ log' = [e \in DOMAIN log |-> log'[e]]
      BY <1>1
  <2> QED
      BY <2>2, <2>3, RewrittenRows DEF TypeOK
<1> QED
    BY <1>1, <1>2, <1>4, <1>5, <1>6 DEF TypeOK, Answers

LEMMA TypeNext == TypeOK /\ [Next]_vars => TypeOK'
<1> SUFFICES ASSUME TypeOK, [Next]_vars
             PROVE  TypeOK'
    OBVIOUS
<1>1. CASE ArriveStep
    BY <1>1, TypeArrive
<1>2. CASE UseCaseStep
  <2>1. ASSUME NEW r \in Requests, Fail(r)
        PROVE  TypeOK'
      BY <2>1, TypeAnswered DEF Fail, TypeOK, contentVars, Answers
  <2> QED
      BY <1>2, <2>1, TypeCreateThread, TypeCreatePost, TypeLockThread, TypeUnlockThread,
         TypeUnpublishThread, TypeUnpublishPost DEF UseCaseStep
<1>3. CASE AccountStep
  <2>1. ASSUME NEW u \in Users, Withdraw(u)
        PROVE  TypeOK'
      BY <2>1 DEF Withdraw, TypeOK, Account, MaybeTime, contentVars, Answers
  <2> QED
      BY <1>3, <2>1, TypePurge DEF AccountStep
<1>4. CASE Tick
    BY <1>4 DEF Tick, TypeOK, Time, contentVars, Answers
<1>5. CASE UNCHANGED vars
    BY <1>5 DEF vars, TypeOK
<1> QED
    BY <1>1, <1>2, <1>3, <1>4, <1>5 DEF Next

\* Every row, request and answer keeps its type, whatever the accounts, the requests in
\* flight, the limits and the length of the run.
THEOREM TypeCorrect == Spec => []TypeOK
<1> QED
    BY TypeInit, TypeNext, PTL DEF Spec

-----------------------------------------------------------------------------
(* What a step does to the conversation.  Only a reply and a new thread add a post; *)
(* every other step leaves the skeleton (ids, threads, numbers, times, counts and   *)
(* references) as it is.                                                            *)

SameSkeleton ==
    /\ DOMAIN posts' = DOMAIN posts
    /\ \A i \in DOMAIN posts :
        /\ posts'[i].thread = posts[i].thread
        /\ posts'[i].number = posts[i].number
        /\ posts'[i].createdAt = posts[i].createdAt
        /\ posts'[i].author \in {posts[i].author, NULL}
        /\ posts[i].unpublishedAt # NULL => posts'[i].unpublishedAt = posts[i].unpublishedAt
    /\ DOMAIN threads' = DOMAIN threads
    /\ \A t \in DOMAIN threads :
        /\ threads'[t].postsCount = threads[t].postsCount
        /\ threads'[t].lastPost = threads[t].lastPost
        /\ threads'[t].lastPostedAt = threads[t].lastPostedAt
    /\ references' = references
    /\ clock' \in Nat
    /\ clock' >= clock

Replied(t, u, cites) ==
    LET number == threads[t].postsCount + 1
        id == Len(posts) + 1
    IN  /\ t \in DOMAIN threads
        /\ threads[t].unpublishedAt = NULL
        /\ LockReasons(t) = {}
        /\ MayPostNow(u)
        /\ posts' = Append(posts, NewPost(t, u, number))
        /\ threads' = [threads EXCEPT ![t] = WithLastPost(threads[t], number, id, clock)]
        /\ references' = references \union ReferenceRows(id, t, number, cites)
        /\ clock' = clock

Opened(u) ==
    /\ MayPostNow(u)
    /\ posts' = Append(posts, NewPost(Len(threads) + 1, u, 1))
    /\ threads' = Append(threads, NewThread(u, Len(posts) + 1, clock))
    /\ references' = references
    /\ clock' = clock

LEMMA UnchangedSkeleton ==
    ASSUME TypeOK, UNCHANGED <<threads, posts, references, clock>>
    PROVE  SameSkeleton
    BY DEF SameSkeleton, TypeOK, Time

LEMMA MarkedSkeleton ==
    ASSUME TypeOK, NEW t \in DOMAIN threads, NEW mark,
           \/ threads' = [threads EXCEPT ![t].lockedAt = mark]
           \/ threads' = [threads EXCEPT ![t].unpublishedAt = mark],
           UNCHANGED <<posts, references, clock>>
    PROVE  SameSkeleton
<1>1. \A s \in DOMAIN threads : threads[s] \in Thread
    BY ElementOfSeq, LenProperties DEF TypeOK
<1>2. DOMAIN threads' = DOMAIN threads
    OBVIOUS
<1>3. \A s \in DOMAIN threads :
        /\ threads'[s].postsCount = threads[s].postsCount
        /\ threads'[s].lastPost = threads[s].lastPost
        /\ threads'[s].lastPostedAt = threads[s].lastPostedAt
    BY <1>1 DEF Thread
<1> QED
    BY <1>2, <1>3 DEF SameSkeleton, TypeOK, Time

LEMMA HiddenSkeleton ==
    ASSUME TypeOK, NEW i \in DOMAIN posts, posts[i].unpublishedAt = NULL,
           posts' = [posts EXCEPT ![i].unpublishedAt = clock],
           UNCHANGED <<threads, references, clock>>
    PROVE  SameSkeleton
<1>1. \A j \in DOMAIN posts : posts[j] \in Post
    BY ElementOfSeq, LenProperties DEF TypeOK
<1>2. DOMAIN posts' = DOMAIN posts
    OBVIOUS
<1>3. \A j \in DOMAIN posts :
        /\ posts'[j].thread = posts[j].thread
        /\ posts'[j].number = posts[j].number
        /\ posts'[j].createdAt = posts[j].createdAt
        /\ posts'[j].author = posts[j].author
        /\ posts[j].unpublishedAt # NULL => posts'[j].unpublishedAt = posts[j].unpublishedAt
    BY <1>1 DEF Post
<1> QED
    BY <1>2, <1>3 DEF SameSkeleton, TypeOK, Time

LEMMA PurgedSkeleton ==
    ASSUME TypeOK, PurgeWithdrawnUsers
    PROVE  SameSkeleton
<1>1. PICK gone :
        /\ threads' = [t \in DOMAIN threads |->
                        [threads[t] EXCEPT !.author = Unlinked(@, gone)]]
        /\ posts' = WithoutAuthors(gone)
        /\ UNCHANGED <<references, clock>>
    BY DEF PurgeWithdrawnUsers
<1>2. \A i \in DOMAIN posts : posts[i] \in Post
    BY ElementOfSeq, LenProperties DEF TypeOK
<1>3. \A t \in DOMAIN threads : threads[t] \in Thread
    BY ElementOfSeq, LenProperties DEF TypeOK
<1>4. /\ DOMAIN posts' = DOMAIN posts
      /\ \A i \in DOMAIN posts :
          /\ posts'[i].thread = posts[i].thread
          /\ posts'[i].number = posts[i].number
          /\ posts'[i].createdAt = posts[i].createdAt
          /\ posts'[i].author \in {posts[i].author, NULL}
          /\ posts'[i].unpublishedAt = posts[i].unpublishedAt
    BY <1>1, <1>2 DEF WithoutAuthors, Unlinked, Post
<1>5. /\ DOMAIN threads' = DOMAIN threads
      /\ \A t \in DOMAIN threads :
          /\ threads'[t].postsCount = threads[t].postsCount
          /\ threads'[t].lastPost = threads[t].lastPost
          /\ threads'[t].lastPostedAt = threads[t].lastPostedAt
    BY <1>1, <1>3 DEF Thread
<1> QED
    BY <1>1, <1>4, <1>5 DEF SameSkeleton, TypeOK, Time

LEMMA StepShapes ==
    ASSUME TypeOK, [Next]_vars
    PROVE  \/ SameSkeleton
           \/ \E u \in Users, cites \in Citations, t \in DOMAIN threads : Replied(t, u, cites)
           \/ \E u \in Users : Opened(u)
<1>1. CASE ArriveStep
    BY <1>1, UnchangedSkeleton DEF ArriveStep, Arrive, contentVars
<1>2. CASE UseCaseStep
  <2>1. ASSUME NEW r \in Requests, CreateThread(r)
        PROVE  SameSkeleton \/ \E u \in Users : Opened(u)
    <3>1. requests[r].user \in Users
        BY <2>1, HandledRequest DEF CreateThread
    <3>2. CASE ThreadAnswer(requests[r]) = "created"
        BY <2>1, <3>1, <3>2 DEF CreateThread, Opened, ThreadAnswer
    <3>3. CASE ThreadAnswer(requests[r]) # "created"
        BY <2>1, <3>3, UnchangedSkeleton DEF CreateThread
    <3> QED
        BY <3>2, <3>3
  <2>2. ASSUME NEW r \in Requests, CreatePost(r)
        PROVE  \/ SameSkeleton
               \/ \E u \in Users, cites \in Citations, t \in DOMAIN threads :
                    Replied(t, u, cites)
    <3>1. requests[r].user \in Users /\ requests[r].cites \in Citations
        BY <2>2, HandledRequest DEF CreatePost
    <3>2. CASE ReplyAnswer(requests[r]) = "created"
      <4>1. requests[r].thread \in DOMAIN threads
          BY <3>2, CreatedReply
      <4>2. Replied(requests[r].thread, requests[r].user, requests[r].cites)
          BY <2>2, <3>2, CreatedReply DEF CreatePost, Replied
      <4> QED
          BY <3>1, <4>1, <4>2
    <3>3. CASE ReplyAnswer(requests[r]) # "created"
        BY <2>2, <3>3, UnchangedSkeleton DEF CreatePost
    <3> QED
        BY <3>2, <3>3
  <2>3. ASSUME NEW r \in Requests, NEW code, Declined(r, code), clock' = clock
        PROVE  SameSkeleton
      BY <2>3, UnchangedSkeleton DEF Declined, contentVars
  <2>4. ASSUME NEW r \in Requests, LockThread(r)
        PROVE  SameSkeleton
      BY <2>3, <2>4, MarkedSkeleton DEF LockThread, ModeratedThreadAnswer
  <2>5. ASSUME NEW r \in Requests, UnlockThread(r)
        PROVE  SameSkeleton
      BY <2>3, <2>5, MarkedSkeleton DEF UnlockThread, ModeratedThreadAnswer
  <2>6. ASSUME NEW r \in Requests, UnpublishThread(r)
        PROVE  SameSkeleton
      BY <2>3, <2>6, MarkedSkeleton DEF UnpublishThread
  <2>7. ASSUME NEW r \in Requests, UnpublishPost(r)
        PROVE  SameSkeleton
      BY <2>3, <2>7, HiddenSkeleton DEF UnpublishPost, PostsNumbered, PostsOf
  <2>8. ASSUME NEW r \in Requests, Fail(r)
        PROVE  SameSkeleton
      BY <2>8, UnchangedSkeleton DEF Fail, contentVars
  <2> QED
      BY <1>2, <2>1, <2>2, <2>4, <2>5, <2>6, <2>7, <2>8 DEF UseCaseStep
<1>3. CASE AccountStep
    BY <1>3, UnchangedSkeleton, PurgedSkeleton DEF AccountStep, Withdraw, contentVars
<1>4. CASE Tick
    BY <1>4 DEF Tick, SameSkeleton, contentVars, TypeOK, Time
<1>5. CASE UNCHANGED vars
    BY <1>5, UnchangedSkeleton DEF vars
<1> QED
    BY <1>1, <1>2, <1>3, <1>4, <1>5 DEF Next

-----------------------------------------------------------------------------
(* The inductive invariant of the conversation's shape: Coherent, of Threads. *)

LEMMA CoherentInit == Init => Coherent
<1> SUFFICES ASSUME Init PROVE Coherent
    OBVIOUS
<1>1. TypeOK
    BY TypeInit
<1>2. threads = <<>> /\ posts = <<>> /\ references = {}
    BY DEF Init
<1> QED
    BY <1>1, <1>2 DEF Coherent, CountsInRange, PostsInThreads, PostsInThePast,
       PostNumbersAreAddresses, LastPostIsTheLatest, ReferencesPointBack

LEMMA CoherentSame ==
    ASSUME Coherent, TypeOK', SameSkeleton
    PROVE  Coherent'
<1>1. \A t : PostsOf(t)' = PostsOf(t)
    BY DEF PostsOf, SameSkeleton
<1>2. CountsInRange' /\ PostsInThreads'
    BY DEF Coherent, CountsInRange, PostsInThreads, SameSkeleton
<1>3. PostsInThePast'
  <2> SUFFICES ASSUME NEW i \in DOMAIN posts
               PROVE  posts'[i].createdAt <= clock'
      BY DEF PostsInThePast, SameSkeleton
  <2>0. TypeOK
      BY DEF Coherent
  <2>1. posts[i] \in Post /\ clock \in Nat
      BY <2>0, ElementOfSeq, LenProperties DEF TypeOK, Time
  <2>2. posts[i].createdAt \in Nat
      BY <2>1 DEF Post, Time
  <2> QED
      BY <2>1, <2>2 DEF Coherent, PostsInThePast, SameSkeleton
<1>4. PostNumbersAreAddresses'
  <2> SUFFICES ASSUME NEW t \in DOMAIN threads
               PROVE  /\ {posts'[i].number : i \in PostsOf(t)} = 1..threads[t].postsCount
                      /\ \A i, j \in PostsOf(t) :
                            posts'[i].number = posts'[j].number => i = j
      BY <1>1 DEF PostNumbersAreAddresses, SameSkeleton
  <2>1. \A i \in PostsOf(t) : posts'[i].number = posts[i].number
      BY DEF PostsOf, SameSkeleton
  <2> QED
      BY <2>1 DEF Coherent, PostNumbersAreAddresses
<1>5. LastPostIsTheLatest'
  <2> SUFFICES ASSUME NEW t \in DOMAIN threads
               PROVE  /\ threads[t].lastPost \in PostsOf(t)
                      /\ posts'[threads[t].lastPost].number = threads[t].postsCount
                      /\ posts'[threads[t].lastPost].createdAt = threads[t].lastPostedAt
                      /\ \A i \in PostsOf(t) : /\ i <= threads[t].lastPost
                                                /\ posts'[i].createdAt <= threads[t].lastPostedAt
      BY <1>1 DEF LastPostIsTheLatest, SameSkeleton
  <2>1. \A i \in PostsOf(t) : /\ posts'[i].number = posts[i].number
                               /\ posts'[i].createdAt = posts[i].createdAt
      BY DEF PostsOf, SameSkeleton
  <2> QED
      BY <2>1 DEF Coherent, LastPostIsTheLatest
<1>6. ReferencesPointBack'
    BY DEF Coherent, ReferencesPointBack, SameSkeleton
<1> QED
    BY <1>2, <1>3, <1>4, <1>5, <1>6 DEF Coherent

\* The rows after a reply.
LEMMA RepliedRows ==
    ASSUME TypeOK, NEW u \in Users, NEW cites \in Citations, NEW t \in DOMAIN threads,
           Replied(t, u, cites)
    PROVE  /\ Len(posts) \in Nat
           /\ DOMAIN posts = 1..Len(posts)
           /\ DOMAIN posts' = DOMAIN posts \union {Len(posts) + 1}
           /\ Len(posts) + 1 \notin DOMAIN posts
           /\ posts'[Len(posts) + 1] = NewPost(t, u, threads[t].postsCount + 1)
           /\ \A i \in DOMAIN posts : posts'[i] = posts[i]
           /\ DOMAIN threads' = DOMAIN threads
           /\ \A s \in DOMAIN threads \ {t} : threads'[s] = threads[s]
           /\ threads[t].postsCount \in Nat
           /\ threads[t].postsCount < ThreadPostLimit
           /\ threads'[t].postsCount = threads[t].postsCount + 1
           /\ threads'[t].lastPost = Len(posts) + 1
           /\ threads'[t].lastPostedAt = clock
           /\ threads'[t].author = threads[t].author
           /\ threads'[t].lockedAt = threads[t].lockedAt
           /\ threads'[t].unpublishedAt = threads[t].unpublishedAt
<1> DEFINE number == threads[t].postsCount + 1
           id == Len(posts) + 1
           row == WithLastPost(threads[t], number, id, clock)
<1>1. threads[t] \in Thread /\ id \in Nat /\ clock \in Time
    BY ElementOfSeq, LenProperties DEF TypeOK
<1>2. threads[t].postsCount \in Nat /\ number \in Nat
    BY <1>1 DEF Thread
<1>3. threads[t].postsCount < ThreadPostLimit
  <2>1. "post_limit_reached" \notin LockReasons(t)
      BY DEF Replied
  <2>2. ~(threads[t].postsCount >= ThreadPostLimit)
      BY <2>1 DEF LockReasons
  <2> QED
      BY <1>2, <2>2, ConstantsAssumption
<1>4. NewPost(t, u, number) \in Post
    BY <1>1, <1>2, LenProperties DEF NewPost, Post, MaybeUser, MaybeTime, TypeOK
<1>5. row \in Thread
    BY <1>1, <1>2, ThreadColumns DEF MaybeTime
<1>6. posts' = Append(posts, NewPost(t, u, number)) /\ threads' = [threads EXCEPT ![t] = row]
    BY DEF Replied
<1>7. /\ row.postsCount = number /\ row.lastPost = id /\ row.lastPostedAt = clock
      /\ row.author = threads[t].author /\ row.lockedAt = threads[t].lockedAt
      /\ row.unpublishedAt = threads[t].unpublishedAt
    BY <1>1 DEF WithLastPost, Thread
<1>8. threads'[t] = row
  <2> HIDE DEF row
  <2> QED
      BY <1>5, <1>6, UpdatedRow DEF TypeOK
<1>9. DOMAIN threads' = DOMAIN threads /\ \A s \in DOMAIN threads \ {t} : threads'[s] = threads[s]
  <2> HIDE DEF row
  <2> QED
      BY <1>5, <1>6, UpdatedRow DEF TypeOK
<1>10. /\ DOMAIN posts' = DOMAIN posts \union {id}
       /\ id \notin DOMAIN posts
       /\ posts'[id] = NewPost(t, u, number)
       /\ \A i \in DOMAIN posts : posts'[i] = posts[i]
  <2> HIDE DEF number
  <2> QED
      BY <1>4, <1>6, AppendedRow DEF TypeOK
<1> QED
    BY <1>2, <1>3, <1>7, <1>8, <1>9, <1>10, LenProperties DEF TypeOK

\* The rows after a new thread.
LEMMA OpenedRows ==
    ASSUME TypeOK, NEW u \in Users, Opened(u)
    PROVE  /\ Len(posts) \in Nat
           /\ DOMAIN posts = 1..Len(posts)
           /\ DOMAIN posts' = DOMAIN posts \union {Len(posts) + 1}
           /\ Len(posts) + 1 \notin DOMAIN posts
           /\ posts'[Len(posts) + 1] = NewPost(Len(threads) + 1, u, 1)
           /\ \A i \in DOMAIN posts : posts'[i] = posts[i]
           /\ DOMAIN threads' = DOMAIN threads \union {Len(threads) + 1}
           /\ Len(threads) + 1 \notin DOMAIN threads
           /\ \A s \in DOMAIN threads : threads'[s] = threads[s]
           /\ threads'[Len(threads) + 1] = NewThread(u, Len(posts) + 1, clock)
<1>1. Len(posts) + 1 \in Nat /\ Len(threads) + 1 \in Nat /\ clock \in Time
    BY LenProperties DEF TypeOK
<1>2. /\ NewPost(Len(threads) + 1, u, 1) \in Post
      /\ NewThread(u, Len(posts) + 1, clock) \in Thread
    BY <1>1 DEF NewPost, NewThread, Post, Thread, MaybeUser, MaybeTime
<1>3. /\ posts' = Append(posts, NewPost(Len(threads) + 1, u, 1))
      /\ threads' = Append(threads, NewThread(u, Len(posts) + 1, clock))
    BY DEF Opened
<1>4. /\ DOMAIN posts' = DOMAIN posts \union {Len(posts) + 1}
      /\ Len(posts) + 1 \notin DOMAIN posts
      /\ posts'[Len(posts) + 1] = NewPost(Len(threads) + 1, u, 1)
      /\ \A i \in DOMAIN posts : posts'[i] = posts[i]
    BY <1>2, <1>3, AppendedRow DEF TypeOK
<1>5. /\ DOMAIN threads' = DOMAIN threads \union {Len(threads) + 1}
      /\ Len(threads) + 1 \notin DOMAIN threads
      /\ threads'[Len(threads) + 1] = NewThread(u, Len(posts) + 1, clock)
      /\ \A s \in DOMAIN threads : threads'[s] = threads[s]
    BY <1>2, <1>3, AppendedRow DEF TypeOK
<1> QED
    BY <1>4, <1>5, LenProperties DEF TypeOK

LEMMA CoherentReplied ==
    ASSUME Coherent, TypeOK', NEW u \in Users, NEW cites \in Citations,
           NEW t \in DOMAIN threads, Replied(t, u, cites)
    PROVE  Coherent'
<1> DEFINE id == Len(posts) + 1
           number == threads[t].postsCount + 1
<1>0. TypeOK
    BY DEF Coherent
<1>1. /\ id \in Nat /\ id \notin DOMAIN posts /\ number \in Nat
      /\ \A i \in DOMAIN posts : i \in Nat /\ i < id
      /\ DOMAIN posts' = DOMAIN posts \union {id}
      /\ posts'[id] = NewPost(t, u, number)
      /\ \A i \in DOMAIN posts : posts'[i] = posts[i]
  <2>1. Len(posts) \in Nat /\ DOMAIN posts = 1..Len(posts) /\ threads[t].postsCount \in Nat
      BY <1>0, RepliedRows
  <2>2. /\ id \in Nat /\ id \notin DOMAIN posts /\ number \in Nat
        /\ \A i \in DOMAIN posts : i \in Nat /\ i < id
      BY <2>1
  <2>3. /\ DOMAIN posts' = DOMAIN posts \union {id}
        /\ posts'[id] = NewPost(t, u, number)
        /\ \A i \in DOMAIN posts : posts'[i] = posts[i]
      BY <1>0, RepliedRows
  <2> QED
      BY <2>2, <2>3
<1>2. /\ DOMAIN threads' = DOMAIN threads
      /\ \A s \in DOMAIN threads \ {t} : threads'[s] = threads[s]
      /\ threads[t].postsCount \in Nat
      /\ threads[t].postsCount < ThreadPostLimit
      /\ threads'[t].postsCount = number
      /\ threads'[t].lastPost = id
      /\ threads'[t].lastPostedAt = clock
    BY <1>0, RepliedRows
<1>3. /\ posts'[id].thread = t
      /\ posts'[id].number = number
      /\ posts'[id].createdAt = clock
    BY <1>1 DEF NewPost
<1>4. clock' = clock /\ clock \in Nat
    BY <1>0 DEF Replied, TypeOK, Time
<1> HIDE DEF id, number
<1>5. /\ PostsOf(t)' = PostsOf(t) \union {id}
      /\ \A s \in DOMAIN threads \ {t} : PostsOf(s)' = PostsOf(s)
      /\ \A s : PostsOf(s) \subseteq DOMAIN posts
    BY <1>1, <1>3 DEF PostsOf
<1>6. \A i \in DOMAIN posts : posts[i] \in Post
    BY <1>0, ElementOfSeq, LenProperties DEF TypeOK
<1>7. \A i \in DOMAIN posts : posts[i].createdAt \in Nat /\ posts[i].number \in Nat
    BY <1>6 DEF Post, Time
<1>8. CountsInRange'
    BY <1>2, ConstantsAssumption DEF Coherent, CountsInRange, number
<1>9. PostsInThreads'
    BY <1>1, <1>2, <1>3 DEF Coherent, PostsInThreads
<1>10. PostsInThePast'
    BY <1>1, <1>3, <1>4 DEF Coherent, PostsInThePast
<1>11. /\ {posts[i].number : i \in PostsOf(t)} = 1..threads[t].postsCount
       /\ \A i \in PostsOf(t) : posts[i].number <= threads[t].postsCount
    BY <1>2 DEF Coherent, PostNumbersAreAddresses
<1>12. PostNumbersAreAddresses'
  <2> SUFFICES ASSUME NEW s \in DOMAIN threads
               PROVE  /\ {posts'[i].number : i \in PostsOf(s)'} = 1..threads'[s].postsCount
                      /\ \A i, j \in PostsOf(s)' :
                            posts'[i].number = posts'[j].number => i = j
      BY <1>2 DEF PostNumbersAreAddresses
  <2>1. CASE s # t
      BY <1>1, <1>2, <1>5, <2>1 DEF Coherent, PostNumbersAreAddresses
  <2>2. CASE s = t
    <3>1. \A i \in PostsOf(t) : posts'[i].number = posts[i].number
        BY <1>1, <1>5
    <3>2. {posts'[i].number : i \in PostsOf(t)'} =
            {posts[i].number : i \in PostsOf(t)} \union {number}
        BY <1>3, <1>5, <3>1
    <3>3. 1..threads[t].postsCount \union {number} = 1..number
        BY <1>2 DEF number
    <3>4. \A i \in PostsOf(t) : posts'[i].number # number
        BY <1>2, <1>5, <1>7, <1>11, <3>1 DEF number
    <3>5. \A i, j \in PostsOf(t) : posts[i].number = posts[j].number => i = j
        BY DEF Coherent, PostNumbersAreAddresses
    <3>6. \A i, j \in PostsOf(t)' : posts'[i].number = posts'[j].number => i = j
        BY <1>3, <1>5, <3>1, <3>4, <3>5
    <3> QED
        BY <1>2, <1>11, <2>2, <3>2, <3>3, <3>6
  <2> QED
      BY <2>1, <2>2
<1>13. LastPostIsTheLatest'
  <2> SUFFICES ASSUME NEW s \in DOMAIN threads
               PROVE  /\ threads'[s].lastPost \in PostsOf(s)'
                      /\ posts'[threads'[s].lastPost].number = threads'[s].postsCount
                      /\ posts'[threads'[s].lastPost].createdAt = threads'[s].lastPostedAt
                      /\ \A i \in PostsOf(s)' :
                            /\ i <= threads'[s].lastPost
                            /\ posts'[i].createdAt <= threads'[s].lastPostedAt
      BY <1>2 DEF LastPostIsTheLatest
  <2>1. CASE s # t
    <3>1. threads'[s] = threads[s] /\ PostsOf(s)' = PostsOf(s)
        BY <1>2, <1>5, <2>1
    <3>2. \A i \in PostsOf(s) : posts'[i] = posts[i]
        BY <1>1, <1>5
    <3> QED
        BY <3>1, <3>2 DEF Coherent, LastPostIsTheLatest
  <2>2. CASE s = t
    <3>1. \A i \in PostsOf(t) : i <= id /\ posts'[i].createdAt <= clock
        BY <1>1, <1>5 DEF Coherent, PostsInThePast
    <3>2. id <= id /\ clock <= clock
        BY <1>1, <1>4
    <3> QED
        BY <1>2, <1>3, <1>5, <2>2, <3>1, <3>2
  <2> QED
      BY <2>1, <2>2
<1>14. ReferencesPointBack'
  <2> SUFFICES ASSUME NEW ref \in references'
               PROVE  /\ ref[1] \in DOMAIN posts'
                      /\ ref[2] \in DOMAIN posts'
                      /\ posts'[ref[1]].thread = posts'[ref[2]].thread
                      /\ posts'[ref[2]].number < posts'[ref[1]].number
      BY DEF ReferencesPointBack
  <2>1. CASE ref \in references
      BY <1>1, <2>1 DEF Coherent, ReferencesPointBack
  <2>2. CASE ref \in ReferenceRows(id, t, number, cites)
    <3>1. PICK i \in PostsOf(t) : posts[i].number < number /\ ref = <<id, i>>
        BY <2>2 DEF ReferenceRows
    <3> QED
        BY <1>1, <1>3, <1>5, <3>1 DEF PostsOf
  <2> QED
      BY <2>1, <2>2 DEF Replied, id, number
<1> QED
    BY <1>8, <1>9, <1>10, <1>12, <1>13, <1>14 DEF Coherent

LEMMA CoherentOpened ==
    ASSUME Coherent, TypeOK', NEW u \in Users, Opened(u)
    PROVE  Coherent'
<1>0. TypeOK
    BY DEF Coherent
<1>id. PICK id : id = Len(posts) + 1
    OBVIOUS
<1>t. PICK t : t = Len(threads) + 1
    OBVIOUS
<1>1. /\ id \in Nat /\ id \notin DOMAIN posts
      /\ \A i \in DOMAIN posts : i \in Nat /\ i < id
      /\ DOMAIN posts' = DOMAIN posts \union {id}
      /\ posts'[id] = NewPost(t, u, 1)
      /\ \A i \in DOMAIN posts : posts'[i] = posts[i]
  <2>1. Len(posts) \in Nat /\ DOMAIN posts = 1..Len(posts)
      BY <1>0, OpenedRows
  <2>2. /\ id \in Nat /\ id \notin DOMAIN posts
        /\ \A i \in DOMAIN posts : i \in Nat /\ i < id
      BY <1>id, <2>1
  <2>3. /\ DOMAIN posts' = DOMAIN posts \union {id}
        /\ posts'[id] = NewPost(t, u, 1)
        /\ \A i \in DOMAIN posts : posts'[i] = posts[i]
      BY <1>0, <1>id, <1>t, OpenedRows
  <2> QED
      BY <2>2, <2>3
<1>2. /\ t \notin DOMAIN threads
      /\ DOMAIN threads' = DOMAIN threads \union {t}
      /\ \A s \in DOMAIN threads : threads'[s] = threads[s]
      /\ threads'[t] = NewThread(u, id, clock)
    BY <1>0, <1>id, <1>t, OpenedRows
<1>3. /\ posts'[id].thread = t
      /\ posts'[id].number = 1
      /\ posts'[id].createdAt = clock
      /\ threads'[t].postsCount = 1
      /\ threads'[t].lastPost = id
      /\ threads'[t].lastPostedAt = clock
    BY <1>1, <1>2 DEF NewPost, NewThread
<1>4. clock' = clock /\ clock \in Nat /\ references' = references
    BY <1>0 DEF Opened, TypeOK, Time
<1>5. /\ PostsOf(t)' = {id}
      /\ \A s \in DOMAIN threads : PostsOf(s)' = PostsOf(s)
      /\ \A s : PostsOf(s) \subseteq DOMAIN posts
    BY <1>1, <1>2, <1>3 DEF PostsOf, Coherent, PostsInThreads
<1>6. CountsInRange'
    BY <1>2, <1>3, ConstantsAssumption DEF Coherent, CountsInRange
<1>7. PostsInThreads'
    BY <1>1, <1>2, <1>3 DEF Coherent, PostsInThreads
<1>8. PostsInThePast'
    BY <1>1, <1>3, <1>4 DEF Coherent, PostsInThePast
<1>9. PostNumbersAreAddresses'
  <2> SUFFICES ASSUME NEW s \in DOMAIN threads'
               PROVE  /\ {posts'[i].number : i \in PostsOf(s)'} = 1..threads'[s].postsCount
                      /\ \A i, j \in PostsOf(s)' :
                            posts'[i].number = posts'[j].number => i = j
      BY DEF PostNumbersAreAddresses
  <2>1. CASE s # t
    <3>1. s \in DOMAIN threads
        BY <1>2, <2>1
    <3> QED
        BY <1>1, <1>2, <1>5, <3>1 DEF Coherent, PostNumbersAreAddresses
  <2>2. CASE s = t
    <3>1. {posts'[i].number : i \in {id}} = {1}
        BY <1>3
    <3>2. 1..1 = {1}
        OBVIOUS
    <3> QED
        BY <1>3, <1>5, <2>2, <3>1, <3>2
  <2> QED
      BY <2>1, <2>2
<1>10. LastPostIsTheLatest'
  <2> SUFFICES ASSUME NEW s \in DOMAIN threads'
               PROVE  /\ threads'[s].lastPost \in PostsOf(s)'
                      /\ posts'[threads'[s].lastPost].number = threads'[s].postsCount
                      /\ posts'[threads'[s].lastPost].createdAt = threads'[s].lastPostedAt
                      /\ \A i \in PostsOf(s)' :
                            /\ i <= threads'[s].lastPost
                            /\ posts'[i].createdAt <= threads'[s].lastPostedAt
      BY DEF LastPostIsTheLatest
  <2>1. CASE s # t
    <3>1. s \in DOMAIN threads
        BY <1>2, <2>1
    <3>2. threads'[s] = threads[s] /\ PostsOf(s)' = PostsOf(s)
        BY <1>2, <1>5, <3>1
    <3>3. \A i \in PostsOf(s) : posts'[i] = posts[i]
        BY <1>1, <1>5
    <3> QED
        BY <3>1, <3>2, <3>3 DEF Coherent, LastPostIsTheLatest
  <2>2. CASE s = t
      BY <1>1, <1>3, <1>4, <1>5, <2>2
  <2> QED
      BY <2>1, <2>2
<1>11. ReferencesPointBack'
    BY <1>1, <1>4 DEF Coherent, ReferencesPointBack
<1> QED
    BY <1>6, <1>7, <1>8, <1>9, <1>10, <1>11 DEF Coherent

LEMMA CoherentNext == Coherent /\ [Next]_vars => Coherent'
<1> SUFFICES ASSUME Coherent, [Next]_vars PROVE Coherent'
    OBVIOUS
<1>1. TypeOK /\ TypeOK'
    BY TypeNext DEF Coherent
<1> QED
    BY <1>1, StepShapes, CoherentSame, CoherentReplied, CoherentOpened

\* The inductive invariant: the parts of Coherent hold together in every reachable state.
THEOREM CoherentAlways == Spec => []Coherent
<1> QED
    BY CoherentInit, CoherentNext, PTL DEF Spec

\* Post numbers are permanent addresses in every thread of every length, however many
\* requests race for the next number.
THEOREM AddressesHold == Spec => []PostNumbersAreAddresses
<1>1. Coherent => PostNumbersAreAddresses
    BY DEF Coherent
<1> QED
    BY <1>1, CoherentAlways, PTL

\* The three columns of a thread's row about its last post always state one fact.
THEOREM LastPostHolds == Spec => []LastPostIsTheLatest
<1>1. Coherent => LastPostIsTheLatest
    BY DEF Coherent
<1> QED
    BY <1>1, CoherentAlways, PTL

\* Every stored reference joins a post to an earlier one of its thread.
THEOREM ReferencesHold == Spec => []ReferencesPointBack
<1>1. Coherent => ReferencesPointBack
    BY DEF Coherent
<1> QED
    BY <1>1, CoherentAlways, PTL

LEMMA ThreadSize ==
    ASSUME Coherent, NEW t \in DOMAIN threads
    PROVE  Cardinality(PostsOf(t)) <= ThreadPostLimit
<1> DEFINE n == threads[t].postsCount
           number == [i \in PostsOf(t) |-> posts[i].number]
<1>1. n \in Nat /\ n <= ThreadPostLimit
    BY ConstantsAssumption DEF Coherent, CountsInRange
<1>2. /\ {posts[i].number : i \in PostsOf(t)} = 1..n
      /\ \A i, j \in PostsOf(t) : posts[i].number = posts[j].number => i = j
    BY DEF Coherent, PostNumbersAreAddresses
<1>3. number \in Injection(PostsOf(t), 1..n)
    BY <1>2, Fun_IsInj
<1>4. IsFiniteSet(1..n) /\ Cardinality(1..n) = n
  <2>1. ASSUME NEW m \in Nat PROVE IsFiniteSet(1..m) /\ Cardinality(1..m) = m
    <3>1. IsFiniteSet(1..m) /\ Cardinality(1..m) = IF 1 > m THEN 0 ELSE m - 1 + 1
        BY FS_Interval
    <3> QED
        BY <3>1
  <2> QED
      BY <1>1, <2>1
<1>5. Cardinality(PostsOf(t)) <= n /\ Cardinality(PostsOf(t)) \in Nat
    BY <1>3, <1>4, FS_Injection, FS_CardinalityType
<1> QED
    BY <1>1, <1>5, ConstantsAssumption

\* No thread ever holds more posts than the limit, and no post is outside a thread.
THEOREM ThreadsHoldTheirLimit == Spec => []ThreadsNeverOverflow
<1>1. Coherent => ThreadsNeverOverflow
    BY ThreadSize DEF ThreadsNeverOverflow, Coherent, PostsInThreads
<1> QED
    BY <1>1, CoherentAlways, PTL

\* What was said stays where it was said, in every step of every run.
THEOREM PostsStay == Spec => PostsArePermanent
<1> DEFINE Stays ==
        /\ Len(posts') >= Len(posts)
        /\ \A i \in DOMAIN posts :
            /\ posts'[i].thread = posts[i].thread
            /\ posts'[i].number = posts[i].number
            /\ posts'[i].createdAt = posts[i].createdAt
            /\ posts'[i].author \in {posts[i].author, NULL}
            /\ posts[i].unpublishedAt # NULL => posts'[i].unpublishedAt = posts[i].unpublishedAt
        /\ references \subseteq references'
<1>1. ASSUME TypeOK, [Next]_vars PROVE Stays
  <2>0. TypeOK /\ TypeOK'
      BY <1>1, TypeNext
  <2>1. /\ Len(posts) \in Nat /\ DOMAIN posts = 1..Len(posts)
        /\ Len(posts') \in Nat /\ DOMAIN posts' = 1..Len(posts')
      BY <2>0, LenProperties DEF TypeOK
  <2>2. CASE SameSkeleton
      BY <2>1, <2>2 DEF SameSkeleton
  <2>3. ASSUME NEW u \in Users, NEW cites \in Citations, NEW t \in DOMAIN threads,
               Replied(t, u, cites)
        PROVE  Stays
      BY <2>0, <2>1, <2>3, RepliedRows DEF Replied
  <2>4. ASSUME NEW u \in Users, Opened(u)
        PROVE  Stays
      BY <2>0, <2>1, <2>4, OpenedRows DEF Opened
  <2> QED
      BY <1>1, <2>2, <2>3, <2>4, StepShapes
<1> QED
    BY <1>1, TypeCorrect, PTL DEF Spec, PostsArePermanent

-----------------------------------------------------------------------------
(* What a step does to the accounts and to the history. *)

Rests ==
    /\ UNCHANGED <<users, threads, posts, log>>
    /\ clock' \in Nat
    /\ clock' >= clock

\* The account of a post is still found, and its row and the history stay as they are.
Writes(u) == Found(u) /\ UNCHANGED <<users, log>>

\* The row of the history that goes with a moderation.
Recorded(op, t, post) ==
    /\ \E u \in Users :
        /\ users[u].present
        /\ log' = Append(log, [actor |-> u, action |-> op, thread |-> t, post |-> post,
                               createdAt |-> clock])
    /\ UNCHANGED <<users, clock>>

Locks(t) ==
    /\ threads[t].unpublishedAt = NULL
    /\ threads[t].lockedAt = NULL
    /\ threads' = [threads EXCEPT ![t].lockedAt = clock]
    /\ posts' = posts
    /\ Recorded("lock_thread", t, NULL)

Unlocks(t) ==
    /\ threads[t].unpublishedAt = NULL
    /\ threads[t].lockedAt # NULL
    /\ threads' = [threads EXCEPT ![t].lockedAt = NULL]
    /\ posts' = posts
    /\ Recorded("unlock_thread", t, NULL)

TakesDown(t) ==
    /\ threads[t].unpublishedAt = NULL
    /\ threads' = [threads EXCEPT ![t].unpublishedAt = clock]
    /\ posts' = posts
    /\ Recorded("unpublish_thread", t, NULL)

Hides(t, i) ==
    /\ threads[t].unpublishedAt = NULL
    /\ posts[i].unpublishedAt = NULL
    /\ posts' = [posts EXCEPT ![i].unpublishedAt = clock]
    /\ threads' = threads
    /\ Recorded("unpublish_post", t, i)

LEMMA RecordRecords ==
    ASSUME TypeOK, NEW r \in Requests, requests[r] # NULL, NEW post,
           Record(requests[r], post), UNCHANGED <<users, clock>>
    PROVE  Recorded(requests[r].op, requests[r].thread, post)
<1>1. requests[r].user \in Users
    BY DEF TypeOK, Request
<1> QED
    BY <1>1 DEF Record, Recorded

LEMMA HistoryShapes ==
    ASSUME TypeOK, [Next]_vars
    PROVE  \/ Rests
           \/ \E u \in Users, cites \in Citations, t \in DOMAIN threads :
                Replied(t, u, cites) /\ Writes(u)
           \/ \E u \in Users : Opened(u) /\ Writes(u)
           \/ \E t \in DOMAIN threads : Locks(t) \/ Unlocks(t) \/ TakesDown(t)
           \/ \E t \in DOMAIN threads, i \in DOMAIN posts : posts[i].thread = t /\ Hides(t, i)
           \/ \E u \in Users : Withdraw(u)
           \/ PurgeWithdrawnUsers
<1>0. clock \in Nat
    BY DEF TypeOK, Time
<1>1. CASE ArriveStep
    BY <1>0, <1>1 DEF ArriveStep, Arrive, contentVars, Rests
<1>2. CASE UseCaseStep
  <2>1. ASSUME NEW r \in Requests, CreateThread(r)
        PROVE  Rests \/ \E u \in Users : Opened(u) /\ Writes(u)
    <3>1. requests[r].user \in Users
        BY <2>1, HandledRequest DEF CreateThread
    <3>2. CASE ThreadAnswer(requests[r]) = "created"
        BY <2>1, <3>1, <3>2 DEF CreateThread, Opened, ThreadAnswer, Writes
    <3>3. CASE ThreadAnswer(requests[r]) # "created"
        BY <1>0, <2>1, <3>3 DEF CreateThread, Rests
    <3> QED
        BY <3>2, <3>3
  <2>2. ASSUME NEW r \in Requests, CreatePost(r)
        PROVE  \/ Rests
               \/ \E u \in Users, cites \in Citations, t \in DOMAIN threads :
                    Replied(t, u, cites) /\ Writes(u)
    <3>1. requests[r].user \in Users /\ requests[r].cites \in Citations
        BY <2>2, HandledRequest DEF CreatePost
    <3>2. CASE ReplyAnswer(requests[r]) = "created"
      <4>1. requests[r].thread \in DOMAIN threads
          BY <3>2, CreatedReply
      <4>2. Replied(requests[r].thread, requests[r].user, requests[r].cites)
          BY <2>2, <3>2, CreatedReply DEF CreatePost, Replied
      <4>3. Writes(requests[r].user)
          BY <2>2, <3>2, CreatedReply DEF CreatePost, Writes
      <4> QED
          BY <3>1, <4>1, <4>2, <4>3
    <3>3. CASE ReplyAnswer(requests[r]) # "created"
        BY <1>0, <2>2, <3>3 DEF CreatePost, Rests
    <3> QED
        BY <3>2, <3>3
  <2>3. ASSUME NEW r \in Requests, NEW code, Declined(r, code), UNCHANGED <<users, clock>>
        PROVE  Rests
      BY <1>0, <2>3 DEF Declined, contentVars, Rests
  <2>4. ASSUME NEW r \in Requests, LockThread(r)
        PROVE  Rests \/ \E t \in DOMAIN threads : Locks(t)
      BY <2>3, <2>4, RecordRecords DEF LockThread, Handles, ModeratedThreadAnswer, Locks
  <2>5. ASSUME NEW r \in Requests, UnlockThread(r)
        PROVE  Rests \/ \E t \in DOMAIN threads : Unlocks(t)
      BY <2>3, <2>5, RecordRecords DEF UnlockThread, Handles, ModeratedThreadAnswer, Unlocks
  <2>6. ASSUME NEW r \in Requests, UnpublishThread(r)
        PROVE  Rests \/ \E t \in DOMAIN threads : TakesDown(t)
      BY <2>3, <2>6, RecordRecords DEF UnpublishThread, Handles, TakesDown
  <2>7. ASSUME NEW r \in Requests, UnpublishPost(r)
        PROVE  \/ Rests
               \/ \E t \in DOMAIN threads, i \in DOMAIN posts :
                    posts[i].thread = t /\ Hides(t, i)
      BY <2>3, <2>7, RecordRecords
      DEF UnpublishPost, Handles, ModeratedThreadAnswer, PostsNumbered, PostsOf, Hides
  <2>8. ASSUME NEW r \in Requests, Fail(r)
        PROVE  Rests
      BY <1>0, <2>8 DEF Fail, contentVars, Rests
  <2> QED
      BY <1>2, <2>1, <2>2, <2>4, <2>5, <2>6, <2>7, <2>8 DEF UseCaseStep
<1>3. CASE AccountStep
    BY <1>3 DEF AccountStep
<1>4. CASE Tick
    BY <1>0, <1>4 DEF Tick, contentVars, Rests
<1>5. CASE UNCHANGED vars
    BY <1>0, <1>5 DEF vars, Rests
<1> QED
    BY <1>1, <1>2, <1>3, <1>4, <1>5 DEF Next

\* The rows after a purge: what somebody of gone wrote or did is nobody's.
LEMMA PurgedRows ==
    ASSUME TypeOK, PurgeWithdrawnUsers
    PROVE  \E gone \in SUBSET Users :
            /\ \A u \in Users :
                /\ users'[u].deletedAt = users[u].deletedAt
                /\ u \notin gone => users'[u] = users[u]
            /\ DOMAIN threads' = DOMAIN threads
            /\ \A t \in DOMAIN threads :
                /\ threads'[t].author = Unlinked(threads[t].author, gone)
                /\ threads'[t].lockedAt = threads[t].lockedAt
                /\ threads'[t].unpublishedAt = threads[t].unpublishedAt
            /\ DOMAIN posts' = DOMAIN posts
            /\ \A i \in DOMAIN posts :
                /\ posts'[i].author = Unlinked(posts[i].author, gone)
                /\ posts'[i].thread = posts[i].thread
                /\ posts'[i].createdAt = posts[i].createdAt
                /\ posts'[i].unpublishedAt = posts[i].unpublishedAt
            /\ DOMAIN log' = DOMAIN log
            /\ \A e \in DOMAIN log :
                /\ log'[e].actor = Unlinked(log[e].actor, gone)
                /\ log'[e].action = log[e].action
                /\ log'[e].thread = log[e].thread
                /\ log'[e].post = log[e].post
                /\ log'[e].createdAt = log[e].createdAt
            /\ clock' = clock
<1>1. PICK gone \in SUBSET Users :
        /\ users' = [u \in Users |->
                        IF u \in gone THEN [users[u] EXCEPT !.present = FALSE] ELSE users[u]]
        /\ threads' = [t \in DOMAIN threads |->
                        [threads[t] EXCEPT !.author = Unlinked(@, gone)]]
        /\ posts' = WithoutAuthors(gone)
        /\ log' = [e \in DOMAIN log |-> [log[e] EXCEPT !.actor = Unlinked(@, gone)]]
        /\ clock' = clock
    BY DEF PurgeWithdrawnUsers
<1>2. /\ \A t \in DOMAIN threads : threads[t] \in Thread
      /\ \A i \in DOMAIN posts : posts[i] \in Post
      /\ \A e \in DOMAIN log : log[e] \in LogEntry
    BY ElementOfSeq, LenProperties DEF TypeOK
<1>3. \A u \in Users : users[u] \in Account
    BY DEF TypeOK
<1>4. \A u \in Users :
        /\ users'[u].deletedAt = users[u].deletedAt
        /\ u \notin gone => users'[u] = users[u]
    BY <1>1, <1>3 DEF Account
<1>5. /\ DOMAIN threads' = DOMAIN threads
      /\ \A t \in DOMAIN threads :
            /\ threads'[t].author = Unlinked(threads[t].author, gone)
            /\ threads'[t].lockedAt = threads[t].lockedAt
            /\ threads'[t].unpublishedAt = threads[t].unpublishedAt
    BY <1>1, <1>2 DEF Thread
<1>6. /\ DOMAIN posts' = DOMAIN posts
      /\ \A i \in DOMAIN posts :
            /\ posts'[i].author = Unlinked(posts[i].author, gone)
            /\ posts'[i].thread = posts[i].thread
            /\ posts'[i].createdAt = posts[i].createdAt
            /\ posts'[i].unpublishedAt = posts[i].unpublishedAt
    BY <1>1, <1>2 DEF Post, WithoutAuthors
<1>7. /\ DOMAIN log' = DOMAIN log
      /\ \A e \in DOMAIN log :
            /\ log'[e].actor = Unlinked(log[e].actor, gone)
            /\ log'[e].action = log[e].action
            /\ log'[e].thread = log[e].thread
            /\ log'[e].post = log[e].post
            /\ log'[e].createdAt = log[e].createdAt
    BY <1>1, <1>2 DEF LogEntry
<1> QED
    BY <1>1, <1>4, <1>5, <1>6, <1>7

\* A reply and a new thread alike: one more row, written now by u, in a thread that is open.
PostAdded(u, t) ==
    /\ Found(u)
    /\ MayPostNow(u)
    /\ Len(posts) + 1 \in Nat
    /\ \A i \in DOMAIN posts : i \in Nat /\ i < Len(posts) + 1 /\ posts'[i] = posts[i]
    /\ DOMAIN posts' = DOMAIN posts \union {Len(posts) + 1}
    /\ \E n : posts'[Len(posts) + 1] = NewPost(t, u, n)
    /\ DOMAIN threads' = DOMAIN threads \union {t}
    /\ \A s \in DOMAIN threads :
        /\ threads'[s].author = threads[s].author
        /\ threads'[s].lockedAt = threads[s].lockedAt
        /\ threads'[s].unpublishedAt = threads[s].unpublishedAt
    /\ t \notin DOMAIN threads => threads'[t].author = u
    /\ threads'[t].lockedAt = NULL
    /\ threads'[t].unpublishedAt = NULL
    /\ UNCHANGED <<users, log, clock>>

LEMMA ReplyAdds ==
    ASSUME TypeOK, NEW u \in Users, NEW cites \in Citations, NEW t \in DOMAIN threads,
           Replied(t, u, cites), Writes(u)
    PROVE  PostAdded(u, t)
<1>1. /\ Len(posts) \in Nat /\ DOMAIN posts = 1..Len(posts)
      /\ DOMAIN posts' = DOMAIN posts \union {Len(posts) + 1}
      /\ posts'[Len(posts) + 1] = NewPost(t, u, threads[t].postsCount + 1)
      /\ \A i \in DOMAIN posts : posts'[i] = posts[i]
      /\ DOMAIN threads' = DOMAIN threads
      /\ \A s \in DOMAIN threads \ {t} : threads'[s] = threads[s]
      /\ threads'[t].author = threads[t].author
      /\ threads'[t].lockedAt = threads[t].lockedAt
      /\ threads'[t].unpublishedAt = threads[t].unpublishedAt
    BY RepliedRows
<1>2. threads[t].lockedAt = NULL /\ threads[t].unpublishedAt = NULL
  <2>1. "locked_by_moderator" \notin LockReasons(t)
      BY DEF Replied
  <2> QED
      BY <2>1 DEF Replied, LockReasons
<1>3. /\ Len(posts) + 1 \in Nat
      /\ \A i \in DOMAIN posts : i \in Nat /\ i < Len(posts) + 1
    BY <1>1
<1>4. /\ DOMAIN threads' = DOMAIN threads \union {t}
      /\ \A s \in DOMAIN threads :
            /\ threads'[s].author = threads[s].author
            /\ threads'[s].lockedAt = threads[s].lockedAt
            /\ threads'[s].unpublishedAt = threads[s].unpublishedAt
      /\ threads'[t].lockedAt = NULL /\ threads'[t].unpublishedAt = NULL
    BY <1>1, <1>2
<1>5. /\ MayPostNow(u) /\ Found(u) /\ UNCHANGED <<users, log, clock>>
    BY DEF Replied, Writes
<1> QED
    BY <1>1, <1>3, <1>4, <1>5 DEF PostAdded

LEMMA ThreadAdds ==
    ASSUME TypeOK, NEW u \in Users, Opened(u), Writes(u)
    PROVE  PostAdded(u, Len(threads) + 1)
<1>1. /\ Len(posts) \in Nat /\ DOMAIN posts = 1..Len(posts)
      /\ DOMAIN posts' = DOMAIN posts \union {Len(posts) + 1}
      /\ posts'[Len(posts) + 1] = NewPost(Len(threads) + 1, u, 1)
      /\ \A i \in DOMAIN posts : posts'[i] = posts[i]
      /\ DOMAIN threads' = DOMAIN threads \union {Len(threads) + 1}
      /\ \A s \in DOMAIN threads : threads'[s] = threads[s]
      /\ threads'[Len(threads) + 1] = NewThread(u, Len(posts) + 1, clock)
    BY OpenedRows
<1>2. \A i \in DOMAIN posts : i \in Nat /\ i < Len(posts) + 1
    BY <1>1
<1>3. /\ threads'[Len(threads) + 1].author = u
      /\ threads'[Len(threads) + 1].lockedAt = NULL
      /\ threads'[Len(threads) + 1].unpublishedAt = NULL
    BY <1>1 DEF NewThread
<1> QED
    BY <1>1, <1>2, <1>3 DEF PostAdded, Opened, Writes

\* Threads and posts after a moderation: one mark is set or taken away.
LEMMA ModeratedRows ==
    ASSUME TypeOK, NEW t \in DOMAIN threads, Locks(t) \/ Unlocks(t) \/ TakesDown(t)
    PROVE  /\ DOMAIN threads' = DOMAIN threads
           /\ \A s \in DOMAIN threads :
                /\ threads'[s].author = threads[s].author
                /\ s # t => threads'[s] = threads[s]
           /\ Locks(t) => /\ threads'[t].lockedAt = clock
                          /\ threads'[t].unpublishedAt = threads[t].unpublishedAt
           /\ Unlocks(t) => /\ threads'[t].lockedAt = NULL
                            /\ threads'[t].unpublishedAt = threads[t].unpublishedAt
           /\ TakesDown(t) => /\ threads'[t].unpublishedAt = clock
                              /\ threads'[t].lockedAt = threads[t].lockedAt
           /\ UNCHANGED <<users, posts, clock>>
<1>1. \A s \in DOMAIN threads : threads[s] \in Thread
    BY ElementOfSeq, LenProperties DEF TypeOK
<1>2. CASE Locks(t)
  <2>1. threads' = [threads EXCEPT ![t].lockedAt = clock]
      BY <1>2 DEF Locks
  <2> QED
      BY <1>1, <1>2, <2>1 DEF Locks, Unlocks, TakesDown, Thread, Recorded
<1>3. CASE Unlocks(t)
  <2>1. threads' = [threads EXCEPT ![t].lockedAt = NULL]
      BY <1>3 DEF Unlocks
  <2> QED
      BY <1>1, <1>3, <2>1 DEF Locks, Unlocks, TakesDown, Thread, Recorded
<1>4. CASE TakesDown(t)
  <2>1. threads' = [threads EXCEPT ![t].unpublishedAt = clock]
      BY <1>4 DEF TakesDown
  <2> QED
      BY <1>1, <1>4, <2>1 DEF Locks, Unlocks, TakesDown, Thread, Recorded
<1> QED
    BY <1>2, <1>3, <1>4

LEMMA HiddenRows ==
    ASSUME TypeOK, NEW t \in DOMAIN threads, NEW i \in DOMAIN posts, Hides(t, i)
    PROVE  /\ DOMAIN posts' = DOMAIN posts
           /\ \A j \in DOMAIN posts :
                /\ posts'[j].thread = posts[j].thread
                /\ posts'[j].author = posts[j].author
                /\ posts'[j].createdAt = posts[j].createdAt
                /\ j # i => posts'[j] = posts[j]
           /\ posts'[i].unpublishedAt = clock
           /\ UNCHANGED <<users, threads, clock>>
<1>1. \A j \in DOMAIN posts : posts[j] \in Post
    BY ElementOfSeq, LenProperties DEF TypeOK
<1> QED
    BY <1>1 DEF Hides, Post, Recorded

-----------------------------------------------------------------------------
(* The interval between two posts *)

\* A wait is a whole number of seconds, enough, less than a second too long, and none only
\* when the interval is over.
LEMMA WaitIsExact ==
    ASSUME NEW at \in Nat, NEW now \in Nat
    PROVE  /\ PostIntervalWait(at, now) \in Nat
           /\ PostIntervalWait(at, now) % Second = 0
           /\ now + PostIntervalWait(at, now) - at >= PostInterval
           /\ PostIntervalWait(at, now) > 0 =>
                now + PostIntervalWait(at, now) - Second - at < PostInterval
<1> DEFINE remaining == PostInterval - (now - at)
           wait == PostIntervalWait(at, now)
<1>1. Second \in Nat /\ Second > 0 /\ PostInterval \in Nat
    BY ConstantsAssumption
<1>2. remaining \in Int
    BY <1>1
<1>3. CASE remaining <= 0
  <2>1. wait = 0
      BY <1>3 DEF PostIntervalWait
  <2>2. 0 % Second = 0
      BY <1>1
  <2> QED
      BY <1>1, <1>3, <2>1, <2>2
<1>4. CASE remaining > 0
  <2> DEFINE seconds == (remaining + Second - 1) \div Second
  <2>1. ~(remaining <= 0)
      BY <1>2, <1>4
  <2>2. wait = seconds * Second
      BY <2>1 DEF PostIntervalWait
  <2>3. ASSUME NEW k \in Nat, NEW s \in Nat, s > 0, k > 0
        PROVE  /\ (k + s - 1) \div s \in Nat
               /\ ((k + s - 1) \div s) * s >= k
               /\ ((k + s - 1) \div s) * s < k + s
      BY <2>3
  <2>4. ASSUME NEW k \in Nat, NEW s \in Nat, s > 0
        PROVE  k * s \in Nat /\ (k * s) % s = 0
      BY <2>4
  <2>5. remaining \in Nat
      BY <1>2, <1>4
  <2>6. seconds \in Nat /\ seconds * Second >= remaining /\ seconds * Second < remaining + Second
      BY <1>1, <1>4, <2>3, <2>5
  <2>7. seconds * Second \in Nat /\ (seconds * Second) % Second = 0
      BY <1>1, <2>4, <2>6
  <2> HIDE DEF seconds, wait
  <2> QED
      BY <1>1, <2>2, <2>6, <2>7 DEF wait
<1> QED
    BY <1>2, <1>3, <1>4

\* Of what anybody has written, one post is the latest.
LatestKnown ==
    \A u \in Users : Authored(u) # {} => \E i \in DOMAIN posts : IsLatest(u, i)

Spaced == Coherent /\ LatestKnown /\ PostsAreSpaced

\* Whoever may post now is past the interval of everything they have written.
LEMMA MayPostMeansSpaced ==
    ASSUME Coherent, LatestKnown, NEW u \in Users, MayPostNow(u), NEW j \in Authored(u)
    PROVE  clock - posts[j].createdAt >= PostInterval
<1>1. PICK i \in DOMAIN posts : IsLatest(u, i)
    BY DEF LatestKnown
<1>2. PostIntervalWait(posts[i].createdAt, clock) = 0
    BY <1>1 DEF MayPostNow
<1>3. \A k \in DOMAIN posts : posts[k].createdAt \in Nat
  <2>1. \A k \in DOMAIN posts : posts[k] \in Post
      BY ElementOfSeq, LenProperties DEF Coherent, TypeOK
  <2> QED
      BY <2>1 DEF Post, Time
<1>4. clock \in Nat /\ PostInterval \in Nat
    BY ConstantsAssumption DEF Coherent, TypeOK, Time
<1>5. clock + 0 - posts[i].createdAt >= PostInterval
    BY <1>2, <1>3, <1>4, WaitIsExact
<1>6. posts[j].createdAt <= posts[i].createdAt
    BY <1>1, <1>3 DEF IsLatest, Authored
<1> QED
    BY <1>3, <1>4, <1>5, <1>6 DEF Authored

\* Rows that keep their authors and their times have the same latest post.
LEMMA LatestKept ==
    ASSUME NEW u, NEW i, IsLatest(u, i), Authored(u)' = Authored(u),
           \A j \in Authored(u) : posts'[j].createdAt = posts[j].createdAt
    PROVE  IsLatest(u, i)'
    BY DEF IsLatest

LEMMA SpacedSame ==
    ASSUME LatestKnown, PostsAreSpaced, DOMAIN posts' = DOMAIN posts,
           NEW gone \in SUBSET Users,
           \A i \in DOMAIN posts :
                /\ posts'[i].author = Unlinked(posts[i].author, gone)
                /\ posts'[i].createdAt = posts[i].createdAt
    PROVE  LatestKnown' /\ PostsAreSpaced'
<1>1. NULL \notin Users
    BY ConstantsAssumption
<1>2. ASSUME NEW u \in Users, Authored(u)' # {}
      PROVE  \E i \in DOMAIN posts' : IsLatest(u, i)'
  <2>1. u \notin gone /\ Authored(u)' = Authored(u)
      BY <1>1, <1>2 DEF Authored, Unlinked
  <2>2. PICK i \in DOMAIN posts : IsLatest(u, i)
      BY <1>2, <2>1 DEF LatestKnown
  <2>3. IsLatest(u, i)'
      BY <2>1, <2>2, LatestKept DEF Authored
  <2> QED
      BY <2>2, <2>3
<1>3. PostsAreSpaced'
    BY DEF PostsAreSpaced, Unlinked
<1> QED
    BY <1>2, <1>3 DEF LatestKnown

LEMMA SpacedAdded ==
    ASSUME Coherent, LatestKnown, PostsAreSpaced, NEW u \in Users, NEW t, PostAdded(u, t)
    PROVE  LatestKnown' /\ PostsAreSpaced'
<1>id. PICK id \in Nat : id = Len(posts) + 1
    BY DEF PostAdded
<1>1. /\ \A i \in DOMAIN posts : i \in Nat /\ i < id /\ posts'[i] = posts[i]
      /\ DOMAIN posts' = DOMAIN posts \union {id}
      /\ posts'[id].author = u
      /\ posts'[id].createdAt = clock
    BY <1>id DEF PostAdded, NewPost
<1>2. \A i \in DOMAIN posts : posts[i].createdAt \in Nat /\ posts[i].createdAt <= clock
  <2>1. \A i \in DOMAIN posts : posts[i] \in Post
      BY ElementOfSeq, LenProperties DEF Coherent, TypeOK
  <2> QED
      BY <2>1 DEF Post, Time, Coherent, PostsInThePast
<1>3. clock \in Nat
    BY DEF Coherent, TypeOK, Time
<1>4. /\ Authored(u)' = Authored(u) \union {id}
      /\ \A v \in Users \ {u} : Authored(v)' = Authored(v)
    BY <1>1 DEF Authored
<1>5. IsLatest(u, id)'
  <2>1. \A j \in Authored(u)' :
            \/ posts'[j].createdAt < posts'[id].createdAt
            \/ posts'[j].createdAt = posts'[id].createdAt /\ j <= id
      BY <1>1, <1>2, <1>3, <1>4 DEF Authored
  <2> QED
      BY <1>4, <2>1 DEF IsLatest
<1>6. ASSUME NEW v \in Users, Authored(v)' # {}
      PROVE  \E i \in DOMAIN posts' : IsLatest(v, i)'
  <2>1. CASE v = u
      BY <1>1, <1>5, <2>1
  <2>2. CASE v # u
    <3>1. PICK i \in DOMAIN posts : IsLatest(v, i)
        BY <1>4, <1>6, <2>2 DEF LatestKnown
    <3>2. \A j \in Authored(v) : posts'[j].createdAt = posts[j].createdAt
        BY <1>1 DEF Authored
    <3>3. Authored(v)' = Authored(v)
        BY <1>4, <2>2
    <3>4. IsLatest(v, i)'
        BY <3>1, <3>2, <3>3, LatestKept
    <3> QED
        BY <1>1, <3>1, <3>4
  <2> QED
      BY <2>1, <2>2
<1>7. ASSUME NEW i \in DOMAIN posts, posts[i].author = u
      PROVE  clock - posts[i].createdAt >= PostInterval
    BY <1>7, MayPostMeansSpaced DEF Authored, PostAdded
<1>8. PostsAreSpaced'
  <2> SUFFICES ASSUME NEW i \in DOMAIN posts', NEW j \in DOMAIN posts', i < j,
                      posts'[i].author = posts'[j].author, posts'[i].author # NULL
               PROVE  posts'[j].createdAt - posts'[i].createdAt >= PostInterval
      BY DEF PostsAreSpaced
  <2>1. i \in DOMAIN posts
      BY <1>1
  <2>2. CASE j = id
      BY <1>1, <1>7, <2>1, <2>2
  <2>3. CASE j # id
    <3>1. j \in DOMAIN posts
        BY <1>1, <2>3
    <3> QED
        BY <1>1, <2>1, <3>1 DEF PostsAreSpaced
  <2> QED
      BY <2>2, <2>3
<1> QED
    BY <1>6, <1>8 DEF LatestKnown

\* What a step other than a new post does to the authors and the times of the posts.
LEMMA AuthorsAndTimes ==
    ASSUME TypeOK, [Next]_vars
    PROVE  \/ \E u \in Users : \E t : PostAdded(u, t)
           \/ /\ DOMAIN posts' = DOMAIN posts
              /\ \E gone \in SUBSET Users : \A i \in DOMAIN posts :
                    /\ posts'[i].author = Unlinked(posts[i].author, gone)
                    /\ posts'[i].createdAt = posts[i].createdAt
<1>0. {} \in SUBSET Users /\ \A u : Unlinked(u, {}) = u
    BY DEF Unlinked
<1>1. ASSUME posts' = posts
      PROVE  \E gone \in SUBSET Users : \A i \in DOMAIN posts :
                /\ posts'[i].author = Unlinked(posts[i].author, gone)
                /\ posts'[i].createdAt = posts[i].createdAt
    BY <1>0, <1>1
<1>2. CASE Rests
    BY <1>1, <1>2 DEF Rests
<1>3. CASE \E u \in Users, cites \in Citations, t \in DOMAIN threads :
                Replied(t, u, cites) /\ Writes(u)
    BY <1>3, ReplyAdds
<1>4. CASE \E u \in Users : Opened(u) /\ Writes(u)
    BY <1>4, ThreadAdds
<1>5. CASE \E t \in DOMAIN threads : Locks(t) \/ Unlocks(t) \/ TakesDown(t)
    BY <1>1, <1>5 DEF Locks, Unlocks, TakesDown
<1>6. CASE \E t \in DOMAIN threads, i \in DOMAIN posts : posts[i].thread = t /\ Hides(t, i)
    BY <1>0, <1>6, HiddenRows
<1>7. CASE \E u \in Users : Withdraw(u)
    BY <1>1, <1>7 DEF Withdraw, contentVars
<1>8. CASE PurgeWithdrawnUsers
    BY <1>8, PurgedRows
<1> QED
    BY <1>2, <1>3, <1>4, <1>5, <1>6, <1>7, <1>8, HistoryShapes

\* Two posts of one account are the interval apart, in whichever threads they stand and
\* however its requests race: the latest post each request reads is the latest there is.
THEOREM PostsKeepTheirDistance == Spec => []PostsAreSpaced
<1>1. Init => LatestKnown /\ PostsAreSpaced
  <2>1. posts = <<>> => LatestKnown /\ PostsAreSpaced
      BY EmptySeq DEF LatestKnown, PostsAreSpaced, Authored
  <2> QED
      BY <2>1 DEF Init
<1>2. Spaced /\ [Next]_vars => Spaced'
  <2> SUFFICES ASSUME Spaced, [Next]_vars PROVE Spaced'
      OBVIOUS
  <2>1. Coherent /\ TypeOK /\ LatestKnown /\ PostsAreSpaced
      BY DEF Spaced, Coherent
  <2>2. LatestKnown' /\ PostsAreSpaced'
      BY <2>1, AuthorsAndTimes, SpacedAdded, SpacedSame
  <2> QED
      BY <2>1, <2>2, CoherentNext DEF Spaced
<1>3. Init => Spaced
    BY <1>1, CoherentInit DEF Spaced
<1>4. Spaced => PostsAreSpaced
    BY DEF Spaced
<1> QED
    BY <1>2, <1>3, <1>4, PTL DEF Spec

\* What a writer is told to wait is exact in every state.
THEOREM AdviceIsExact == Spec => []AdvisedWaitIsExact
<1>1. Coherent => AdvisedWaitIsExact
  <2> SUFFICES ASSUME Coherent, NEW u \in Users, NEW i \in DOMAIN posts
               PROVE  LET wait == PostIntervalWait(posts[i].createdAt, clock)
                      IN  /\ wait % Second = 0
                          /\ clock + wait - posts[i].createdAt >= PostInterval
                          /\ wait > 0 =>
                                clock + wait - Second - posts[i].createdAt < PostInterval
      BY DEF AdvisedWaitIsExact
  <2>1. posts[i] \in Post
      BY ElementOfSeq, LenProperties DEF Coherent, TypeOK
  <2>2. posts[i].createdAt \in Nat /\ clock \in Nat
      BY <2>1 DEF Post, Time, Coherent, TypeOK
  <2> QED
      BY <2>2, WaitIsExact
<1> QED
    BY <1>1, CoherentAlways, PTL

-----------------------------------------------------------------------------
(* Accounts that leave *)

\* A withdrawal stamps one row and nothing else.
LEMMA WithdrawnRows ==
    ASSUME TypeOK, NEW u \in Users, Withdraw(u)
    PROVE  /\ \A v \in Users : users'[v].present = users[v].present
           /\ \A v \in Users \ {u} : users'[v] = users[v]
           /\ users'[u].deletedAt = clock
           /\ UNCHANGED <<threads, posts, log, clock>>
<1>1. users' = [users EXCEPT ![u].deletedAt = clock]
    BY DEF Withdraw
<1>2. \A v \in Users : users[v] \in Account
    BY DEF TypeOK
<1>3. UNCHANGED <<threads, posts, log, clock>>
    BY DEF Withdraw, contentVars
<1> QED
    BY <1>1, <1>2, <1>3 DEF TypeOK, Account

\* The row of the history that a moderation appends.
LEMMA RecordedRows ==
    ASSUME TypeOK, NEW op \in ModerationOperations, NEW t \in Nat,
           NEW post \in Nat \union {NULL}, Recorded(op, t, post)
    PROVE  /\ Len(log) + 1 \in Nat
           /\ \A e \in DOMAIN log : e \in Nat /\ e < Len(log) + 1 /\ log'[e] = log[e]
           /\ DOMAIN log' = DOMAIN log \union {Len(log) + 1}
           /\ log'[Len(log) + 1].actor \in Users
           /\ users[log'[Len(log) + 1].actor].present
           /\ log'[Len(log) + 1].action = op
           /\ log'[Len(log) + 1].thread = t
           /\ log'[Len(log) + 1].post = post
           /\ log'[Len(log) + 1].createdAt = clock
           /\ UNCHANGED <<users, clock>>
<1>1. PICK u \in Users :
        /\ users[u].present
        /\ log' = Append(log, [actor |-> u, action |-> op, thread |-> t, post |-> post,
                               createdAt |-> clock])
    BY DEF Recorded
<1>2. PICK row : row = [actor |-> u, action |-> op, thread |-> t, post |-> post,
                        createdAt |-> clock]
    OBVIOUS
<1>3. row \in LogEntry
    BY <1>2 DEF TypeOK, LogEntry, MaybeUser
<1>4. log' = Append(log, row)
    BY <1>1, <1>2
<1>5. /\ DOMAIN log' = DOMAIN log \union {Len(log) + 1}
      /\ log'[Len(log) + 1] = row
      /\ \A e \in DOMAIN log : log'[e] = log[e]
    BY <1>3, <1>4, AppendedRow DEF TypeOK
<1>6. /\ Len(log) + 1 \in Nat
      /\ \A e \in DOMAIN log : e \in Nat /\ e < Len(log) + 1
    BY LenProperties DEF TypeOK
<1>7. UNCHANGED <<users, clock>>
    BY DEF Recorded
<1> QED
    BY <1>1, <1>2, <1>5, <1>6, <1>7

\* The ids of rows are numbers.
LEMMA Ids ==
    ASSUME TypeOK
    PROVE  /\ \A t \in DOMAIN threads : t \in Nat /\ threads[t] \in Thread
           /\ \A i \in DOMAIN posts : i \in Nat /\ posts[i] \in Post
           /\ \A e \in DOMAIN log : e \in Nat /\ log[e] \in LogEntry
    BY ElementOfSeq, LenProperties DEF TypeOK

\* No post is attributed to an account later than its withdrawal: the use case reads the
\* account again in the transaction that inserts the post.
THEOREM LeaversPostNothing == Spec => []NobodyPostsAfterWithdrawing
<1>1. Init => NobodyPostsAfterWithdrawing
  <2>1. posts = <<>> => NobodyPostsAfterWithdrawing
      BY EmptySeq DEF NobodyPostsAfterWithdrawing
  <2> QED
      BY <2>1 DEF Init
<1>2. ASSUME Coherent, NobodyPostsAfterWithdrawing, [Next]_vars
      PROVE  NobodyPostsAfterWithdrawing'
  <2>0. TypeOK /\ NULL \notin Users
      BY <1>2, ConstantsAssumption DEF Coherent
  <2>1. \A i \in DOMAIN posts : posts[i].author \in Users \union {NULL}
      BY <2>0, Ids DEF Post, MaybeUser
  <2>2. ASSUME users' = users, DOMAIN posts' = DOMAIN posts,
               \A i \in DOMAIN posts : /\ posts'[i].author = posts[i].author
                                       /\ posts'[i].createdAt = posts[i].createdAt
        PROVE  NobodyPostsAfterWithdrawing'
      BY <1>2, <2>2 DEF NobodyPostsAfterWithdrawing
  <2>3. ASSUME NEW u \in Users, NEW t, PostAdded(u, t)
        PROVE  NobodyPostsAfterWithdrawing'
    <3>1. users'[u].deletedAt = NULL /\ users' = users
        BY <2>3 DEF PostAdded, Found
    <3>2. /\ DOMAIN posts' = DOMAIN posts \union {Len(posts) + 1}
          /\ \A i \in DOMAIN posts : posts'[i] = posts[i]
          /\ posts'[Len(posts) + 1].author = u
        BY <2>3 DEF PostAdded, NewPost
    <3> QED
        BY <1>2, <3>1, <3>2 DEF NobodyPostsAfterWithdrawing
  <2>4. CASE Rests
      BY <2>2, <2>4 DEF Rests
  <2>5. CASE \E t \in DOMAIN threads : Locks(t) \/ Unlocks(t) \/ TakesDown(t)
      BY <2>2, <2>5 DEF Locks, Unlocks, TakesDown, Recorded
  <2>6. CASE \E t \in DOMAIN threads, i \in DOMAIN posts : posts[i].thread = t /\ Hides(t, i)
      BY <2>0, <2>2, <2>6, HiddenRows
  <2>7. ASSUME NEW u \in Users, Withdraw(u)
        PROVE  NobodyPostsAfterWithdrawing'
      BY <1>2, <2>0, <2>1, <2>7, WithdrawnRows
      DEF Coherent, PostsInThePast, NobodyPostsAfterWithdrawing
  <2>8. CASE PurgeWithdrawnUsers
      BY <1>2, <2>0, <2>1, <2>8, PurgedRows DEF Unlinked, NobodyPostsAfterWithdrawing
  <2> QED
      BY <1>2, <2>0, <2>3, <2>4, <2>5, <2>6, <2>7, <2>8, HistoryShapes, ReplyAdds, ThreadAdds
<1> QED
    BY <1>1, <1>2, CoherentAlways, PTL DEF Spec

\* Authors and actors are accounts that exist, or nobody.
THEOREM NobodyIsOrphaned == Spec => []NoOrphans
<1>1. Init => NoOrphans
  <2>1. posts = <<>> /\ threads = <<>> /\ log = <<>> => NoOrphans
      BY EmptySeq DEF NoOrphans
  <2> QED
      BY <2>1 DEF Init
<1>2. ASSUME TypeOK, NoOrphans, [Next]_vars
      PROVE  NoOrphans'
  <2>1. /\ NULL \notin Users
        /\ \A i \in DOMAIN posts : posts[i].author \in Users \union {NULL}
        /\ \A t \in DOMAIN threads : threads[t].author \in Users \union {NULL}
        /\ \A e \in DOMAIN log : log[e].actor \in Users \union {NULL}
      BY <1>2, Ids, ConstantsAssumption DEF Post, Thread, LogEntry, MaybeUser
  <2>2. ASSUME NEW op \in ModerationOperations, NEW t \in DOMAIN threads,
               NEW post \in Nat \union {NULL}, Recorded(op, t, post)
        PROVE  \A e \in DOMAIN log' : log'[e].actor # NULL => users'[log'[e].actor].present
    <3>1. /\ \A e \in DOMAIN log : log'[e] = log[e]
          /\ DOMAIN log' = DOMAIN log \union {Len(log) + 1}
          /\ users[log'[Len(log) + 1].actor].present
          /\ users' = users
        BY <1>2, <2>2, Ids, RecordedRows
    <3>2. \A e \in DOMAIN log : log[e].actor # NULL => users[log[e].actor].present
        BY <1>2 DEF NoOrphans
    <3> QED
        BY <3>1, <3>2, Zenon
  <2>3. ASSUME NEW u \in Users, NEW t, PostAdded(u, t)
        PROVE  NoOrphans'
    <3>1. users[u].present /\ users' = users /\ log' = log
        BY <2>3 DEF PostAdded, Found
    <3>2. \A i \in DOMAIN posts' : posts'[i].author # NULL => users'[posts'[i].author].present
      <4>1. /\ DOMAIN posts' = DOMAIN posts \union {Len(posts) + 1}
            /\ \A i \in DOMAIN posts : posts'[i] = posts[i]
            /\ posts'[Len(posts) + 1].author = u
          BY <2>3 DEF PostAdded, NewPost
      <4> QED
          BY <1>2, <3>1, <4>1 DEF NoOrphans
    <3>3. \A s \in DOMAIN threads' : threads'[s].author # NULL => users'[threads'[s].author].present
        BY <1>2, <2>3, <3>1 DEF NoOrphans, PostAdded
    <3> QED
        BY <1>2, <3>1, <3>2, <3>3 DEF NoOrphans
  <2>4. CASE Rests
      BY <1>2, <2>4 DEF Rests, NoOrphans
  <2>5. ASSUME NEW t \in DOMAIN threads, Locks(t) \/ Unlocks(t) \/ TakesDown(t)
        PROVE  NoOrphans'
    <3>1. \A e \in DOMAIN log' : log'[e].actor # NULL => users'[log'[e].actor].present
        BY <2>2, <2>5 DEF Locks, Unlocks, TakesDown, ModerationOperations
    <3> QED
        BY <1>2, <2>5, <3>1, ModeratedRows DEF NoOrphans
  <2>6. ASSUME NEW t \in DOMAIN threads, NEW i \in DOMAIN posts, Hides(t, i)
        PROVE  NoOrphans'
    <3>1. \A e \in DOMAIN log' : log'[e].actor # NULL => users'[log'[e].actor].present
        BY <1>2, <2>2, <2>6, Ids DEF Hides, ModerationOperations
    <3> QED
        BY <1>2, <2>6, <3>1, HiddenRows DEF NoOrphans
  <2>7. ASSUME NEW u \in Users, Withdraw(u)
        PROVE  NoOrphans'
      BY <1>2, <2>1, <2>7, WithdrawnRows DEF NoOrphans
  <2>8. CASE PurgeWithdrawnUsers
      BY <1>2, <2>1, <2>8, PurgedRows DEF Unlinked, NoOrphans
  <2> QED
      BY <1>2, <2>3, <2>4, <2>5, <2>6, <2>7, <2>8, HistoryShapes, ReplyAdds, ThreadAdds
<1> QED
    BY <1>1, <1>2, TypeCorrect, PTL DEF Spec

-----------------------------------------------------------------------------
(* Threads that are closed *)

\* Nothing is posted to a thread after the lock that stands on it or after it was taken out of
\* sight: a reply and a moderation of one thread are ordered by the writer's transaction.
THEOREM ClosedMeansClosed == Spec => []NothingPostedAfterClosing
<1>1. Init => NothingPostedAfterClosing
  <2>1. threads = <<>> => NothingPostedAfterClosing
      BY EmptySeq DEF NothingPostedAfterClosing
  <2> QED
      BY <2>1 DEF Init
<1>2. ASSUME Coherent, NothingPostedAfterClosing, [Next]_vars
      PROVE  NothingPostedAfterClosing'
  <2>0. TypeOK
      BY <1>2 DEF Coherent
  <2>1. ASSUME DOMAIN threads' = DOMAIN threads, DOMAIN posts' = DOMAIN posts,
               \A t \in DOMAIN threads :
                    /\ threads'[t].lockedAt = threads[t].lockedAt
                    /\ threads'[t].unpublishedAt = threads[t].unpublishedAt,
               \A i \in DOMAIN posts :
                    /\ posts'[i].thread = posts[i].thread
                    /\ posts'[i].createdAt = posts[i].createdAt
        PROVE  NothingPostedAfterClosing'
      BY <1>2, <2>1 DEF NothingPostedAfterClosing, PostsOf
  <2>2. ASSUME NEW u \in Users, NEW t, PostAdded(u, t)
        PROVE  NothingPostedAfterClosing'
    <3>1. /\ DOMAIN posts' = DOMAIN posts \union {Len(posts) + 1}
          /\ \A i \in DOMAIN posts : posts'[i] = posts[i]
          /\ posts'[Len(posts) + 1].thread = t
        BY <2>2 DEF PostAdded, NewPost
    <3>2. ASSUME NEW s \in DOMAIN threads', s # t
          PROVE  /\ s \in DOMAIN threads
                 /\ threads'[s].lockedAt = threads[s].lockedAt
                 /\ threads'[s].unpublishedAt = threads[s].unpublishedAt
                 /\ \A i \in PostsOf(s)' : i \in PostsOf(s) /\ posts'[i] = posts[i]
        BY <2>2, <3>1, <3>2 DEF PostAdded, PostsOf
    <3>3. threads'[t].lockedAt = NULL /\ threads'[t].unpublishedAt = NULL
        BY <2>2 DEF PostAdded
    <3> QED
        BY <1>2, <3>2, <3>3 DEF NothingPostedAfterClosing
  <2>3. ASSUME NEW t \in DOMAIN threads, Locks(t) \/ Unlocks(t) \/ TakesDown(t)
        PROVE  NothingPostedAfterClosing'
    <3>1. \A i \in PostsOf(t) : posts[i].createdAt <= clock
        BY <1>2 DEF Coherent, PostsInThePast, PostsOf
    <3> QED
        BY <1>2, <2>0, <2>3, <3>1, ModeratedRows DEF NothingPostedAfterClosing, PostsOf
  <2>4. CASE Rests
      BY <2>1, <2>4 DEF Rests
  <2>5. CASE \E t \in DOMAIN threads, i \in DOMAIN posts : posts[i].thread = t /\ Hides(t, i)
      BY <2>0, <2>1, <2>5, HiddenRows
  <2>6. CASE \E u \in Users : Withdraw(u)
      BY <2>0, <2>1, <2>6, WithdrawnRows
  <2>7. CASE PurgeWithdrawnUsers
      BY <2>0, <2>1, <2>7, PurgedRows
  <2> QED
      BY <1>2, <2>0, <2>2, <2>3, <2>4, <2>5, <2>6, <2>7, HistoryShapes, ReplyAdds, ThreadAdds
<1> QED
    BY <1>1, <1>2, CoherentAlways, PTL DEF Spec

-----------------------------------------------------------------------------
(* The history accounts for the state *)

\* The entries of a thread that hid post i.
Hiding(t, i) == {e \in Entries(t, {"unpublish_post"}) : log[e].post = i}

\* The three things the history accounts for, for one thread.
LocksExplained(t) ==
    /\ \A e \in LockEntries(t) :
        /\ (\A d \in LockEntries(t) : d >= e) => log[e].action = "lock_thread"
        /\ \A d \in LockEntries(t) :
            Follows(d, e, LockEntries(t)) => log[d].action # log[e].action
        /\ (\A d \in LockEntries(t) : d <= e) =>
            threads[t].lockedAt =
                (IF log[e].action = "lock_thread" THEN log[e].createdAt ELSE NULL)
    /\ LockEntries(t) = {} => threads[t].lockedAt = NULL

TakingDownExplained(t) ==
    /\ Entries(t, {"unpublish_thread"}) = {} <=> threads[t].unpublishedAt = NULL
    /\ \A e \in Entries(t, {"unpublish_thread"}) :
        /\ threads[t].unpublishedAt = log[e].createdAt
        /\ \A d \in Entries(t, ModerationOperations) : d <= e

HidingExplained(t, i) ==
    /\ Hiding(t, i) = {} <=> posts[i].unpublishedAt = NULL
    /\ \A e \in Hiding(t, i) : Hiding(t, i) = {e} /\ posts[i].unpublishedAt = log[e].createdAt

Explained(t) ==
    LocksExplained(t) /\ TakingDownExplained(t) /\ \A i \in PostsOf(t) : HidingExplained(t, i)

LEMMA ExplainedParts ==
    /\ LogExplainsState <=> \A t \in DOMAIN threads : Explained(t)
    /\ LogExplainsState' <=> \A t \in DOMAIN threads' : Explained(t)'
    BY DEF LogExplainsState, Explained, LocksExplained, TakingDownExplained, HidingExplained,
           Hiding

\* The history is of threads and posts that exist: what makes a new row one without a history.
LogNamesRows ==
    \A e \in DOMAIN log :
        /\ log[e].thread \in DOMAIN threads
        /\ log[e].post # NULL => log[e].post \in DOMAIN posts

Accounted == Coherent /\ LogNamesRows /\ LogExplainsState

LEMMA LocksKept ==
    ASSUME NEW t, LocksExplained(t), LockEntries(t)' = LockEntries(t),
           \A e \in LockEntries(t) : /\ log'[e].action = log[e].action
                                     /\ log'[e].createdAt = log[e].createdAt,
           threads'[t].lockedAt = threads[t].lockedAt
    PROVE  LocksExplained(t)'
<1>1. \A d, e : Follows(d, e, LockEntries(t))' <=> Follows(d, e, LockEntries(t))
    BY DEF Follows
<1> QED
    BY <1>1 DEF LocksExplained

LEMMA TakingDownKept ==
    ASSUME NEW t, TakingDownExplained(t),
           Entries(t, {"unpublish_thread"})' = Entries(t, {"unpublish_thread"}),
           Entries(t, {"unpublish_thread"}) = {} \/
                Entries(t, ModerationOperations)' = Entries(t, ModerationOperations),
           \A e \in Entries(t, {"unpublish_thread"}) : log'[e].createdAt = log[e].createdAt,
           threads'[t].unpublishedAt = threads[t].unpublishedAt
    PROVE  TakingDownExplained(t)'
    BY DEF TakingDownExplained

LEMMA HidingKept ==
    ASSUME NEW t, NEW i, HidingExplained(t, i), Hiding(t, i)' = Hiding(t, i),
           \A e \in Hiding(t, i) : log'[e].createdAt = log[e].createdAt,
           posts'[i].unpublishedAt = posts[i].unpublishedAt
    PROVE  HidingExplained(t, i)'
    BY DEF HidingExplained

\* A step that writes no mark and no entry leaves every account as it was.
LEMMA AccountedSame ==
    ASSUME Accounted, Coherent',
           DOMAIN threads' = DOMAIN threads,
           \A t \in DOMAIN threads :
                /\ threads'[t].lockedAt = threads[t].lockedAt
                /\ threads'[t].unpublishedAt = threads[t].unpublishedAt,
           DOMAIN posts' = DOMAIN posts,
           \A i \in DOMAIN posts :
                /\ posts'[i].thread = posts[i].thread
                /\ posts'[i].unpublishedAt = posts[i].unpublishedAt,
           DOMAIN log' = DOMAIN log,
           \A e \in DOMAIN log :
                /\ log'[e].action = log[e].action
                /\ log'[e].thread = log[e].thread
                /\ log'[e].post = log[e].post
                /\ log'[e].createdAt = log[e].createdAt
    PROVE  Accounted'
<1>1. \A t, A : Entries(t, A)' = Entries(t, A) /\ Entries(t, A) \subseteq DOMAIN log
    BY DEF Entries
<1>2. \A t, i : Hiding(t, i)' = Hiding(t, i) /\ Hiding(t, i) \subseteq DOMAIN log
    BY <1>1 DEF Hiding
<1>3. \A t : PostsOf(t)' = PostsOf(t) /\ PostsOf(t) \subseteq DOMAIN posts
    BY DEF PostsOf
<1>4. ASSUME NEW t \in DOMAIN threads
      PROVE  Explained(t)'
  <2>0. Explained(t)
      BY ExplainedParts DEF Accounted
  <2>1. LocksExplained(t)'
      BY <1>1, <2>0, LocksKept DEF Explained, LockEntries
  <2>2. TakingDownExplained(t)'
      BY <1>1, <2>0, TakingDownKept DEF Explained
  <2>3. ASSUME NEW i \in PostsOf(t)' PROVE HidingExplained(t, i)'
      BY <1>2, <1>3, <2>0, HidingKept DEF Explained
  <2> QED
      BY <2>1, <2>2, <2>3 DEF Explained
<1>5. LogNamesRows'
    BY DEF Accounted, LogNamesRows
<1>6. LogExplainsState'
    BY <1>4, ExplainedParts
<1> QED
    BY <1>5, <1>6 DEF Accounted

\* A new post has no history, and neither has a new thread.
LEMMA AccountedAdded ==
    ASSUME Accounted, Coherent', NEW u \in Users, NEW t, PostAdded(u, t)
    PROVE  Accounted'
<1>id. PICK id \in Nat : id = Len(posts) + 1
    BY DEF PostAdded
<1>1. /\ \A i \in DOMAIN posts : i < id /\ posts'[i] = posts[i]
      /\ DOMAIN posts' = DOMAIN posts \union {id}
      /\ posts'[id].thread = t
      /\ posts'[id].unpublishedAt = NULL
      /\ id \notin DOMAIN posts
  <2>1. \A i \in DOMAIN posts : i \in Nat /\ i < id /\ posts'[i] = posts[i]
      BY <1>id DEF PostAdded
  <2>2. id \notin DOMAIN posts
      BY <2>1
  <2> QED
      BY <1>id, <2>1, <2>2 DEF PostAdded, NewPost
<1>2. log' = log
    BY DEF PostAdded
<1>3. \A s, A : Entries(s, A)' = Entries(s, A)
    BY <1>2 DEF Entries
<1>4. \A s, i : Hiding(s, i)' = Hiding(s, i)
    BY <1>2, <1>3 DEF Hiding
<1>5. LogNamesRows
    BY DEF Accounted
<1>6. id # NULL
    BY ConstantsAssumption
<1>7. \A s : Hiding(s, id) = {}
    BY <1>1, <1>5, <1>6 DEF Hiding, Entries, LogNamesRows
<1>8. ASSUME NEW s, HidingExplained(s, id)' \/ id \notin PostsOf(s)',
             \A i \in PostsOf(s) : HidingExplained(s, i)
      PROVE  \A i \in PostsOf(s)' : HidingExplained(s, i)'
  <2> SUFFICES ASSUME NEW i \in PostsOf(s)', i # id PROVE HidingExplained(s, i)'
      BY <1>8
  <2>1. i \in PostsOf(s) /\ posts'[i] = posts[i]
      BY <1>1 DEF PostsOf
  <2> QED
      BY <1>2, <1>4, <1>8, <2>1, HidingKept
<1>9. \A s : HidingExplained(s, id)'
    BY <1>1, <1>4, <1>7 DEF HidingExplained
<1>10. ASSUME NEW s \in DOMAIN threads
       PROVE  Explained(s)'
  <2>0. Explained(s)
      BY ExplainedParts DEF Accounted
  <2>1. /\ threads'[s].lockedAt = threads[s].lockedAt
        /\ threads'[s].unpublishedAt = threads[s].unpublishedAt
      BY DEF PostAdded
  <2>2. LocksExplained(s)'
      BY <1>2, <1>3, <2>0, <2>1, LocksKept DEF Explained, LockEntries
  <2>3. TakingDownExplained(s)'
      BY <1>2, <1>3, <2>0, <2>1, TakingDownKept DEF Explained
  <2>4. \A i \in PostsOf(s)' : HidingExplained(s, i)'
      BY <1>8, <1>9, <2>0 DEF Explained
  <2> QED
      BY <2>2, <2>3, <2>4 DEF Explained
<1>11. ASSUME t \notin DOMAIN threads
       PROVE  Explained(t)'
  <2>1. \A A : Entries(t, A)' = {}
      BY <1>3, <1>5, <1>11 DEF Entries, LogNamesRows
  <2>2. threads'[t].lockedAt = NULL /\ threads'[t].unpublishedAt = NULL
      BY DEF PostAdded
  <2>3. LocksExplained(t)' /\ TakingDownExplained(t)'
      BY <2>1, <2>2 DEF LocksExplained, LockEntries, TakingDownExplained
  <2>4. PostsOf(t) = {}
      BY <1>11 DEF PostsOf, Accounted, Coherent, PostsInThreads
  <2>5. \A i \in PostsOf(t)' : HidingExplained(t, i)'
      BY <1>8, <1>9, <2>4
  <2> QED
      BY <2>3, <2>5 DEF Explained
<1>12. LogNamesRows'
    BY <1>1, <1>2, <1>5 DEF LogNamesRows, PostAdded
<1>13. LogExplainsState'
    BY <1>10, <1>11, ExplainedParts DEF PostAdded
<1> QED
    BY <1>12, <1>13 DEF Accounted

\* Entry n is the one a moderation of thread t has just appended.
Entered(n, op, t, post) ==
    /\ n \in Nat
    /\ \A e \in DOMAIN log : e \in Nat /\ e < n /\ log'[e] = log[e]
    /\ DOMAIN log' = DOMAIN log \union {n}
    /\ log'[n].action = op
    /\ log'[n].thread = t
    /\ log'[n].post = post
    /\ log'[n].createdAt = clock

LEMMA RecordedEntry ==
    ASSUME TypeOK, NEW op \in ModerationOperations, NEW t \in DOMAIN threads,
           NEW post \in Nat \union {NULL}, Recorded(op, t, post)
    PROVE  \E n : Entered(n, op, t, post)
<1>1. t \in Nat
    BY Ids
<1> QED
    BY <1>1, RecordedRows DEF Entered

\* It is the last of the entries of its thread, and the others are as they were.
LEMMA EntriesAdded ==
    ASSUME NEW n, NEW op, NEW t, NEW post, Entered(n, op, t, post), NEW s, NEW A
    PROVE  /\ Entries(s, A) \subseteq DOMAIN log
           /\ n \notin Entries(s, A)
           /\ s # t \/ op \notin A => Entries(s, A)' = Entries(s, A)
           /\ s = t /\ op \in A => Entries(s, A)' = Entries(s, A) \union {n}
    BY DEF Entered, Entries

\* An entry that is no lock or unlock of thread s leaves its locks explained; and so on.
LEMMA OthersExplained ==
    ASSUME NEW n, NEW op, NEW t, NEW post, Entered(n, op, t, post), NEW s
    PROVE  /\ LocksExplained(s) /\ (s # t \/ op \notin {"lock_thread", "unlock_thread"})
              /\ threads'[s].lockedAt = threads[s].lockedAt => LocksExplained(s)'
           /\ TakingDownExplained(s)
              /\ (s # t \/ (op # "unpublish_thread" /\ threads[s].unpublishedAt = NULL))
              /\ threads'[s].unpublishedAt = threads[s].unpublishedAt => TakingDownExplained(s)'
           /\ \A i : HidingExplained(s, i)
                     /\ (s # t \/ op # "unpublish_post" \/ post # i)
                     /\ posts'[i].unpublishedAt = posts[i].unpublishedAt
                        => HidingExplained(s, i)'
<1>1. \A e \in DOMAIN log : log'[e] = log[e]
    BY DEF Entered
<1>2. ASSUME LocksExplained(s), s # t \/ op \notin {"lock_thread", "unlock_thread"},
             threads'[s].lockedAt = threads[s].lockedAt
      PROVE  LocksExplained(s)'
    BY <1>1, <1>2, EntriesAdded, LocksKept DEF LockEntries
<1>3. ASSUME TakingDownExplained(s),
             s # t \/ (op # "unpublish_thread" /\ threads[s].unpublishedAt = NULL),
             threads'[s].unpublishedAt = threads[s].unpublishedAt
      PROVE  TakingDownExplained(s)'
  <2>1. Entries(s, {"unpublish_thread"})' = Entries(s, {"unpublish_thread"})
      BY <1>3, EntriesAdded
  <2>2. \/ Entries(s, {"unpublish_thread"}) = {}
        \/ Entries(s, ModerationOperations)' = Entries(s, ModerationOperations)
      BY <1>3, EntriesAdded DEF TakingDownExplained
  <2>3. \A e \in Entries(s, {"unpublish_thread"}) : log'[e].createdAt = log[e].createdAt
      BY <1>1 DEF Entries
  <2> QED
      BY <1>3, <2>1, <2>2, <2>3, TakingDownKept
<1>4. ASSUME NEW i, HidingExplained(s, i),
             s # t \/ op # "unpublish_post" \/ post # i,
             posts'[i].unpublishedAt = posts[i].unpublishedAt
      PROVE  HidingExplained(s, i)'
  <2>1. Hiding(s, i)' = Hiding(s, i)
      BY <1>1, <1>4, EntriesAdded DEF Hiding, Entered
  <2>2. \A e \in Hiding(s, i) : log'[e].createdAt = log[e].createdAt
      BY <1>1 DEF Hiding, Entries
  <2> QED
      BY <1>4, <2>1, <2>2, HidingKept
<1> QED
    BY <1>2, <1>3, <1>4

\* A lock follows an unlock, or nothing; an unlock follows a lock.
LEMMA LocksAlternate ==
    ASSUME TypeOK, NEW t \in DOMAIN threads, LocksExplained(t), Locks(t) \/ Unlocks(t)
    PROVE  LocksExplained(t)'
<1>0. clock \in Nat /\ NULL \notin Nat
    BY ConstantsAssumption DEF TypeOK, Time
<1>a. PICK op \in {"lock_thread", "unlock_thread"} : \E n :
        /\ Entered(n, op, t, NULL)
        /\ op = "lock_thread" => threads[t].lockedAt = NULL /\ threads'[t].lockedAt = clock
        /\ op = "unlock_thread" => threads[t].lockedAt # NULL /\ threads'[t].lockedAt = NULL
  <2>1. CASE Locks(t)
    <3>1. PICK n : Entered(n, "lock_thread", t, NULL)
        BY <2>1, RecordedEntry DEF Locks, ModerationOperations
    <3>2. threads[t].lockedAt = NULL /\ threads'[t].lockedAt = clock
        BY <2>1, ModeratedRows DEF Locks
    <3> QED
        BY <3>1, <3>2
  <2>2. CASE Unlocks(t)
    <3>1. PICK n : Entered(n, "unlock_thread", t, NULL)
        BY <2>2, RecordedEntry DEF Unlocks, ModerationOperations
    <3>2. threads[t].lockedAt # NULL /\ threads'[t].lockedAt = NULL
        BY <2>2, ModeratedRows DEF Unlocks
    <3> QED
        BY <3>1, <3>2
  <2> QED
      BY <2>1, <2>2
<1> DEFINE L == LockEntries(t)
<1>1. PICK n :
        /\ Entered(n, op, t, NULL)
        /\ op = "lock_thread" => threads[t].lockedAt = NULL /\ threads'[t].lockedAt = clock
        /\ op = "unlock_thread" => threads[t].lockedAt # NULL /\ threads'[t].lockedAt = NULL
    BY <1>a
<1>2. LockEntries(t)' = L \union {n} /\ n \notin L
    BY <1>1, EntriesAdded DEF LockEntries
<1>3. n \in Nat /\ \A e \in L : e \in Nat /\ e < n /\ log'[e] = log[e]
    BY <1>1 DEF Entered, LockEntries, Entries
<1>4. log'[n].action = op /\ log'[n].createdAt = clock
    BY <1>1 DEF Entered
<1>5. \A e \in L : log[e] \in LogEntry /\ log[e].action \in {"lock_thread", "unlock_thread"}
    BY Ids DEF LockEntries, Entries
<1>6. \A e \in L : log[e].createdAt # NULL
    BY <1>0, <1>5 DEF LogEntry, Time
<1>7. ASSUME NEW e \in L, \A d \in L : d <= e
      PROVE  log[e].action # op
  <2>1. threads[t].lockedAt = (IF log[e].action = "lock_thread" THEN log[e].createdAt ELSE NULL)
      BY <1>7 DEF LocksExplained
  <2> QED
      BY <1>1, <1>6, <2>1
<1>8. op = "unlock_thread" => L # {}
    BY <1>1 DEF LocksExplained
<1>9. ASSUME NEW e \in L \union {n}, \A d \in L \union {n} : d >= e
      PROVE  log'[e].action = "lock_thread"
  <2>1. CASE e = n
    <3>1. ASSUME NEW d \in L PROVE FALSE
      <4>1. d >= n /\ d < n /\ d \in Nat
          BY <1>3, <1>9, <2>1
      <4> QED
          BY <1>3, <4>1
    <3> QED
        BY <1>1, <1>4, <1>8, <2>1, <3>1
  <2>2. CASE e \in L
      BY <1>3, <1>9, <2>2 DEF LocksExplained
  <2> QED
      BY <2>1, <2>2
<1>10. ASSUME NEW e \in L \union {n}, NEW d \in L \union {n},
              d < e, \A f \in L \union {n} : f <= d \/ f >= e
       PROVE  log'[d].action # log'[e].action
  <2>1. d \in L
      BY <1>3, <1>10
  <2>2. CASE e = n
    <3>1. \A f \in L : f <= d
        BY <1>3, <1>10, <2>2
    <3> QED
        BY <1>3, <1>4, <1>7, <2>1, <2>2, <3>1
  <2>3. CASE e \in L
    <3>1. Follows(d, e, L)
        BY <1>10 DEF Follows
    <3> QED
        BY <1>3, <2>1, <2>3, <3>1 DEF LocksExplained
  <2> QED
      BY <2>2, <2>3
<1>11. ASSUME NEW e \in L \union {n}, \A d \in L \union {n} : d <= e
       PROVE  threads'[t].lockedAt =
                (IF log'[e].action = "lock_thread" THEN log'[e].createdAt ELSE NULL)
  <2>1. e = n
      BY <1>3, <1>11
  <2> QED
      BY <1>1, <1>4, <2>1
<1>12. LockEntries(t)' # {}
    BY <1>2
<1> HIDE DEF L
<1>13. \A d, e : Follows(d, e, LockEntries(t))' <=>
                    d < e /\ \A f \in L \union {n} : f <= d \/ f >= e
    BY <1>2 DEF Follows
<1> QED
    BY <1>2, <1>9, <1>10, <1>11, <1>12, <1>13 DEF LocksExplained

\* A thread goes out of sight once, by the last entry it will ever have.
LEMMA TakingDownEnds ==
    ASSUME TypeOK, NEW t \in DOMAIN threads, TakingDownExplained(t), TakesDown(t),
           NEW n, Entered(n, "unpublish_thread", t, NULL)
    PROVE  TakingDownExplained(t)'
<1>0. clock # NULL
    BY ConstantsAssumption DEF TypeOK, Time
<1>1. threads[t].unpublishedAt = NULL /\ threads'[t].unpublishedAt = clock
    BY ModeratedRows DEF TakesDown
<1>2. Entries(t, {"unpublish_thread"}) = {}
    BY <1>1 DEF TakingDownExplained
<1>3. Entries(t, {"unpublish_thread"})' = {n}
    BY <1>2, EntriesAdded
<1>4. Entries(t, ModerationOperations)' = Entries(t, ModerationOperations) \union {n}
    BY EntriesAdded DEF ModerationOperations
<1>5. n \in Nat /\ log'[n].createdAt = clock /\ \A e \in DOMAIN log : e \in Nat /\ e < n
    BY DEF Entered
<1>6. \A d \in Entries(t, ModerationOperations)' : d <= n
    BY <1>4, <1>5 DEF Entries
<1> QED
    BY <1>0, <1>1, <1>3, <1>5, <1>6 DEF TakingDownExplained

\* Entry n is of a row that exists.
LEMMA NamesEntered ==
    ASSUME LogNamesRows, NEW n, NEW op, NEW t \in DOMAIN threads,
           NEW post \in DOMAIN posts \union {NULL}, Entered(n, op, t, post),
           DOMAIN threads' = DOMAIN threads, DOMAIN posts' = DOMAIN posts
    PROVE  LogNamesRows'
<1>1. ASSUME NEW e \in DOMAIN log'
      PROVE  /\ log'[e].thread \in DOMAIN threads
             /\ log'[e].post # NULL => log'[e].post \in DOMAIN posts
  <2>1. CASE e = n
      BY <2>1 DEF Entered
  <2>2. CASE e # n
    <3>1. e \in DOMAIN log /\ log'[e] = log[e]
        BY <2>2 DEF Entered
    <3> QED
        BY <3>1 DEF LogNamesRows
  <2> QED
      BY <2>1, <2>2
<1> QED
    BY <1>1 DEF LogNamesRows

LEMMA AccountedMarked ==
    ASSUME Accounted, Coherent', NEW t \in DOMAIN threads, Locks(t) \/ Unlocks(t) \/ TakesDown(t)
    PROVE  Accounted'
<1>0. TypeOK /\ LogNamesRows /\ NULL \notin Nat
    BY ConstantsAssumption DEF Accounted, Coherent
<1>a. PICK op \in {"lock_thread", "unlock_thread", "unpublish_thread"} : \E n :
        /\ Entered(n, op, t, NULL)
        /\ op = "unpublish_thread" => TakesDown(t)
        /\ op # "unpublish_thread" => Locks(t) \/ Unlocks(t)
  <2>1. CASE Locks(t)
    <3>1. \E n : Entered(n, "lock_thread", t, NULL)
        BY <1>0, <2>1, RecordedEntry DEF Locks, ModerationOperations
    <3> QED
        BY <2>1, <3>1
  <2>2. CASE Unlocks(t)
    <3>1. \E n : Entered(n, "unlock_thread", t, NULL)
        BY <1>0, <2>2, RecordedEntry DEF Unlocks, ModerationOperations
    <3> QED
        BY <2>2, <3>1
  <2>3. CASE TakesDown(t)
    <3>1. \E n : Entered(n, "unpublish_thread", t, NULL)
        BY <1>0, <2>3, RecordedEntry DEF TakesDown, ModerationOperations
    <3> QED
        BY <2>3, <3>1
  <2> QED
      BY <2>1, <2>2, <2>3
<1>1. PICK n :
        /\ Entered(n, op, t, NULL)
        /\ op = "unpublish_thread" => TakesDown(t)
        /\ op # "unpublish_thread" => Locks(t) \/ Unlocks(t)
    BY <1>a
<1>2. /\ DOMAIN threads' = DOMAIN threads
      /\ \A s \in DOMAIN threads : s # t => threads'[s] = threads[s]
      /\ Locks(t) \/ Unlocks(t) => threads'[t].unpublishedAt = threads[t].unpublishedAt
      /\ TakesDown(t) => threads'[t].lockedAt = threads[t].lockedAt
      /\ posts' = posts
    BY <1>0, ModeratedRows
<1>3. threads[t].unpublishedAt = NULL
    BY DEF Locks, Unlocks, TakesDown
<1>4. \A s : PostsOf(s)' = PostsOf(s)
    BY <1>2 DEF PostsOf
<1>5. ASSUME NEW s \in DOMAIN threads
      PROVE  Explained(s)'
  <2>0. LocksExplained(s) /\ TakingDownExplained(s) /\ \A i \in PostsOf(s) : HidingExplained(s, i)
      BY ExplainedParts DEF Accounted, Explained
  <2>1. LocksExplained(s)'
    <3>1. CASE s = t /\ op # "unpublish_thread"
        BY <1>0, <1>1, <2>0, <3>1, LocksAlternate
    <3>2. CASE s # t \/ op = "unpublish_thread"
        BY <1>1, <1>2, <2>0, <3>2, OthersExplained
    <3> QED
        BY <3>1, <3>2
  <2>2. TakingDownExplained(s)'
    <3>1. CASE s = t /\ op = "unpublish_thread"
        BY <1>0, <1>1, <2>0, <3>1, TakingDownEnds
    <3>2. CASE s # t \/ op # "unpublish_thread"
        BY <1>1, <1>2, <1>3, <2>0, <3>2, OthersExplained
    <3> QED
        BY <3>1, <3>2
  <2>3. \A i \in PostsOf(s)' : HidingExplained(s, i)'
    <3>1. op # "unpublish_post"
        BY <1>1
    <3> QED
        BY <1>1, <1>2, <1>4, <2>0, <3>1, OthersExplained
  <2> QED
      BY <2>1, <2>2, <2>3 DEF Explained
<1>6. LogNamesRows'
    BY <1>0, <1>1, <1>2, NamesEntered
<1>7. LogExplainsState'
    BY <1>2, <1>5, ExplainedParts
<1> QED
    BY <1>6, <1>7 DEF Accounted

LEMMA AccountedHidden ==
    ASSUME Accounted, Coherent', NEW t \in DOMAIN threads, NEW i \in DOMAIN posts,
           posts[i].thread = t, Hides(t, i)
    PROVE  Accounted'
<1>0. TypeOK /\ LogNamesRows /\ i \in Nat /\ NULL \notin Nat /\ clock # NULL
    BY Ids, ConstantsAssumption DEF Accounted, Coherent, TypeOK, Time
<1>1. PICK n : Entered(n, "unpublish_post", t, i)
    BY <1>0, RecordedEntry DEF Hides, ModerationOperations
<1>2. /\ DOMAIN posts' = DOMAIN posts
      /\ \A j \in DOMAIN posts :
            posts'[j].thread = posts[j].thread /\ (j # i => posts'[j] = posts[j])
      /\ posts'[i].unpublishedAt = clock
      /\ threads' = threads
    BY <1>0, HiddenRows
<1>3. threads[t].unpublishedAt = NULL /\ posts[i].unpublishedAt = NULL
    BY DEF Hides
<1>4. \A s : PostsOf(s)' = PostsOf(s) /\ PostsOf(s) \subseteq DOMAIN posts
    BY <1>2 DEF PostsOf
<1>5. ASSUME NEW s \in DOMAIN threads
      PROVE  Explained(s)'
  <2>0. LocksExplained(s) /\ TakingDownExplained(s) /\ \A j \in PostsOf(s) : HidingExplained(s, j)
      BY ExplainedParts DEF Accounted, Explained
  <2>1. LocksExplained(s)' /\ TakingDownExplained(s)'
      BY <1>1, <1>2, <1>3, <2>0, OthersExplained
  <2>2. ASSUME NEW j \in PostsOf(s), j # i
        PROVE  HidingExplained(s, j)'
      BY <1>1, <1>2, <1>4, <2>0, <2>2, OthersExplained
  <2>3. ASSUME i \in PostsOf(s)
        PROVE  HidingExplained(s, i)'
    <3>1. s = t
        BY <2>3 DEF PostsOf
    <3>2. Hiding(t, i) = {}
        BY <1>3, <2>0, <2>3, <3>1 DEF HidingExplained
    <3>3. Entries(t, {"unpublish_post"})' = Entries(t, {"unpublish_post"}) \union {n}
        BY <1>1, EntriesAdded
    <3>4. Hiding(t, i)' = {n}
        BY <1>1, <3>2, <3>3 DEF Hiding, Entered, Entries
    <3>5. log'[n].createdAt = clock
        BY <1>1 DEF Entered
    <3> QED
        BY <1>0, <1>2, <3>1, <3>4, <3>5 DEF HidingExplained
  <2> QED
      BY <1>4, <2>1, <2>2, <2>3 DEF Explained
<1>6. LogNamesRows'
    BY <1>0, <1>1, <1>2, NamesEntered
<1>7. LogExplainsState'
    BY <1>2, <1>5, ExplainedParts
<1> QED
    BY <1>6, <1>7 DEF Accounted

\* The history of moderation accounts for every mark on every thread and post, whatever
\* administrators race for: the entry and the mark are written in one transaction.
THEOREM HistoryExplains == Spec => []LogExplainsState
<1>1. Init => Accounted
  <2>1. threads = <<>> /\ log = <<>> => LogNamesRows /\ LogExplainsState
      BY EmptySeq DEF LogNamesRows, LogExplainsState
  <2> QED
      BY <2>1, CoherentInit DEF Init, Accounted
<1>2. Accounted /\ [Next]_vars => Accounted'
  <2> SUFFICES ASSUME Accounted, [Next]_vars PROVE Accounted'
      OBVIOUS
  <2>0. Coherent /\ TypeOK /\ Coherent'
      BY CoherentNext DEF Accounted, Coherent
  <2>1. CASE Rests
      BY <2>0, <2>1, AccountedSame DEF Rests
  <2>2. ASSUME NEW u \in Users, NEW t, PostAdded(u, t) PROVE Accounted'
      BY <2>0, <2>2, AccountedAdded
  <2>3. CASE \E t \in DOMAIN threads : Locks(t) \/ Unlocks(t) \/ TakesDown(t)
      BY <2>0, <2>3, AccountedMarked
  <2>4. CASE \E t \in DOMAIN threads, i \in DOMAIN posts : posts[i].thread = t /\ Hides(t, i)
      BY <2>0, <2>4, AccountedHidden
  <2>5. CASE \E u \in Users : Withdraw(u)
      BY <2>0, <2>5, AccountedSame, WithdrawnRows
  <2>6. CASE PurgeWithdrawnUsers
      BY <2>0, <2>6, AccountedSame, PurgedRows
  <2> QED
      BY <2>0, <2>1, <2>2, <2>3, <2>4, <2>5, <2>6, HistoryShapes, ReplyAdds, ThreadAdds
<1>3. Accounted => LogExplainsState
    BY DEF Accounted
<1> QED
    BY <1>1, <1>2, <1>3, PTL DEF Spec

-----------------------------------------------------------------------------
(* What a writer is told *)

\* A writer is told to wait only when waiting helps.
THEOREM WaitingHelps == Spec => RateLimitedMeansWait
<1> DEFINE Helps ==
        \A r \in Requests :
            requests[r] # NULL /\ requests'[r] = NULL /\ answer' = "rate_limited" =>
                /\ Found(requests[r].user)
                /\ requests[r].op = "create_post" =>
                    /\ threads[requests[r].thread].unpublishedAt = NULL
                    /\ LockReasons(requests[r].thread) = {}
<1>1. ASSUME TypeOK, [Next]_vars PROVE Helps
  <2>1. ASSUME NEW r \in Requests, requests[r] # NULL, requests'[r] = NULL,
               answer' = "rate_limited"
        PROVE  CreateThread(r) \/ CreatePost(r)
    <3>0. requests \in [Requests -> Request]
        BY <1>1 DEF TypeOK
    <3>1. PICK s \in Requests : Answered(s, "rate_limited")
            /\ (CreateThread(s) \/ CreatePost(s))
      <4>1. CASE UseCaseStep
        <5>1. PICK s \in Requests :
                \/ CreateThread(s) \/ CreatePost(s) \/ LockThread(s) \/ UnlockThread(s)
                \/ UnpublishThread(s) \/ UnpublishPost(s) \/ Fail(s)
            BY <4>1 DEF UseCaseStep
        <5>2. ~LockThread(s) /\ ~UnlockThread(s) /\ ~UnpublishThread(s)
            BY <2>1 DEF LockThread, UnlockThread, UnpublishThread, Declined, Answered,
                        ModeratedThreadAnswer
        <5>3. ~UnpublishPost(s) /\ ~Fail(s)
            BY <2>1 DEF UnpublishPost, Fail, Declined, Answered, ModeratedThreadAnswer
        <5> QED
            BY <2>1, <5>1, <5>2, <5>3 DEF CreateThread, CreatePost, Answered
      <4>2. CASE ArriveStep \/ AccountStep \/ Tick
          BY <2>1, <4>2 DEF ArriveStep, Arrive, AccountStep, Withdraw, PurgeWithdrawnUsers, Tick
      <4>3. CASE UNCHANGED vars
          BY <2>1, <4>3 DEF vars
      <4> QED
          BY <1>1, <4>1, <4>2, <4>3 DEF Next
    <3>2. requests' = [requests EXCEPT ![s] = NULL]
        BY <3>1 DEF Answered
    <3>3. r = s
        BY <2>1, <3>0, <3>2
    <3> QED
        BY <3>1, <3>3
  <2>2. ASSUME NEW r \in Requests, CreateThread(r), answer' = "rate_limited"
        PROVE  Found(requests[r].user) /\ requests[r].op # "create_post"
    <3>1. ThreadAnswer(requests[r]) = "rate_limited" /\ requests[r].op = "create_thread"
        BY <2>2 DEF CreateThread, Answered, Handles
    <3> QED
        BY <3>1 DEF ThreadAnswer
  <2>3. ASSUME NEW r \in Requests, CreatePost(r), answer' = "rate_limited"
        PROVE  /\ Found(requests[r].user)
               /\ threads[requests[r].thread].unpublishedAt = NULL
               /\ LockReasons(requests[r].thread) = {}
    <3>1. ReplyAnswer(requests[r]) = "rate_limited"
        BY <2>3 DEF CreatePost, Answered
    <3> QED
        BY <3>1 DEF ReplyAnswer
  <2> QED
      BY <2>1, <2>2, <2>3
<1> QED
    BY <1>1, TypeCorrect, PTL DEF Spec, RateLimitedMeansWait

-----------------------------------------------------------------------------
(* Threads implements Conversation.  Every action that writes a row of threads or posts is *)
(* one action of the abstract board; Coherent is what makes "the row that has this number" *)
(* one row, before and after.                                                              *)

-----------------------------------------------------------------------------
(* Rows and numbers *)

\* Under every number a thread has handed out there is one row.
LEMMA RowAt ==
    ASSUME Coherent, NEW t \in DOMAIN threads, NEW n \in 1..threads[t].postsCount
    PROVE  \E i \in PostsOf(t) : posts[i].number = n /\ PostAt(t, n) = Row(i)
<1>1. PICK i \in PostsOf(t) : posts[i].number = n
    BY DEF Coherent, PostNumbersAreAddresses
<1>2. \A j \in PostsOf(t) : posts[j].number = n => j = i
    BY <1>1 DEF Coherent, PostNumbersAreAddresses
<1>3. (CHOOSE j \in PostsOf(t) : posts[j].number = n) = i
    BY <1>1, <1>2
<1> QED
    BY <1>1, <1>3 DEF PostAt

\* The row that has a number after the step is the one shown under it.
LEMMA RowAtAfter ==
    ASSUME Coherent', NEW t \in DOMAIN threads', NEW i \in PostsOf(t)', NEW n,
           posts'[i].number = n
    PROVE  PostAt(t, n)' = Row(i)'
<1>1. \A j \in PostsOf(t)' : posts'[j].number = n => j = i
    BY DEF Coherent, PostNumbersAreAddresses
<1>2. (CHOOSE j \in PostsOf(t)' : posts'[j].number = n) = i
    BY <1>1
<1> QED
    BY <1>2 DEF PostAt

\* Rows that keep their threads and their numbers are shown where they were.
LEMMA RowsInPlace ==
    ASSUME Coherent, Coherent', NEW t \in DOMAIN threads, t \in DOMAIN threads',
           \A i \in PostsOf(t) : i \in PostsOf(t)' /\ posts'[i].number = posts[i].number,
           NEW n \in 1..threads[t].postsCount
    PROVE  \E i \in PostsOf(t) :
            /\ posts[i].number = n
            /\ PostAt(t, n) = Row(i)
            /\ PostAt(t, n)' = Row(i)'
    BY RowAt, RowAtAfter

\* A thread none of whose columns and rows change is shown as before.
LEMMA SameConversation ==
    ASSUME Coherent, Coherent', NEW t \in DOMAIN threads, t \in DOMAIN threads',
           \A i \in PostsOf(t) :
                i \in PostsOf(t)' /\ posts'[i].number = posts[i].number /\ Row(i)' = Row(i),
           threads'[t].postsCount = threads[t].postsCount,
           Standing(t)' = Standing(t)
    PROVE  ConversationAt(t)' = ConversationAt(t)
<1>1. \A n \in 1..threads[t].postsCount : PostAt(t, n)' = PostAt(t, n)
    BY RowsInPlace
<1> QED
    BY <1>1 DEF ConversationAt

-----------------------------------------------------------------------------
(* Lists and records *)

\* A list of rows is a sequence.
LEMMA ListOfRows ==
    ASSUME NEW S, NEW count \in Nat, NEW list, list = [n \in 1..count |-> list[n]],
           \A n \in 1..count : list[n] \in S
    PROVE  list \in Seq(S) /\ Len(list) = count /\ DOMAIN list = 1..count
<1>1. [n \in 1..count |-> list[n]] \in Seq(S)
    BY IsASeq
<1>2. list \in Seq(S) /\ DOMAIN list = 1..count
    BY <1>1
<1> QED
    BY <1>2, LenProperties

\* A list with one row more, at its end.
LEMMA GrownList ==
    ASSUME NEW S, NEW list \in Seq(S), NEW new \in Seq(S), Len(new) = Len(list) + 1,
           \A n \in 1..Len(list) : new[n] = list[n]
    PROVE  new = Append(list, new[Len(list) + 1])
<1> DEFINE e == new[Len(list) + 1]
<1>1. Len(list) \in Nat /\ e \in S
    BY LenProperties, ElementOfSeq
<1> HIDE DEF e
<1>2. /\ Append(list, e) \in Seq(S)
      /\ Len(Append(list, e)) = Len(list) + 1
      /\ \A n \in 1..Len(list) : Append(list, e)[n] = list[n]
      /\ Append(list, e)[Len(list) + 1] = e
    BY <1>1, AppendProperties
<1>3. \A n \in 1..Len(new) : new[n] = Append(list, e)[n]
    BY <1>1, <1>2 DEF e
<1>4. new = Append(list, e)
    BY <1>2, <1>3, SeqEqual
<1> QED
    BY <1>4 DEF e

\* A step that changes one thread.
LEMMA OneConversation ==
    ASSUME NEW t \in DOMAIN threads, DOMAIN threads' = DOMAIN threads,
           \A s \in DOMAIN threads \ {t} : ConversationAt(s)' = ConversationAt(s)
    PROVE  /\ Conversations' = [Conversations EXCEPT ![t] = ConversationAt(t)']
           /\ Conversations[t] = ConversationAt(t)
           /\ DOMAIN Conversations = DOMAIN threads
    BY DEF Conversations


\* Thread records, with one field replaced.
LEMMA UpdatedConversation ==
    ASSUME NEW list, NEW standing, NEW new,
           NEW c, c = [posts |-> list, standing |-> standing]
    PROVE  /\ [c EXCEPT !.posts = new] = [posts |-> new, standing |-> standing]
           /\ [c EXCEPT !.standing = new] = [posts |-> list, standing |-> new]
<1>1. [c EXCEPT !.posts = new] = [posts |-> new, standing |-> standing]
    OBVIOUS
<1>2. [c EXCEPT !.standing = new] = [posts |-> list, standing |-> new]
    OBVIOUS
<1> QED
    BY <1>1, <1>2

-----------------------------------------------------------------------------
(* Moderation: a column of one thread, or of one post *)

\* A column of one thread is written and no post.
LEMMA MarkedConversation ==
    ASSUME Coherent, Coherent', NEW t \in DOMAIN threads, NEW row \in Thread,
           threads' = [threads EXCEPT ![t] = row], row.postsCount = threads[t].postsCount,
           UNCHANGED posts, NEW standing, standing = Standing(t)'
    PROVE  /\ Conversations' = [Conversations EXCEPT ![t].standing = standing]
           /\ Conversations[t].standing = Standing(t)
           /\ t \in DOMAIN Conversations
<1>1. /\ DOMAIN threads' = DOMAIN threads
      /\ threads'[t] = row
      /\ \A s \in DOMAIN threads \ {t} : threads'[s] = threads[s]
    BY UpdatedRow DEF Coherent, TypeOK
<1>2. \A s, i : /\ i \in PostsOf(s) <=> i \in PostsOf(s)'
                /\ posts'[i].number = posts[i].number
                /\ Row(i)' = Row(i)
    BY DEF PostsOf, Row
<1>3. \A s \in DOMAIN threads \ {t} : ConversationAt(s)' = ConversationAt(s)
    BY <1>1, <1>2, SameConversation DEF Standing
<1>4. \A n \in 1..threads[t].postsCount : PostAt(t, n)' = PostAt(t, n)
    BY <1>1, <1>2, RowsInPlace
<1>5. PICK list :
        /\ ConversationAt(t) = [posts |-> list, standing |-> Standing(t)]
        /\ ConversationAt(t)' = [posts |-> list, standing |-> standing]
    BY <1>1, <1>4 DEF ConversationAt
<1>6. ConversationAt(t)' = [ConversationAt(t) EXCEPT !.standing = standing]
    BY <1>5, UpdatedConversation
<1>7. /\ Conversations' = [Conversations EXCEPT ![t] = ConversationAt(t)']
      /\ Conversations[t] = ConversationAt(t)
      /\ DOMAIN Conversations = DOMAIN threads
    BY <1>1, <1>3, OneConversation
<1> QED
    BY <1>5, <1>6, <1>7

LEMMA ImplementsLock ==
    ASSUME Coherent, Coherent', NEW t \in DOMAIN threads, threads[t].unpublishedAt = NULL,
           threads[t].lockedAt = NULL, NEW mark \in Time,
           threads' = [threads EXCEPT ![t].lockedAt = mark], UNCHANGED posts
    PROVE  Board!Close(t) /\ t \in DOMAIN Conversations
<1> DEFINE row == [threads[t] EXCEPT !.lockedAt = mark]
<1>1. threads[t] \in Thread
    BY ElementOfSeq, LenProperties DEF Coherent, TypeOK
<1>2. /\ row \in Thread /\ row.postsCount = threads[t].postsCount
      /\ row.lockedAt # NULL /\ row.unpublishedAt = NULL
    BY <1>1, ConstantsAssumption DEF Thread, MaybeTime, Time
<1>3. threads' = [threads EXCEPT ![t] = row] /\ threads'[t] = row
    OBVIOUS
<1>4. Standing(t) = "open" /\ Standing(t)' = "closed"
    BY <1>2, <1>3 DEF Standing
<1> HIDE DEF row
<1> QED
    BY <1>2, <1>3, <1>4, MarkedConversation DEF Board!Close

LEMMA ImplementsUnlock ==
    ASSUME Coherent, Coherent', NEW t \in DOMAIN threads, threads[t].unpublishedAt = NULL,
           threads[t].lockedAt # NULL,
           threads' = [threads EXCEPT ![t].lockedAt = NULL], UNCHANGED posts
    PROVE  Board!Reopen(t) /\ t \in DOMAIN Conversations
<1> DEFINE row == [threads[t] EXCEPT !.lockedAt = NULL]
<1>1. threads[t] \in Thread
    BY ElementOfSeq, LenProperties DEF Coherent, TypeOK
<1>2. /\ row \in Thread /\ row.postsCount = threads[t].postsCount
      /\ row.lockedAt = NULL /\ row.unpublishedAt = NULL
    BY <1>1 DEF Thread, MaybeTime
<1>3. threads' = [threads EXCEPT ![t] = row] /\ threads'[t] = row
    OBVIOUS
<1>4. Standing(t) = "closed" /\ Standing(t)' = "open"
    BY <1>2, <1>3 DEF Standing
<1> HIDE DEF row
<1> QED
    BY <1>2, <1>3, <1>4, MarkedConversation DEF Board!Reopen

LEMMA ImplementsUnpublish ==
    ASSUME Coherent, Coherent', NEW t \in DOMAIN threads, threads[t].unpublishedAt = NULL,
           NEW mark \in Time,
           threads' = [threads EXCEPT ![t].unpublishedAt = mark], UNCHANGED posts
    PROVE  Board!TakeDown(t) /\ t \in DOMAIN Conversations
<1> DEFINE row == [threads[t] EXCEPT !.unpublishedAt = mark]
<1>1. threads[t] \in Thread
    BY ElementOfSeq, LenProperties DEF Coherent, TypeOK
<1>2. /\ row \in Thread /\ row.postsCount = threads[t].postsCount
      /\ row.unpublishedAt # NULL
    BY <1>1, ConstantsAssumption DEF Thread, MaybeTime, Time
<1>3. threads' = [threads EXCEPT ![t] = row] /\ threads'[t] = row
    OBVIOUS
<1>4. Standing(t) # "gone" /\ Standing(t)' = "gone"
    BY <1>2, <1>3 DEF Standing
<1> HIDE DEF row
<1> QED
    BY <1>2, <1>3, <1>4, MarkedConversation DEF Board!TakeDown

\* One row of a thread is hidden.
LEMMA ImplementsHide ==
    ASSUME Coherent, Coherent', NEW i \in DOMAIN posts, posts[i].unpublishedAt = NULL,
           threads[posts[i].thread].unpublishedAt = NULL,
           posts' = [posts EXCEPT ![i].unpublishedAt = clock], UNCHANGED threads
    PROVE  \E t \in DOMAIN Conversations :
            \E n \in DOMAIN Conversations[t].posts : Board!Hide(t, n)
<1>1. PICK t, n, row :
        /\ t = posts[i].thread /\ n = posts[i].number
        /\ row = [posts[i] EXCEPT !.unpublishedAt = clock]
    OBVIOUS
<1>2. posts[i] \in Post /\ clock \in Time
    BY ElementOfSeq, LenProperties DEF Coherent, TypeOK
<1>3. /\ row \in Post /\ row.thread = t /\ row.number = n /\ row.author = posts[i].author
      /\ row.unpublishedAt # NULL
    BY <1>1, <1>2, ConstantsAssumption DEF Post, MaybeTime, Time
<1>4. posts' = [posts EXCEPT ![i] = row]
    BY <1>1
<1>5. /\ DOMAIN posts' = DOMAIN posts
      /\ posts'[i] = row
      /\ \A j \in DOMAIN posts \ {i} : posts'[j] = posts[j]
    BY <1>3, <1>4, UpdatedRow DEF Coherent, TypeOK
<1>6. /\ \A s : PostsOf(s)' = PostsOf(s)
      /\ \A j \in DOMAIN posts : posts'[j].number = posts[j].number
      /\ \A j \in DOMAIN posts \ {i} : Row(j)' = Row(j)
    BY <1>1, <1>3, <1>5 DEF PostsOf, Row
<1>7. t \in DOMAIN threads /\ i \in PostsOf(t) /\ n \in 1..threads[t].postsCount
    BY <1>1 DEF Coherent, PostsInThreads, PostNumbersAreAddresses, PostsOf
<1>8. \A s \in DOMAIN threads \ {t} : ConversationAt(s)' = ConversationAt(s)
  <2>1. ASSUME NEW s \in DOMAIN threads \ {t}
        PROVE  \A j \in PostsOf(s) : j \in DOMAIN posts \ {i}
      BY <1>7 DEF PostsOf
  <2> QED
      BY <1>6, <2>1, SameConversation DEF Standing
<1>9. \A m \in (1..threads[t].postsCount) \ {n} : PostAt(t, m)' = PostAt(t, m)
  <2>1. ASSUME NEW m \in (1..threads[t].postsCount) \ {n}
        PROVE  PostAt(t, m)' = PostAt(t, m)
    <3>1. PICK j \in PostsOf(t) :
            /\ posts[j].number = m
            /\ PostAt(t, m) = Row(j)
            /\ PostAt(t, m)' = Row(j)'
        BY <1>6, <1>7, RowsInPlace DEF PostsOf
    <3>2. j \in DOMAIN posts \ {i}
        BY <1>1, <3>1 DEF PostsOf
    <3> QED
        BY <1>6, <3>1, <3>2
  <2> QED
      BY <2>1
<1>10. PostAt(t, n) = Row(i) /\ PostAt(t, n)' = Row(i)'
  <2>1. PICK j \in PostsOf(t) :
            /\ posts[j].number = n
            /\ PostAt(t, n) = Row(j)
            /\ PostAt(t, n)' = Row(j)'
      BY <1>6, <1>7, RowsInPlace DEF PostsOf
  <2>2. j = i
      BY <1>1, <1>7, <2>1 DEF Coherent, PostNumbersAreAddresses
  <2> QED
      BY <2>1, <2>2
<1>11. /\ PostAt(t, n).text = "shown"
       /\ PostAt(t, n)' = [PostAt(t, n) EXCEPT !.text = "hidden"]
  <2>1. /\ Row(i) = [author |-> posts[i].author, text |-> "shown"]
        /\ Row(i)' = [author |-> posts[i].author, text |-> "hidden"]
      BY <1>3, <1>5 DEF Row
  <2> QED
      BY <1>10, <2>1
<1>12. PICK list, new, standing :
        /\ list = [m \in 1..threads[t].postsCount |-> PostAt(t, m)]
        /\ new = [m \in 1..threads[t].postsCount |-> PostAt(t, m)']
        /\ standing = Standing(t)
    OBVIOUS
<1>13. /\ new = [list EXCEPT ![n] = [list[n] EXCEPT !.text = "hidden"]]
       /\ list[n].text = "shown"
       /\ DOMAIN list = 1..threads[t].postsCount
    BY <1>7, <1>9, <1>11, <1>12
<1>14. /\ ConversationAt(t) = [posts |-> list, standing |-> standing]
       /\ ConversationAt(t)' = [posts |-> new, standing |-> standing]
    BY <1>12 DEF ConversationAt, Standing
<1>15. ConversationAt(t)' = [ConversationAt(t) EXCEPT !.posts = new]
    BY <1>14, UpdatedConversation
<1>16. /\ Conversations' = [Conversations EXCEPT ![t] = ConversationAt(t)']
       /\ Conversations[t] = ConversationAt(t)
       /\ DOMAIN Conversations = DOMAIN threads
    BY <1>7, <1>8, OneConversation
<1>17. Conversations[t].posts = list /\ Conversations[t].standing # "gone"
    BY <1>1, <1>12, <1>14, <1>16 DEF Standing
<1>18. Conversations' = [Conversations EXCEPT ![t].posts[n].text = "hidden"]
    BY <1>13, <1>15, <1>16, <1>17
<1>19. Board!Hide(t, n)
    BY <1>13, <1>17, <1>18 DEF Board!Hide
<1> QED
    BY <1>7, <1>13, <1>16, <1>17, <1>19

-----------------------------------------------------------------------------
(* What changes no row, and the purge *)

\* No thread and no post changes.
LEMMA ImplementsNothing ==
    ASSUME UNCHANGED <<threads, posts>>
    PROVE  UNCHANGED Conversations
    BY DEF Conversations, ConversationAt, PostAt, Row, Standing, PostsOf

\* The authors who were purged are forgotten, and nothing else.
LEMMA ImplementsForget ==
    ASSUME Coherent, Coherent', PurgeWithdrawnUsers
    PROVE  \E gone \in SUBSET Users : Board!Forget(gone)
<1>1. PICK gone \in SUBSET Users :
        /\ threads' = [t \in DOMAIN threads |->
                        [threads[t] EXCEPT !.author = Unlinked(@, gone)]]
        /\ posts' = WithoutAuthors(gone)
    BY DEF PurgeWithdrawnUsers
<1>2. \A i \in DOMAIN posts : posts[i] \in Post
    BY ElementOfSeq, LenProperties DEF Coherent, TypeOK
<1>3. \A t \in DOMAIN threads : threads[t] \in Thread
    BY ElementOfSeq, LenProperties DEF Coherent, TypeOK
<1>4. /\ DOMAIN posts' = DOMAIN posts
      /\ \A i \in DOMAIN posts :
          /\ posts'[i].thread = posts[i].thread
          /\ posts'[i].number = posts[i].number
          /\ posts'[i].author = Unlinked(posts[i].author, gone)
          /\ posts'[i].unpublishedAt = posts[i].unpublishedAt
    BY <1>1, <1>2 DEF WithoutAuthors, Post
<1>5. /\ DOMAIN threads' = DOMAIN threads
      /\ \A t \in DOMAIN threads :
          /\ threads'[t].postsCount = threads[t].postsCount
          /\ threads'[t].lockedAt = threads[t].lockedAt
          /\ threads'[t].unpublishedAt = threads[t].unpublishedAt
    BY <1>1, <1>3 DEF Thread
<1>6. \A i \in DOMAIN posts : Row(i)' = Board!Forgotten(Row(i), gone)
    BY <1>4 DEF Row, Unlinked, Board!Forgotten
<1>7. ASSUME NEW t \in DOMAIN threads
      PROVE  /\ \A n \in 1..threads[t].postsCount :
                    PostAt(t, n)' = Board!Forgotten(PostAt(t, n), gone)
             /\ Standing(t)' = Standing(t)
  <2>1. \A i \in PostsOf(t) : i \in PostsOf(t)' /\ posts'[i].number = posts[i].number
      BY <1>4 DEF PostsOf
  <2>2. ASSUME NEW n \in 1..threads[t].postsCount
        PROVE  PostAt(t, n)' = Board!Forgotten(PostAt(t, n), gone)
    <3>1. PICK i \in PostsOf(t) :
            /\ posts[i].number = n
            /\ PostAt(t, n) = Row(i)
            /\ PostAt(t, n)' = Row(i)'
        BY <1>5, <2>1, RowsInPlace
    <3>2. i \in DOMAIN posts
        BY DEF PostsOf
    <3> QED
        BY <1>6, <3>1, <3>2
  <2> QED
      BY <1>5, <2>2 DEF Standing
<1>8. ASSUME NEW t \in DOMAIN threads
      PROVE  ConversationAt(t)' =
                [posts |-> [n \in DOMAIN ConversationAt(t).posts |->
                                Board!Forgotten(ConversationAt(t).posts[n], gone)],
                 standing |-> ConversationAt(t).standing]
  <2>1. /\ ConversationAt(t).posts = [n \in 1..threads[t].postsCount |-> PostAt(t, n)]
        /\ ConversationAt(t).standing = Standing(t)
        /\ ConversationAt(t)' = [posts |-> [n \in 1..threads[t].postsCount |-> PostAt(t, n)'],
                                 standing |-> Standing(t)]
      BY <1>5, <1>7 DEF ConversationAt
  <2>2. [n \in 1..threads[t].postsCount |-> PostAt(t, n)'] =
            [n \in DOMAIN ConversationAt(t).posts |->
                Board!Forgotten(ConversationAt(t).posts[n], gone)]
      BY <1>7, <2>1
  <2> QED
      BY <2>1, <2>2
<1>9. Board!Forget(gone)
    BY <1>5, <1>8 DEF Board!Forget, Conversations
<1> QED
    BY <1>9

-----------------------------------------------------------------------------
(* Posting *)

\* What a row can look like.
Shown == [author : MaybeUser, text : {"shown", "hidden"}]

LEMMA RowType ==
    ASSUME TypeOK, NEW i \in DOMAIN posts
    PROVE  Row(i) \in Shown
<1>1. posts[i] \in Post
    BY ElementOfSeq, LenProperties DEF TypeOK
<1> QED
    BY <1>1 DEF Row, Shown, Post

\* A thread grows by one post at its end.
LEMMA ImplementsReply ==
    ASSUME Coherent, Coherent', NEW u \in Users, NEW cites \in Citations,
           NEW t \in DOMAIN threads, Replied(t, u, cites)
    PROVE  Board!Reply(t, u) /\ t \in DOMAIN Conversations
<1>1. PICK id, count : id = Len(posts) + 1 /\ count = threads[t].postsCount
    OBVIOUS
<1>2. /\ DOMAIN posts' = DOMAIN posts \union {id}
      /\ id \notin DOMAIN posts
      /\ posts'[id] = NewPost(t, u, count + 1)
      /\ \A i \in DOMAIN posts : posts'[i] = posts[i]
      /\ DOMAIN threads' = DOMAIN threads
      /\ \A s \in DOMAIN threads \ {t} : threads'[s] = threads[s]
      /\ count \in Nat
      /\ count < ThreadPostLimit
      /\ threads'[t].postsCount = count + 1
      /\ threads'[t].lockedAt = threads[t].lockedAt
      /\ threads'[t].unpublishedAt = threads[t].unpublishedAt
    BY <1>1, RepliedRows DEF Coherent
<1>3. Standing(t) = "open" /\ Standing(t)' = "open"
  <2>1. "locked_by_moderator" \notin LockReasons(t) /\ threads[t].unpublishedAt = NULL
      BY DEF Replied
  <2>2. threads[t].lockedAt = NULL
      BY <2>1 DEF LockReasons
  <2> QED
      BY <1>2, <2>1, <2>2 DEF Standing
<1>4. \A s \in DOMAIN threads : \A i \in PostsOf(s) :
        i \in PostsOf(s)' /\ posts'[i].number = posts[i].number /\ Row(i)' = Row(i)
    BY <1>2 DEF PostsOf, Row
<1>5. \A s \in DOMAIN threads \ {t} : ConversationAt(s)' = ConversationAt(s)
    BY <1>2, <1>4, SameConversation DEF Standing
<1>6. \A n \in 1..count : PostAt(t, n)' = PostAt(t, n) /\ PostAt(t, n) \in Shown
  <2>1. ASSUME NEW n \in 1..count
        PROVE  PostAt(t, n)' = PostAt(t, n) /\ PostAt(t, n) \in Shown
    <3>1. PICK i \in PostsOf(t) :
            /\ posts[i].number = n
            /\ PostAt(t, n) = Row(i)
            /\ PostAt(t, n)' = Row(i)'
        BY <1>1, <1>2, <1>4, RowsInPlace
    <3>2. Row(i) \in Shown
        BY RowType DEF PostsOf, Coherent
    <3> QED
        BY <1>4, <3>1, <3>2
  <2> QED
      BY <2>1
<1>7. PostAt(t, count + 1)' = Board!Said(u) /\ Board!Said(u) \in Shown
  <2>1. id \in PostsOf(t)' /\ posts'[id].number = count + 1
      BY <1>2 DEF PostsOf, NewPost
  <2>2. PICK n : n = count + 1
      OBVIOUS
  <2>3. t \in DOMAIN threads'
      BY <1>2
  <2>4. PostAt(t, n)' = Row(id)'
      BY <2>1, <2>2, <2>3, RowAtAfter
  <2>5. Row(id)' = Board!Said(u)
      BY <1>2 DEF Row, NewPost, Board!Said
  <2> QED
      BY <2>2, <2>4, <2>5 DEF Board!Said, Shown, MaybeUser
<1>8. PICK list, new :
        /\ list = [n \in 1..count |-> PostAt(t, n)]
        /\ new = [n \in 1..(count + 1) |-> PostAt(t, n)']
    OBVIOUS
<1>9. \A n \in 1..(count + 1) : new[n] \in Shown
    BY <1>2, <1>6, <1>7, <1>8
<1>10. /\ list \in Seq(Shown) /\ Len(list) = count
       /\ new \in Seq(Shown) /\ Len(new) = count + 1
  <2>1. /\ list = [n \in 1..count |-> list[n]]
        /\ \A n \in 1..count : list[n] \in Shown
      BY <1>6, <1>8
  <2>2. /\ new = [n \in 1..(count + 1) |-> new[n]]
        /\ count + 1 \in Nat
      BY <1>2, <1>8
  <2>3. list \in Seq(Shown) /\ Len(list) = count
      BY <1>2, <2>1, ListOfRows
  <2>4. new \in Seq(Shown) /\ Len(new) = count + 1
      BY <1>9, <2>2, ListOfRows
  <2> QED
      BY <2>3, <2>4
<1>11. new = Append(list, Board!Said(u))
    BY <1>2, <1>6, <1>7, <1>8, <1>10, GrownList
<1>12. /\ ConversationAt(t) = [posts |-> list, standing |-> "open"]
       /\ ConversationAt(t)' = [posts |-> new, standing |-> "open"]
    BY <1>1, <1>2, <1>3, <1>8 DEF ConversationAt
<1>13. ConversationAt(t)' = [ConversationAt(t) EXCEPT !.posts = new]
    BY <1>12, UpdatedConversation
<1>14. /\ Conversations' = [Conversations EXCEPT ![t] = ConversationAt(t)']
       /\ Conversations[t] = ConversationAt(t)
       /\ DOMAIN Conversations = DOMAIN threads
    BY <1>2, <1>5, OneConversation
<1>15. Conversations[t].posts = list /\ Conversations[t].standing = "open"
    BY <1>12, <1>14
<1>16. Conversations' = [Conversations EXCEPT ![t].posts = Append(@, Board!Said(u))]
    BY <1>11, <1>13, <1>14, <1>15
<1> QED
    BY <1>2, <1>10, <1>14, <1>15, <1>16 DEF Board!Reply

\* A thread of one post is opened after the others.
LEMMA ImplementsOpen ==
    ASSUME Coherent, Coherent', NEW u \in Users, Opened(u)
    PROVE  Board!Open(u)
<1>1. PICK id, t : id = Len(posts) + 1 /\ t = Len(threads) + 1
    OBVIOUS
<1>2. /\ DOMAIN posts' = DOMAIN posts \union {id}
      /\ id \notin DOMAIN posts
      /\ posts'[id] = NewPost(t, u, 1)
      /\ \A i \in DOMAIN posts : posts'[i] = posts[i]
      /\ DOMAIN threads' = DOMAIN threads \union {t}
      /\ t \notin DOMAIN threads
      /\ \A s \in DOMAIN threads : threads'[s] = threads[s]
      /\ threads'[t] = NewThread(u, id, clock)
    BY <1>1, OpenedRows DEF Coherent
<1>3. \A s \in DOMAIN threads : \A i \in PostsOf(s) :
        i \in PostsOf(s)' /\ posts'[i].number = posts[i].number /\ Row(i)' = Row(i)
    BY <1>2 DEF PostsOf, Row
<1>4. \A s \in DOMAIN threads : ConversationAt(s)' = ConversationAt(s)
    BY <1>2, <1>3, SameConversation DEF Standing
<1>5. PostAt(t, 1)' = Board!Said(u)
  <2>1. id \in PostsOf(t)' /\ posts'[id].number = 1 /\ t \in DOMAIN threads'
      BY <1>2 DEF PostsOf, NewPost
  <2>2. PostAt(t, 1)' = Row(id)'
      BY <2>1, RowAtAfter
  <2>3. Row(id)' = Board!Said(u)
      BY <1>2 DEF Row, NewPost, Board!Said
  <2> QED
      BY <2>2, <2>3
<1>6. PICK new : new = [posts |-> <<Board!Said(u)>>, standing |-> "open"]
    OBVIOUS
<1>7. ConversationAt(t)' = new
  <2>1. /\ threads'[t].postsCount = 1
        /\ threads'[t].lockedAt = NULL
        /\ threads'[t].unpublishedAt = NULL
      BY <1>2 DEF NewThread
  <2>2. Standing(t)' = "open"
      BY <2>1 DEF Standing
  <2>3. [n \in 1..1 |-> PostAt(t, n)'] = <<Board!Said(u)>>
      BY <1>5
  <2> QED
      BY <1>6, <2>1, <2>2, <2>3 DEF ConversationAt
<1>8. /\ Len(threads) \in Nat /\ DOMAIN threads = 1..Len(threads)
      /\ DOMAIN threads' = 1..t /\ t \in Nat
    BY <1>1, <1>2, LenProperties DEF Coherent, TypeOK
<1>9. PICK S, before, after :
        /\ before = Conversations /\ after = Conversations'
        /\ S = {ConversationAt(s) : s \in DOMAIN threads} \union {new}
    OBVIOUS
<1>10. /\ before = [s \in 1..Len(threads) |-> before[s]]
       /\ after = [s \in 1..t |-> after[s]]
       /\ \A s \in 1..Len(threads) : before[s] = ConversationAt(s) /\ after[s] = before[s]
       /\ after[t] = new
  <2>1. \A s \in 1..Len(threads) : before[s] = ConversationAt(s) /\ s \in 1..t
      BY <1>1, <1>8, <1>9 DEF Conversations
  <2>2. \A s \in 1..t : after[s] = ConversationAt(s)'
      BY <1>8, <1>9 DEF Conversations
  <2>3. t \in 1..t
      BY <1>1, <1>8
  <2> QED
      BY <1>4, <1>7, <1>8, <1>9, <2>1, <2>2, <2>3 DEF Conversations
<1>11. /\ \A s \in 1..Len(threads) : before[s] \in S
       /\ \A s \in 1..t : after[s] \in S
  <2>1. ASSUME NEW s \in 1..Len(threads)
        PROVE  before[s] \in S /\ after[s] \in S
      BY <1>8, <1>9, <1>10
  <2>2. \A s \in 1..t : s \in 1..Len(threads) \/ s = t
      BY <1>1, <1>8
  <2>3. after[t] \in S
      BY <1>9, <1>10
  <2> QED
      BY <2>1, <2>2, <2>3
<1>12. before \in Seq(S) /\ Len(before) = Len(threads)
    BY <1>8, <1>10, <1>11, ListOfRows
<1>13. after \in Seq(S) /\ Len(after) = t
    BY <1>8, <1>10, <1>11, ListOfRows
<1>14. after = Append(before, new)
    BY <1>1, <1>10, <1>12, <1>13, GrownList
<1> QED
    BY <1>6, <1>9, <1>14 DEF Board!Open

-----------------------------------------------------------------------------
(* The theorem *)

LEMMA ImplementsInit == Init => Board!Init
    BY DEF Init, Board!Init, Conversations

LEMMA ImplementsDeclined ==
    ASSUME NEW r \in Requests, NEW code, Declined(r, code)
    PROVE  UNCHANGED Conversations
    BY ImplementsNothing DEF Declined, contentVars

LEMMA ImplementsUseCase ==
    ASSUME Coherent, Coherent', UseCaseStep
    PROVE  [Board!Next]_Conversations
<1>0. /\ TypeOK /\ clock \in Time
      /\ \A i \in DOMAIN posts : posts[i].thread \in DOMAIN threads
    BY DEF Coherent, TypeOK, PostsInThreads
<1>1. ASSUME NEW r \in Requests, CreateThread(r)
      PROVE  [Board!Next]_Conversations
  <2>1. requests[r].user \in Users
      BY <1>0, <1>1, HandledRequest DEF CreateThread
  <2>2. CASE ThreadAnswer(requests[r]) = "created"
    <3>1. Opened(requests[r].user)
        BY <1>1, <2>2 DEF CreateThread, Opened, ThreadAnswer
    <3>2. Board!Open(requests[r].user)
        BY <2>1, <3>1, ImplementsOpen
    <3> QED
        BY <2>1, <3>2 DEF Board!Next
  <2>3. CASE ThreadAnswer(requests[r]) # "created"
      BY <1>1, <2>3, ImplementsNothing DEF CreateThread
  <2> QED
      BY <2>2, <2>3
<1>2. ASSUME NEW r \in Requests, CreatePost(r)
      PROVE  [Board!Next]_Conversations
  <2>1. requests[r].user \in Users /\ requests[r].cites \in Citations
      BY <1>0, <1>2, HandledRequest DEF CreatePost
  <2>2. CASE ReplyAnswer(requests[r]) = "created"
    <3>1. requests[r].thread \in DOMAIN threads
        BY <2>2, CreatedReply
    <3>2. Replied(requests[r].thread, requests[r].user, requests[r].cites)
        BY <1>2, <2>2, CreatedReply DEF CreatePost, Replied
    <3>3. /\ Board!Reply(requests[r].thread, requests[r].user)
          /\ requests[r].thread \in DOMAIN Conversations
        BY <2>1, <3>1, <3>2, ImplementsReply
    <3> QED
        BY <2>1, <3>3 DEF Board!Next
  <2>3. CASE ReplyAnswer(requests[r]) # "created"
      BY <1>2, <2>3, ImplementsNothing DEF CreatePost
  <2> QED
      BY <2>2, <2>3
<1>3. ASSUME NEW r \in Requests, LockThread(r)
      PROVE  [Board!Next]_Conversations
  <2>1. CASE \E code : Declined(r, code)
      BY <2>1, ImplementsDeclined
  <2>2. CASE ~ \E code : Declined(r, code)
    <3>1. PICK t \in DOMAIN threads :
            /\ threads[t].unpublishedAt = NULL /\ threads[t].lockedAt = NULL
            /\ threads' = [threads EXCEPT ![t].lockedAt = clock]
            /\ posts' = posts
        BY <1>3, <2>2 DEF LockThread, ModeratedThreadAnswer
    <3>2. Board!Close(t) /\ t \in DOMAIN Conversations
        BY <1>0, <3>1, ImplementsLock
    <3> QED
        BY <3>2 DEF Board!Next
  <2> QED
      BY <2>1, <2>2
<1>4. ASSUME NEW r \in Requests, UnlockThread(r)
      PROVE  [Board!Next]_Conversations
  <2>1. CASE \E code : Declined(r, code)
      BY <2>1, ImplementsDeclined
  <2>2. CASE ~ \E code : Declined(r, code)
    <3>1. PICK t \in DOMAIN threads :
            /\ threads[t].unpublishedAt = NULL /\ threads[t].lockedAt # NULL
            /\ threads' = [threads EXCEPT ![t].lockedAt = NULL]
            /\ posts' = posts
        BY <1>4, <2>2 DEF UnlockThread, ModeratedThreadAnswer
    <3>2. Board!Reopen(t) /\ t \in DOMAIN Conversations
        BY <3>1, ImplementsUnlock
    <3> QED
        BY <3>2 DEF Board!Next
  <2> QED
      BY <2>1, <2>2
<1>5. ASSUME NEW r \in Requests, UnpublishThread(r)
      PROVE  [Board!Next]_Conversations
  <2>1. CASE \E code : Declined(r, code)
      BY <2>1, ImplementsDeclined
  <2>2. CASE ~ \E code : Declined(r, code)
    <3>1. PICK t \in DOMAIN threads :
            /\ threads[t].unpublishedAt = NULL
            /\ threads' = [threads EXCEPT ![t].unpublishedAt = clock]
            /\ posts' = posts
        BY <1>5, <2>2 DEF UnpublishThread
    <3>2. Board!TakeDown(t) /\ t \in DOMAIN Conversations
        BY <1>0, <3>1, ImplementsUnpublish
    <3> QED
        BY <3>2 DEF Board!Next
  <2> QED
      BY <2>1, <2>2
<1>6. ASSUME NEW r \in Requests, UnpublishPost(r)
      PROVE  [Board!Next]_Conversations
  <2>1. CASE \E code : Declined(r, code)
      BY <2>1, ImplementsDeclined
  <2>2. CASE ~ \E code : Declined(r, code)
    <3>1. PICK i \in DOMAIN posts :
            /\ posts[i].unpublishedAt = NULL
            /\ threads[posts[i].thread].unpublishedAt = NULL
            /\ posts' = [posts EXCEPT ![i].unpublishedAt = clock]
            /\ threads' = threads
        BY <1>6, <2>2 DEF UnpublishPost, PostsNumbered, PostsOf, ModeratedThreadAnswer
    <3>2. \E t \in DOMAIN Conversations :
            \E n \in DOMAIN Conversations[t].posts : Board!Hide(t, n)
        BY <3>1, ImplementsHide
    <3> QED
        BY <3>2 DEF Board!Next
  <2> QED
      BY <2>1, <2>2
<1>7. ASSUME NEW r \in Requests, Fail(r)
      PROVE  [Board!Next]_Conversations
    BY <1>7, ImplementsNothing DEF Fail, contentVars
<1> QED
    BY <1>1, <1>2, <1>3, <1>4, <1>5, <1>6, <1>7 DEF UseCaseStep

LEMMA ImplementsNext ==
    ASSUME Coherent, Coherent', [Next]_vars
    PROVE  [Board!Next]_Conversations
<1>1. CASE ArriveStep
    BY <1>1, ImplementsNothing DEF ArriveStep, Arrive, contentVars
<1>2. CASE UseCaseStep
    BY <1>2, ImplementsUseCase
<1>3. CASE \E u \in Users : Withdraw(u)
    BY <1>3, ImplementsNothing DEF Withdraw, contentVars
<1>4. CASE PurgeWithdrawnUsers
    BY <1>4, ImplementsForget DEF Board!Next
<1>5. CASE Tick
    BY <1>5, ImplementsNothing DEF Tick, contentVars
<1>6. CASE UNCHANGED vars
    BY <1>6, ImplementsNothing DEF vars
<1> QED
    BY <1>1, <1>2, <1>3, <1>4, <1>5, <1>6 DEF Next, AccountStep

\* The tables implement the board: for every set of accounts and requests and every limit, each
\* step of the program is a step of a conversation, or is not to be seen.
THEOREM BoardIsAConversation == Spec => ImplementsConversation
<1>1. Init => Board!Init
    BY ImplementsInit
<1>2. Coherent /\ Coherent' /\ [Next]_vars => [Board!Next]_Conversations
    BY ImplementsNext
<1> QED
    BY <1>1, <1>2, CoherentAlways, PTL DEF Spec, Board!Spec, ImplementsConversation
=============================================================================
