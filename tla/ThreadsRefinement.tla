-------------------------- MODULE ThreadsRefinement --------------------------
(***************************************************************************)
(* Threads implements Conversation: the rows of threads and posts, read by *)
(* their numbers, are lists that change as a conversation does.            *)
(***************************************************************************)
EXTENDS Threads

\* The abstraction function.  Of a row it keeps who wrote it and whether it is still shown;
\* of a thread, its rows in the order of their numbers and whether they may be added to.
Row(i) ==
    [author |-> posts[i].author,
     text   |-> IF posts[i].unpublishedAt = NULL THEN "shown" ELSE "hidden"]

\* What a number stands for.
PostAt(t, n) == Row(CHOOSE i \in PostsOf(t) : posts[i].number = n)

Standing(t) ==
    IF threads[t].unpublishedAt # NULL THEN "gone"
    ELSE IF threads[t].lockedAt # NULL THEN "closed"
    ELSE "open"

ConversationAt(t) ==
    [posts |-> [n \in 1..threads[t].postsCount |-> PostAt(t, n)],
     standing |-> Standing(t)]

Conversations == [t \in DOMAIN threads |-> ConversationAt(t)]

Board == INSTANCE Conversation WITH conversations <- Conversations

\* However requests, moderation, withdrawals and the purge interleave over the tables, what is
\* shown under the numbers changes only as a conversation may: one post at a time, at the end of
\* a list that is shown, open and not full at that moment, and every other post stays in its
\* place (createPost and createThread number, insert and count in one transaction).
ImplementsConversation == Board!Spec

=============================================================================
