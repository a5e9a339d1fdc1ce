---------------------------- MODULE Conversation ----------------------------
(***************************************************************************)
(* What a board promises those who read and write it: threads are lists of *)
(* posts, and a list only ever grows by one post at its end, while it is   *)
(* open and has room.  The place of a post in its list is its address.     *)
(* Nothing here is a table, a counter, a request or a clock.               *)
(***************************************************************************)
EXTENDS Naturals, Sequences

CONSTANTS
    Users,           \* who may write
    NULL,            \* a writer who has been forgotten
    ThreadPostLimit  \* how long a list may get

VARIABLE conversations  \* the threads in the order they were opened

Said(u) == [author |-> u, text |-> "shown"]

Init == conversations = <<>>

Open(u) ==
    conversations' = Append(conversations, [posts |-> <<Said(u)>>, standing |-> "open"])

Reply(t, u) ==
    /\ conversations[t].standing = "open"
    /\ Len(conversations[t].posts) < ThreadPostLimit
    /\ conversations' = [conversations EXCEPT ![t].posts = Append(@, Said(u))]

Close(t) ==
    /\ conversations[t].standing = "open"
    /\ conversations' = [conversations EXCEPT ![t].standing = "closed"]

Reopen(t) ==
    /\ conversations[t].standing = "closed"
    /\ conversations' = [conversations EXCEPT ![t].standing = "open"]

\* Out of sight for good, with all its posts.
TakeDown(t) ==
    /\ conversations[t].standing # "gone"
    /\ conversations' = [conversations EXCEPT ![t].standing = "gone"]

\* One post is put out of sight, and keeps its place.
Hide(t, n) ==
    /\ conversations[t].standing # "gone"
    /\ conversations[t].posts[n].text = "shown"
    /\ conversations' = [conversations EXCEPT ![t].posts[n].text = "hidden"]

\* What people wrote stays when they are gone.
Forgotten(post, gone) ==
    [author |-> IF post.author \in gone THEN NULL ELSE post.author, text |-> post.text]

Forget(gone) ==
    conversations' =
        [t \in DOMAIN conversations |->
            [posts |-> [n \in DOMAIN conversations[t].posts |->
                            Forgotten(conversations[t].posts[n], gone)],
             standing |-> conversations[t].standing]]

Next ==
    \/ \E u \in Users : Open(u)
    \/ \E t \in DOMAIN conversations :
        \/ \E u \in Users : Reply(t, u)
        \/ Close(t)
        \/ Reopen(t)
        \/ TakeDown(t)
        \/ \E n \in DOMAIN conversations[t].posts : Hide(t, n)
    \/ \E gone \in SUBSET Users : Forget(gone)

Spec == Init /\ [][Next]_conversations

=============================================================================
