----------------------------- MODULE AdminUsers -----------------------------
(***************************************************************************)
(* The administration pages: the list of accounts, read page by page while *)
(* people sign up, leave and change roles, and the buttons of its rows.    *)
(*                                                                         *)
(* One administrator reads, by one browser.  A page of the list is         *)
(* composed from four reads: the roles of the reader, the number of        *)
(* accounts, the accounts of the page and their roles.  What others do is  *)
(* Roles, here reduced to its effect on the rows the pages read.  The one  *)
(* role there is holds every scope.                                        *)
(***************************************************************************)
EXTENDS AdminPromises

Users == 1..MaxUsers

world == <<issued, members, admins>>

Row == [id : Users, admin : BOOLEAN]

Page == [view : {"nothing", "home", "hub", "list", "sign_in", "forbidden", "not_found", "error"},
         search : Searches, number : Nat, total : Nat, rows : SUBSET Row, admin : BOOLEAN,
         changes : SUBSET Changes]

TypeOK ==
    /\ issued \in Users
    /\ members \subseteq 1..issued
    /\ admins \subseteq 1..issued
    /\ request \in Asked \union {NONE}
    /\ page \in Page
    /\ walk \in Walked \union {NONE}

Nothing == [view |-> "nothing", search |-> "", number |-> 0, total |-> 0, rows |-> {},
            admin |-> FALSE, changes |-> {}]

Init ==
    /\ issued \in Reader..MaxUsers
    /\ members = 1..issued
    /\ admins \in {{Reader}, {Reader} \union (Matching \intersect members)}
    /\ request = NONE
    /\ page = Nothing
    /\ walk = NONE

-----------------------------------------------------------------------------
\* The browser.

Arriving(op, search, number, target, offered) ==
    [op |-> op, stage |-> "arrived", search |-> search, number |-> number, target |-> target,
     total |-> 0, listed |-> {}, changes |-> {}, offered |-> offered,
     held |-> admins, present |-> members, issued |-> issued]

Send(op, search, number, target, offered) ==
    /\ request = NONE
    /\ request' = Arriving(op, search, number, target, offered)
    /\ page' = Nothing
    /\ UNCHANGED world

\* An address is typed, or was kept from an earlier day.
Open ==
    /\ \/ \E op \in {"home", "hub"} : Send(op, "", 1, NONE, Changes)
       \/ \E search \in Searches, number \in TypedNumbers :
            Send("list", search, number, NONE, Changes)
    /\ walk' = NONE

\* The sidebar of the home page, and the one link of the hub.
FollowLink ==
    /\ \/ page.view = "home" /\ page.admin /\ Send("hub", "", 1, NONE, page.changes)
       \/ page.view = "hub" /\ Send("list", "", 1, NONE, page.changes)
    /\ walk' = NONE

\* The form above the list begins again on the first page.
Search ==
    /\ page.view = "list"
    /\ \E search \in Searches : Send("list", search, 1, NONE, page.changes)
    /\ walk' = NONE

HasPrevious == TotalPages(page.total) > 0 /\ page.number > 1

\* Mutant: from beyond the end the way back is one page at a time.
PreviousPageByOne == page.number - 1

PreviousPage == IF page.number - 1 < TotalPages(page.total) THEN page.number - 1
                ELSE TotalPages(page.total)

FollowPrevious ==
    /\ page.view = "list" /\ HasPrevious
    /\ Send("list", page.search, PreviousPage, NONE, page.changes)
    /\ walk' = NONE

FollowNext ==
    /\ page.view = "list" /\ HasNext
    /\ Send("list", page.search, page.number + 1, NONE, page.changes)
    /\ UNCHANGED walk

\* The button of a row takes the role or gives it.
ButtonOf(row) == IF row.admin THEN "revoke" ELSE "grant"

\* Its form names the page it was pressed on.
Press ==
    /\ page.view = "list"
    /\ \E row \in page.rows :
        Send(ButtonOf(row), page.search, page.number, row.id, page.changes)
    /\ walk' = NONE

-----------------------------------------------------------------------------
\* The others.

Changed(kinds) ==
    /\ page' = IF page.view \in {"home", "hub", "list"}
               THEN [page EXCEPT !.changes = @ \union kinds] ELSE page
    /\ request' = IF request = NONE THEN NONE
                  ELSE [request EXCEPT !.changes = @ \union kinds, !.offered = @ \union kinds,
                                       !.held = @ \union admins']

\* The last page of the list, as the accounts were counted.
OnLastPage == request # NONE /\ request.stage = "counted"
                  /\ request.number >= TotalPages(request.total)

\* New accounts come first.  One that arrives after those of the last page were counted
\* pushes another behind it, where no link leads until the page is read again.
SignUp ==
    /\ issued < MaxUsers
    /\ issued' = issued + 1
    /\ members' = members \union {issued + 1}
    /\ UNCHANGED admins
    /\ IF OnLastPage THEN Changed({"overflow"}) /\ walk' = NONE
       ELSE UNCHANGED <<request, page, walk>>

Holders == admins \intersect members
IsTheLast(u) == u \in Holders /\ Cardinality(Holders) <= 1

Leave(u) ==
    /\ u \in members /\ ~IsTheLast(u)
    /\ members' = members \ {u}
    /\ admins' = admins \ {u}
    /\ Changed({IF u = Reader THEN "account" ELSE "members"})
    /\ walk' = NONE
    /\ UNCHANGED issued

\* Others write roles too.
ChangeRole(u) ==
    /\ u \in members /\ ~IsTheLast(u)
    /\ admins' = IF u \in admins THEN admins \ {u} ELSE admins \union {u}
    /\ Changed(IF u = Reader THEN {"role"} ELSE {})
    /\ UNCHANGED <<issued, members, walk>>

-----------------------------------------------------------------------------
\* Reads.

At(ops, stage) == request # NONE /\ request.op \in ops /\ request.stage = stage

Reads(fields) == request' = fields /\ UNCHANGED <<world, page, walk>>

Answer(shown) ==
    /\ request' = NONE
    /\ page' = shown
    /\ UNCHANGED world

Say(view) == Answer([Nothing EXCEPT !.view = view]) /\ walk' = NONE

\* RequireAuth.
ResolveReader ==
    /\ At(Ops, "arrived")
    /\ \/ Reader \notin members /\ Say("sign_in")
       \/ Reader \in members /\ Reads([request EXCEPT !.stage = "resolved"])

CanAccessAdmin == Reader \in admins

\* The community navigation of the home page reads the roles of whoever is signed in.
ShowHome ==
    /\ At({"home"}, "resolved")
    /\ Answer([Nothing EXCEPT !.view = "home", !.admin = CanAccessAdmin,
                             !.changes = request.changes])
    /\ walk' = NONE

ShowHub ==
    /\ At({"hub"}, "resolved")
    /\ \/ ~CanAccessAdmin /\ Say("forbidden")
       \/ /\ CanAccessAdmin
          /\ Answer([Nothing EXCEPT !.view = "hub", !.changes = request.changes])
          /\ walk' = NONE

\* A page of the list that has been read from its first page on carries the walk further.
ShowList(total, rows) ==
    /\ Answer([Nothing EXCEPT !.view = "list", !.search = request.search,
                              !.number = request.number, !.total = total, !.rows = rows,
                              !.changes = request.changes])
    /\ walk' = CASE request.number = 1 /\ request.changes \subseteq {"role"}
                      -> [seen |-> {row.id : row \in rows}, search |-> request.search,
                          present |-> request.present]
                 [] request.number # 1 /\ walk # NONE
                      -> [walk EXCEPT !.seen = @ \union {row.id : row \in rows}]
                 [] OTHER -> NONE

\* An address that is none is told so; the right to read comes before anything is said about
\* the list itself.
AuthorizeList ==
    /\ At({"list"}, "resolved")
    /\ \/ request.number = Unreadable /\ Say("not_found")
       \/ request.number # Unreadable /\ ~CanAccessAdmin /\ Say("forbidden")
       \/ CanAccessAdmin /\ request.number = 0 /\ Say("not_found")
       \/ CanAccessAdmin /\ request.number >= 1 /\ request.search = "illegible" /\ ShowList(0, {})
       \/ /\ CanAccessAdmin /\ request.number >= 1 /\ request.search # "illegible"
          /\ Reads([request EXCEPT !.stage = "authorized"])

\* Mutant: accounts that have withdrawn are listed too.
ListedWithLeavers(search) == {u \in 1..issued : search = "" \/ u \in Matching}

Listed(search) == {u \in members : search = "" \/ u \in Matching}

\* Nothing is read for a page that has nothing on it.
CountUsers ==
    /\ At({"list"}, "authorized")
    /\ LET total == Cardinality(Listed(request.search)) IN
        IF total = 0 \/ request.number - 1 > (total - 1) \div PerPage
        THEN ShowList(total, {})
        ELSE Reads([request EXCEPT !.stage = "counted", !.total = total])

\* ORDER BY id DESC.
AheadOf(search, u) == {v \in Listed(search) : v > u}

\* LIMIT and OFFSET.
ListUsers ==
    /\ At({"list"}, "counted")
    /\ Reads([request EXCEPT !.stage = "listed",
                !.listed = {u \in Listed(request.search) :
                    Cardinality(AheadOf(request.search, u)) \div PerPage = request.number - 1}])

\* The roles of those who are on the page; holding the role decides which button a row has.
ListRoles ==
    /\ At({"list"}, "listed")
    /\ ShowList(request.total, {[id |-> u, admin |-> u \in admins] : u \in request.listed})

-----------------------------------------------------------------------------
\* Writes.

AuthorizeWrite ==
    /\ At({"grant", "revoke"}, "resolved")
    /\ \/ ~CanAccessAdmin /\ Say("forbidden")
       \/ CanAccessAdmin /\ Reads([request EXCEPT !.stage = "authorized"])

FindTarget ==
    /\ At({"grant", "revoke"}, "authorized")
    /\ \/ request.target \notin members /\ Say("not_found")
       \/ request.target \in members /\ Reads([request EXCEPT !.stage = "found"])

ListingPath == [op |-> "list", search |-> request.search, number |-> request.number]

Home == [op |-> "home", search |-> "", number |-> 1]

\* Mutant: whoever gives up the role is sent back to the list.
AfterRevocationToList == ListingPath

\* Giving up the role takes away the list; the home page is left.
AfterRevocation == IF request.target = Reader THEN Home ELSE ListingPath

\* The browser follows the redirect.
Redirect(to) ==
    /\ request' = [Arriving(to.op, to.search, to.number, NONE, request.offered)
                      EXCEPT !.held = admins']
    /\ UNCHANGED <<issued, members, page>>
    /\ walk' = NONE

Grant ==
    /\ At({"grant"}, "found")
    /\ admins' = admins \union {request.target}
    /\ Redirect(ListingPath)

\* The last administrator who can sign in is told so, on the list.
Revoke ==
    /\ At({"revoke"}, "found")
    /\ \/ /\ IsTheLast(request.target)
          /\ UNCHANGED admins
          /\ Redirect(ListingPath)
       \/ /\ ~IsTheLast(request.target)
          /\ admins' = admins \ {request.target}
          /\ Redirect(AfterRevocation)

Fail == request # NONE /\ Say("error")

Browser == Open \/ FollowLink \/ Search \/ FollowPrevious \/ FollowNext \/ Press

Server ==
    \/ ResolveReader \/ ShowHome \/ ShowHub
    \/ AuthorizeList \/ CountUsers \/ ListUsers \/ ListRoles
    \/ AuthorizeWrite \/ FindTarget \/ Grant \/ Revoke \/ Fail

Others == SignUp \/ \E u \in Users : Leave(u) \/ ChangeRole(u)

Next == Browser \/ Server \/ Others

Spec == Init /\ [][Next]_desk
=============================================================================
