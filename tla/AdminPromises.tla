--------------------------- MODULE AdminPromises ---------------------------
(***************************************************************************)
(* What the administration pages promise, and the state these promises are *)
(* about.                                                                  *)
(***************************************************************************)
EXTENDS Integers, FiniteSets

CONSTANTS
    Reader,     \* the account whose browser this is
    MaxUsers,   \* accounts that ever sign up
    PerPage,    \* model.AdminUsersPerPage
    Matching,   \* accounts whose atname begins with what is searched for
    MaxPage,    \* the highest page number that is typed
    NONE

\* Nothing searched for, a beginning of an atname, and what no atname can contain.
Searches == {"", "some", "illegible"}

\* A page number that is not one, and those before the first page.
Unreadable == -1
TypedNumbers == {Unreadable} \union 0..MaxPage

\* What can change under a page: an account withdraws, the reader gains or loses the role,
\* the reader withdraws, an account arrives after those of the last page were counted.
Changes == {"members", "role", "account", "overflow"}

Ops == {"home", "hub", "list", "grant", "revoke"}

Asked == [op : Ops,
          stage : {"arrived", "resolved", "authorized", "counted", "listed", "found"},
          search : Searches, number : Nat \union {Unreadable},
          target : 1..MaxUsers \union {NONE}, total : Nat, listed : SUBSET (1..MaxUsers),
          changes : SUBSET Changes, offered : SUBSET Changes,
          held : SUBSET (1..MaxUsers), present : SUBSET (1..MaxUsers), issued : 1..MaxUsers]

Walked == [seen : SUBSET (1..MaxUsers), search : Searches, present : SUBSET (1..MaxUsers)]

ASSUME AdminUsersAssumption ==
    /\ MaxUsers \in Nat /\ PerPage \in Nat \ {0} /\ MaxPage \in Nat
    /\ Reader \in 1..MaxUsers
    /\ Matching \subseteq 1..MaxUsers
    /\ NONE \notin Asked \union Walked

VARIABLES
    issued,   \* the latest rowid of an account
    members,  \* accounts that have not withdrawn
    admins,   \* rows of user_roles for the role admin
    request,  \* the request in flight, or NONE
    page,     \* what the browser shows
    walk      \* the list as read from its first page on, or NONE

desk == <<issued, members, admins, request, page, walk>>

-----------------------------------------------------------------------------
\* Mutant: a last page that is not full does not count.
FullPages(total) == total \div PerPage

TotalPages(total) == (total + PerPage - 1) \div PerPage

HasNext == page.number < TotalPages(page.total)

\* Whoever reads the list from its first page to its last has met everybody who was there all
\* along: accounts that join while it is read push others to later pages, never past the
\* reader.  Only a withdrawal, or an account that joins between the number and the page, can
\* hide somebody (get_admin_users.go, ORDER BY id DESC).
ReadingOnMissesNobody ==
    (walk # NONE /\ page.view = "list" /\ ~HasNext) =>
        {u \in walk.present : walk.search = "" \/ u \in Matching} \subseteq walk.seen
            \/ walk.search = "illegible"

\* What an administrator is led to by a link, a button or a redirect is refused only if the
\* role, the account or the target has gone since; giving up the role oneself leads to no
\* closed door (handler/admin_user_role, sidebar, admin/show.templ).
AdministratorsAreLedToOpenDoors ==
    [][(request # NONE /\ request' = NONE) =>
          /\ page'.view = "sign_in" => "account" \in request.offered
          /\ page'.view = "forbidden" => request.offered \intersect {"role", "account"} # {}
          /\ page'.view = "not_found" => request.offered \intersect {"members", "account"} # {}]_desk

\* The links between pages lead to pages that have somebody on them, also from beyond the end,
\* unless somebody has withdrawn meanwhile (IndexPagination).
PageLinksLeadToRows ==
    [][(request # NONE /\ request' = NONE /\ page'.view = "list"
            /\ "members" \notin request.offered /\ "account" \notin request.offered
            /\ page'.rows = {} /\ page'.search # "illegible")
          => request.number = 1 /\ page'.total = 0]_desk

\* A row tells what was so at some moment of its request: nobody who had left before it, no
\* role that was not held during it, and the number of rows a page has room for (GetAdminUsers).
RowsWereTrue ==
    [][(request # NONE /\ request' = NONE /\ page'.view = "list") =>
          /\ Cardinality(page'.rows) <= PerPage
          /\ \A row \in page'.rows :
              /\ row.id \in request.present \/ row.id > request.issued
              /\ row.admin => row.id \in request.held]_desk
=============================================================================
