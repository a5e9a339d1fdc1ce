-------------------------- MODULE AccountPromises --------------------------
(***************************************************************************)
(* What the pages around an account promise, and the state these promises  *)
(* are about.                                                              *)
(***************************************************************************)
EXTENDS Naturals

CONSTANTS
    Addresses,        \* e-mail addresses
    MaxBegun,         \* sign-ups, reset links, changes of address and secrets, in all
    MaxDisturbances,  \* what others do
    NONE

\* Pages for whoever is signed in, and those for anybody.
Settings == {"settings", "email", "email_code", "two_factor"}
Paths == {"root", "home", "sign_in", "sign_up", "code", "account", "reset", "password"}
            \union Settings
Forms == {"sign_up", "code", "account", "reset", "password", "email", "email_code",
          "enroll", "disable"}

\* How a form is filled in; something behind an unlucky one fails: the challenge, the queue of
\* mails, the database.
Fillings == {"right", "wrong", "unlucky"}

\* What can change under a page: the cookie or its confirmation, who has an address, the
\* session, the change of address, the second factor, the link.
Kinds == {"code", "address", "session", "change", "factor", "link"}

Sent == [method : {"GET", "POST"}, op : Paths \union Forms,
         text : Addresses \union {"", "typed"}, filling : Fillings,
         key : 0..MaxBegun, jar : 0..MaxBegun, offered : BOOLEAN, changes : SUBSET Kinds]

ASSUME AccountPagesAssumption ==
    /\ MaxBegun \in Nat /\ MaxDisturbances \in Nat
    /\ NONE \notin Addresses \union Sent

VARIABLES
    accounts,       \* addresses that have an account
    session,        \* the address of the account that is signed in, or NONE
    confirmations,  \* rows of email_confirmations for sign-ups
    jar,            \* the confirmation the hand-over cookie names, or 0
    made,           \* confirmations an account was made from
    pending,        \* the latest change of address of the account
    factor,         \* the second factor of the account
    resets,         \* reset links: the latest, and whether it is unused and in time
    page,           \* what the tab shows
    request,        \* the request in flight, or NONE
    disturbances    \* how often others have acted

site == <<accounts, session, confirmations, jar, made, pending, factor, resets, page, request,
          disturbances>>

-----------------------------------------------------------------------------
\* A step that answers a request.
Answering == request # NONE /\ disturbances' = disturbances

\* Where an answer leads to: the page it shows, or the path it redirects to.
LedTo == IF request' = NONE THEN page'.view ELSE request'.op

\* Where a link leads to, and where a form leads to that is accepted.
Promised(r) ==
    CASE r.method = "GET" /\ r.op = "root" -> {"welcome", "home"}
      [] r.method = "GET" /\ r.op = "two_factor" -> {"enroll", "disable"}
      [] r.method = "GET" /\ r.op \notin {"root", "two_factor"} -> {r.op}
      [] r.method = "POST" /\ r.op = "sign_up" -> {"code"}
      [] r.method = "POST" /\ r.op = "code" -> {"account"}
      [] r.method = "POST" /\ r.op = "account" -> {"root"}
      [] r.method = "POST" /\ r.op = "reset" -> {"sent"}
      [] r.method = "POST" /\ r.op = "password" -> {"sign_in"}
      [] r.method = "POST" /\ r.op = "email" -> {"email_code"}
      [] r.method = "POST" /\ r.op \in {"email_code", "disable"} -> {"settings"}
      [] r.method = "POST" /\ r.op = "enroll" -> {"recovery_codes"}

\* Whoever comes by a link, a redirect or a form and fills it in rightly gets on, by every
\* road through refusals, redirects and hand-over cookies: only what others did since the form
\* was shown, an address that has an account, or a failure behind the form turns them away.
OffersAreKept ==
    [][(Answering /\ request.offered /\ request.changes = {} /\ request.filling = "right"
            /\ ~(request.op \in {"sign_up", "email"} /\ request.text \in accounts))
          => LedTo \in Promised(request)]_site

\* Rows of confirmations are never consumed, and they outlive the account: what ends a
\* hand-over is the cookie.  The answer that makes an account takes the cookie along, also when the
\* session could not be made, and no later answer brings back a cookie that names a
\* confirmation an account was made from (handler/account/create.go).
HandOversEnd == jar \notin made
=============================================================================
