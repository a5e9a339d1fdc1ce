------------------------------- MODULE Roles -------------------------------
(***************************************************************************)
(* Who may administer a Groobb community: grants and revocations of roles, *)
(* by an administrator or by the operator at the command line, against the *)
(* withdrawal of accounts, their suspension and their purge.               *)
(*                                                                         *)
(* A request is spread over several reads, each at a moment of its own:    *)
(* the session, then the roles of the actor, then the target, and at last  *)
(* one BEGIN IMMEDIATE transaction that reads again only what it must not  *)
(* break.  The stage of a request says what has been read.                 *)
(***************************************************************************)
EXTENDS Integers, FiniteSets

CONSTANTS
    Users,         \* rowids of accounts
    Requests,      \* slots for requests and subcommands in flight
    NULL,
    Operator,      \* OperatorActor: whoever runs the subcommands
    Roles,         \* names of the rows of roles
    RoleNames,     \* names a form or a command line may give
    Admin,         \* model.RoleNameAdmin
    RoleWriters,   \* the roles whose scopes expand to user_role:write
    Suspensions    \* whether suspended_at is written at all

ASSUME RolesAssumption ==
    /\ IsFiniteSet(Users)
    /\ Operator \notin Users
    /\ Roles \subseteq RoleNames
    /\ Admin \in Roles
    /\ RoleWriters \subseteq Roles
    /\ Admin \in RoleWriters
    /\ Suspensions \in BOOLEAN
    /\ \A u \in Users : u # NULL

VARIABLES
    users,        \* what the row of each account says
    assignments,  \* user_roles as pairs <<account, role>>, UNIQUE
    requests,     \* the request in each slot
    answer        \* what the latest step answered, "none" if it answered nothing

vars == <<users, assignments, requests, answer>>

Stages == {"arrived", "authorized", "resolved"}

\* An account is "absent" before its sign-up and after its purge.  Suspension is
\* a column of its own, and only its being NULL or not matters.
Account == [state : {"absent", "member", "withdrawn"}, suspended : BOOLEAN]

Request ==
    [op : {"grant", "revoke", "withdraw"}, actor : Users \union {Operator},
     target : Users, role : RoleNames, stage : Stages]

Answers == {"none", "done", "forbidden", "not_found", "last_admin", "failed"}

TypeOK ==
    /\ users \in [Users -> Account]
    /\ assignments \subseteq Users \X Roles
    /\ requests \in [Requests -> Request \union {NULL}]
    /\ answer \in Answers

-----------------------------------------------------------------------------
(* What the rows mean *)

\* The account lookups leave out the withdrawn, not the suspended.
Found(u) == users[u].state = "member"

\* A session resolves to the account.
Active(u) == Found(u) /\ ~users[u].suspended

Holds(u, role) == <<u, role>> \in assignments

\* CountUserRoleHoldersByRoleID joins only accounts that can sign in.
Holders(role) == {u \in Users : Holds(u, role) /\ Active(u)}

RemovingLeavesNoAdmin == Cardinality(Holders(Admin)) <= 1

MayWriteRoles(actor) ==
    actor = Operator \/ \E role \in RoleWriters : Holds(actor, role)

Fresh == [state |-> "absent", suspended |-> FALSE]

Init ==
    /\ users = [u \in Users |-> Fresh]
    /\ assignments = {}
    /\ requests = [r \in Requests |-> NULL]
    /\ answer = "none"

-----------------------------------------------------------------------------
(* The reads before the transaction *)

Advance(r, stage) ==
    /\ requests' = [requests EXCEPT ![r].stage = stage]
    /\ answer' = "none"
    /\ UNCHANGED <<users, assignments>>

Answered(r, code) ==
    /\ requests' = [requests EXCEPT ![r] = NULL]
    /\ answer' = code

Refused(r, code) == Answered(r, code) /\ UNCHANGED <<users, assignments>>

At(r, stage, ops) ==
    requests[r] # NULL /\ requests[r].stage = stage /\ requests[r].op \in ops

RoleOps == {"grant", "revoke"}

\* A form of the admin screen: RequireAuth resolves the session.
ArriveForm(r, op, actor, target, role) ==
    /\ requests[r] = NULL
    /\ Active(actor)
    /\ requests' = [requests EXCEPT ![r] =
            [op |-> op, actor |-> actor, target |-> target, role |-> role,
             stage |-> "arrived"]]
    /\ answer' = "none"
    /\ UNCHANGED <<users, assignments>>

\* groobb role grant|revoke: changeUserRole resolves the atname to an account.
ArriveSubcommand(r, op, target, role) ==
    /\ requests[r] = NULL
    /\ Found(target)
    /\ requests' = [requests EXCEPT ![r] =
            [op |-> op, actor |-> Operator, target |-> target, role |-> role,
             stage |-> "arrived"]]
    /\ answer' = "none"
    /\ UNCHANGED <<users, assignments>>

\* resolveCommunityPolicy: the roles of the actor are read here and never again.
Authorize(r) ==
    /\ At(r, "arrived", RoleOps)
    /\ \/ MayWriteRoles(requests[r].actor) /\ Advance(r, "authorized")
       \/ ~MayWriteRoles(requests[r].actor) /\ Refused(r, "forbidden")

\* Mutation of Named: any name is taken for a role.
NamedLoosely(q) == Found(q.target)

\* The request names a role and an account that the community has.
Named(q) == q.role \in Roles /\ Found(q.target)

\* resolveRoleAssignment.
Resolve(r) ==
    /\ At(r, "authorized", RoleOps)
    /\ \/ Named(requests[r]) /\ Advance(r, "resolved")
       \/ ~Named(requests[r]) /\ Refused(r, "not_found")

\* The current password of a withdrawal is right.  A wrong one ends the request
\* as Fail does.
ConfirmPassword(r) ==
    /\ At(r, "arrived", {"withdraw"})
    /\ Advance(r, "resolved")

\* BEGIN, a statement or COMMIT fails, a form is refused, or the process dies.
Fail(r) ==
    /\ requests[r] # NULL
    /\ Refused(r, "failed")

-----------------------------------------------------------------------------
(* The transactions *)

\* Having the role already is a success.  The target is not read again.
Grant(r) ==
    LET q == requests[r]
    IN  /\ At(r, "resolved", {"grant"})
        /\ assignments' = assignments \union {<<q.target, q.role>>}
        /\ Answered(r, "done")
        /\ UNCHANGED users

\* Mutation of RevocationIsRefused: the holders are counted whoever the target is.
RevocationIsRefusedUncounted(u, role) ==
    Holds(u, role) /\ role = Admin /\ RemovingLeavesNoAdmin

\* Only a target that is counted among the holders can be the last of them.
RevocationIsRefused(u, role) ==
    /\ Holds(u, role)
    /\ role = Admin
    /\ Active(u)
    /\ RemovingLeavesNoAdmin

Revoke(r) ==
    LET q == requests[r]
    IN  /\ At(r, "resolved", {"revoke"})
        /\ \/ /\ RevocationIsRefused(q.target, q.role)
              /\ Refused(r, "last_admin")
           \/ /\ ~RevocationIsRefused(q.target, q.role)
              /\ assignments' = assignments \ {<<q.target, q.role>>}
              /\ Answered(r, "done")
              /\ UNCHANGED users

\* Mutation of WithdrawalIsRefused: nobody asks whether administrators remain.
WithdrawalIsRefusedNever(u) == FALSE

WithdrawalIsRefused(u) == Holds(u, Admin) /\ RemovingLeavesNoAdmin

RolesOf(u) == {u} \X Roles

Withdrawn(u) ==
    /\ users' = [users EXCEPT ![u].state = "withdrawn"]
    /\ assignments' = assignments \ RolesOf(u)

\* The update goes by id alone: nothing asks whether the account is still there.
Withdraw(r) ==
    LET u == requests[r].actor
    IN  /\ At(r, "resolved", {"withdraw"})
        /\ \/ WithdrawalIsRefused(u) /\ Refused(r, "last_admin")
           \/ ~WithdrawalIsRefused(u) /\ Withdrawn(u) /\ Answered(r, "done")

-----------------------------------------------------------------------------
(* Accounts *)

SignUp(u) ==
    /\ users[u].state = "absent"
    /\ users' = [users EXCEPT ![u].state = "member"]
    /\ answer' = "none"
    /\ UNCHANGED <<assignments, requests>>

\* The retention is thirty days: no request in flight is that old.
NoRequestNames(u) ==
    \A r \in Requests : requests[r] # NULL => u \notin {requests[r].actor, requests[r].target}

\* Mutation of Purge: user_roles has no ON DELETE CASCADE.
PurgeUserAlone(u) ==
    /\ users[u].state = "withdrawn"
    /\ NoRequestNames(u)
    /\ users' = [users EXCEPT ![u] = Fresh]
    /\ answer' = "none"
    /\ UNCHANGED <<assignments, requests>>

\* The daily purge deletes the row, and what hangs on it by ON DELETE CASCADE.
Purge(u) ==
    /\ users[u].state = "withdrawn"
    /\ NoRequestNames(u)
    /\ users' = [users EXCEPT ![u] = Fresh]
    /\ assignments' = assignments \ RolesOf(u)
    /\ answer' = "none"
    /\ UNCHANGED requests

\* UserRepository.Suspend and Unsuspend.  No route calls them yet; the use cases
\* of this module are written for the day one does.
SetSuspended(u, suspended) ==
    /\ Suspensions
    /\ users[u].state # "absent"
    /\ users' = [users EXCEPT ![u].suspended = suspended]
    /\ answer' = "none"
    /\ UNCHANGED <<assignments, requests>>

-----------------------------------------------------------------------------
ArriveStep ==
    \E r \in Requests, target \in Users, role \in RoleNames :
        \/ \E op \in RoleOps, actor \in Users : ArriveForm(r, op, actor, target, role)
        \/ \E op \in RoleOps : ArriveSubcommand(r, op, target, role)
        \/ role = Admin /\ ArriveForm(r, "withdraw", target, target, role)

UseCaseStep ==
    \E r \in Requests :
        \/ Authorize(r)
        \/ Resolve(r)
        \/ ConfirmPassword(r)
        \/ Grant(r)
        \/ Revoke(r)
        \/ Withdraw(r)
        \/ Fail(r)

AccountStep ==
    \E u \in Users :
        \/ SignUp(u)
        \/ Purge(u)
        \/ \E suspended \in BOOLEAN : SetSuspended(u, suspended)

Next == ArriveStep \/ UseCaseStep \/ AccountStep

Spec == Init /\ [][Next]_vars

-----------------------------------------------------------------------------
(* What makes the roles correct *)

\* A community that has an administrator who can sign in keeps one through every race of
\* revocations, withdrawals, grants and purges: only a suspension can take the last one away
\* (removingLeavesNoAdmin is read inside the transaction that removes).
AnAdministratorRemains ==
    [][Holders(Admin) # {} /\ (\A u \in Users : users'[u].suspended => users[u].suspended)
        => Holders(Admin)' # {}]_vars

\* A revocation is refused only to the last administrator who can sign in: somebody whom the
\* count leaves out can always be relieved of the role (the target is read in the transaction).
RefusedOnlyToTheLast ==
    [][\A r \in Requests :
        At(r, "resolved", {"revoke"}) /\ requests'[r] = NULL /\ answer' = "last_admin"
            => Holders(Admin) = {requests[r].target}]_vars

\* Nobody inherits a role: even a role granted to an account after its withdrawal goes with the
\* row, so a later account that is given the same rowid starts with none (ON DELETE CASCADE).
NoInheritedRoles ==
    \A u \in Users, role \in Roles : Holds(u, role) => users[u].state # "absent"

\* "To give a role to someone who left would put into the community a holder nobody can sign
\* in as" (user_role.go): nobody who withdrew holds a role.
HoldersAreMembers ==
    \A u \in Users, role \in Roles : Holds(u, role) => users[u].state = "member"

\* A request that has been resolved names the row of a role and an account whose row is there; the
\* purge waits for it, which is why nobody starts with a role of someone before (user_role.go).
ResolvedNamesRoles ==
    \A r \in Requests : At(r, "resolved", {"grant"}) => requests[r].role \in Roles

ResolvedNamesRows ==
    \A r \in Requests :
        At(r, "resolved", {"grant"}) => users[requests[r].target].state # "absent"

WithdrawalsNameRows ==
    \A r \in Requests :
        requests[r] # NULL /\ requests[r].op = "withdraw" =>
            /\ requests[r].actor \in Users
            /\ users[requests[r].actor].state # "absent"

Sound ==
    /\ TypeOK
    /\ ResolvedNamesRoles
    /\ ResolvedNamesRows
    /\ WithdrawalsNameRows
    /\ NoInheritedRoles
=============================================================================
