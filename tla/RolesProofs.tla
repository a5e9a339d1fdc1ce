---------------------------- MODULE RolesProofs ----------------------------
(***************************************************************************)
(* Proofs about Roles, for any number of accounts, requests and roles:     *)
(* types, that no role is inherited with a rowid, that the community keeps *)
(* an administrator, and that a revocation is refused only to the last.    *)
(* And about the pages an administrator does it on, for any number of      *)
(* accounts and any size of a page: AdminPromises.                         *)
(***************************************************************************)
EXTENDS Roles, AdminPromises, FiniteSetTheorems, TLAPS

LEMMA TypeInit == Init => TypeOK
    BY DEF Init, TypeOK, Account, Fresh, Answers

\* The request a handler works on is a record.
LEMMA InFlight ==
    ASSUME TypeOK, NEW r \in Requests, requests[r] # NULL
    PROVE  requests[r] \in Request
    BY DEF TypeOK

LEMMA TypeAnswered ==
    ASSUME TypeOK, NEW r \in Requests, NEW code \in Answers, Answered(r, code)
    PROVE  requests' \in [Requests -> Request \union {NULL}] /\ answer' \in Answers
    BY DEF TypeOK, Answered

LEMMA TypeRefused ==
    ASSUME TypeOK, NEW r \in Requests, NEW code \in Answers, Refused(r, code)
    PROVE  TypeOK'
    BY TypeAnswered DEF TypeOK, Refused

LEMMA TypeAdvance ==
    ASSUME TypeOK, NEW r \in Requests, requests[r] # NULL, NEW stage \in Stages,
           Advance(r, stage)
    PROVE  TypeOK'
<1>1. [requests[r] EXCEPT !.stage = stage] \in Request
    BY InFlight DEF Request
<1>2. requests' = [requests EXCEPT ![r] = [requests[r] EXCEPT !.stage = stage]]
    BY DEF Advance
<1>3. requests' \in [Requests -> Request \union {NULL}]
    BY <1>1, <1>2 DEF TypeOK
<1> QED
    BY <1>3 DEF Advance, TypeOK, Answers

LEMMA TypeArrive ==
    ASSUME TypeOK, ArriveStep
    PROVE  TypeOK'
<1>1. PICK r \in Requests, target \in Users, role \in RoleNames,
           op \in {"grant", "revoke", "withdraw"}, actor \in Users \union {Operator} :
        /\ requests' = [requests EXCEPT ![r] =
                [op |-> op, actor |-> actor, target |-> target, role |-> role,
                 stage |-> "arrived"]]
        /\ answer' = "none"
        /\ UNCHANGED <<users, assignments>>
    BY DEF ArriveStep, ArriveForm, ArriveSubcommand, RoleOps
<1>2. [op |-> op, actor |-> actor, target |-> target, role |-> role,
       stage |-> "arrived"] \in Request
    BY DEF Request, Stages
<1>3. requests' \in [Requests -> Request \union {NULL}]
    BY <1>1, <1>2 DEF TypeOK
<1> QED
    BY <1>1, <1>3 DEF TypeOK, Answers

LEMMA RowChange ==
    ASSUME TypeOK, NEW u \in Users, NEW row \in Account,
           users' = [users EXCEPT ![u] = row]
    PROVE  /\ users' \in [Users -> Account]
           /\ users'[u] = row
           /\ \A v \in Users \ {u} : users'[v] = users[v]
    BY DEF TypeOK

LEMMA ColumnChange ==
    ASSUME TypeOK, NEW u \in Users
    PROVE  /\ \A state \in {"absent", "member", "withdrawn"} :
                LET new == [users EXCEPT ![u].state = state]
                IN  /\ new \in [Users -> Account]
                    /\ new[u].state = state
                    /\ new[u].suspended = users[u].suspended
                    /\ \A v \in Users \ {u} : new[v] = users[v]
           /\ \A suspended \in BOOLEAN :
                LET new == [users EXCEPT ![u].suspended = suspended]
                IN  /\ new \in [Users -> Account]
                    /\ new[u].state = users[u].state
                    /\ \A v \in Users \ {u} : new[v] = users[v]
<1>1. users[u] \in Account /\ users \in [Users -> Account]
    BY DEF TypeOK
<1> QED
    BY <1>1 DEF Account

LEMMA TypeUseCase ==
    ASSUME TypeOK, ResolvedNamesRoles, UseCaseStep
    PROVE  TypeOK'
<1>1. PICK r \in Requests :
        \/ Authorize(r) \/ Resolve(r) \/ ConfirmPassword(r)
        \/ Grant(r) \/ Revoke(r) \/ Withdraw(r) \/ Fail(r)
    BY DEF UseCaseStep
<1>2. {"forbidden", "not_found", "last_admin", "failed", "done"} \subseteq Answers
    BY DEF Answers
<1>3. CASE Authorize(r)
    BY <1>2, <1>3, TypeAdvance, TypeRefused DEF Authorize, At, Stages
<1>4. CASE Resolve(r)
    BY <1>2, <1>4, TypeAdvance, TypeRefused DEF Resolve, At, Stages
<1>5. CASE ConfirmPassword(r)
    BY <1>5, TypeAdvance DEF ConfirmPassword, At, Stages
<1>6. CASE Grant(r)
  <2>1. requests[r] \in Request /\ requests[r].role \in Roles
      BY <1>6, InFlight DEF Grant, At, ResolvedNamesRoles
  <2>2. <<requests[r].target, requests[r].role>> \in Users \X Roles
      BY <2>1 DEF Request
  <2> QED
      BY <1>2, <1>6, <2>2, TypeAnswered DEF Grant, TypeOK
<1>7. CASE Revoke(r)
    BY <1>2, <1>7, TypeAnswered, TypeRefused DEF Revoke, TypeOK
<1>8. CASE Withdraw(r)
  <2>1. CASE Refused(r, "last_admin")
      BY <1>2, <2>1, TypeRefused
  <2>2. CASE Withdrawn(requests[r].actor) /\ Answered(r, "done")
    <3>1. users' \in [Users -> Account]
      <4>1. CASE requests[r].actor \in Users
          BY <2>2, <4>1, ColumnChange DEF Withdrawn
      <4>2. CASE requests[r].actor \notin Users
          BY <2>2, <4>2 DEF Withdrawn, TypeOK
      <4> QED
          BY <4>1, <4>2
    <3> QED
        BY <1>2, <2>2, <3>1, TypeAnswered DEF Withdrawn, TypeOK
  <2> QED
      BY <1>8, <2>1, <2>2 DEF Withdraw
<1>9. CASE Fail(r)
    BY <1>2, <1>9, TypeRefused DEF Fail
<1> QED
    BY <1>1, <1>3, <1>4, <1>5, <1>6, <1>7, <1>8, <1>9

LEMMA TypeAccount ==
    ASSUME TypeOK, AccountStep
    PROVE  TypeOK'
<1>1. Fresh \in Account
    BY DEF Fresh, Account
<1>2. ASSUME NEW u \in Users, SignUp(u) PROVE TypeOK'
    BY <1>2, ColumnChange DEF SignUp, TypeOK, Answers
<1>3. ASSUME NEW u \in Users, Purge(u) PROVE TypeOK'
    BY <1>1, <1>3, RowChange DEF Purge, TypeOK, Answers
<1>4. ASSUME NEW u \in Users, NEW suspended \in BOOLEAN, SetSuspended(u, suspended)
      PROVE TypeOK'
    BY <1>4, ColumnChange DEF SetSuspended, TypeOK, Answers
<1> QED
    BY <1>2, <1>3, <1>4 DEF AccountStep

-----------------------------------------------------------------------------
(* Who can hold a role.  A grant that has been resolved names an account whose row *)
(* is there, and the purge waits for it; that is what the invariant needs.         *)

LEMMA SoundInit == Init => Sound
    BY TypeInit DEF Init, Sound, ResolvedNamesRoles, ResolvedNamesRows, WithdrawalsNameRows,
       NoInheritedRoles, At, Holds

RequestFacts == ResolvedNamesRoles /\ ResolvedNamesRows /\ WithdrawalsNameRows

\* The facts about requests survive when no row that a request needs goes away and no request
\* appears or moves.
LEMMA RequestsKept ==
    ASSUME Sound, TypeOK', NEW r \in Requests,
           requests' = [requests EXCEPT ![r] = NULL] \/ requests' = requests,
           \A u \in Users : users[u].state # "absent" =>
               \/ users'[u].state # "absent"
               \/ NoRequestNames(u)
    PROVE  RequestFacts'
<1>1. \A s \in Requests : requests'[s] # NULL => requests'[s] = requests[s]
    BY DEF Sound, TypeOK
<1>2. ResolvedNamesRoles'
    BY <1>1 DEF Sound, ResolvedNamesRoles, At
<1>3. \A s \in Requests :
        requests[s] # NULL => requests[s].target \in Users /\ requests[s] \in Request
    BY InFlight DEF Sound, Request
<1>4. ResolvedNamesRows'
  <2> SUFFICES ASSUME NEW s \in Requests, At(s, "resolved", {"grant"})'
               PROVE  users'[requests[s].target].state # "absent"
      BY <1>1 DEF ResolvedNamesRows, At
  <2>1. At(s, "resolved", {"grant"}) /\ requests[s] # NULL
      BY <1>1 DEF At
  <2>2. users[requests[s].target].state # "absent" /\ requests[s].target \in Users
      BY <1>3, <2>1 DEF Sound, ResolvedNamesRows
  <2> QED
      BY <2>1, <2>2 DEF NoRequestNames
<1>5. WithdrawalsNameRows'
  <2> SUFFICES ASSUME NEW s \in Requests, requests'[s] # NULL, requests[s].op = "withdraw"
               PROVE  /\ requests[s].actor \in Users
                      /\ users'[requests[s].actor].state # "absent"
      BY <1>1 DEF WithdrawalsNameRows
  <2>1. requests[s] # NULL
      BY <1>1
  <2>2. /\ requests[s].actor \in Users
        /\ users[requests[s].actor].state # "absent"
      BY <2>1 DEF Sound, WithdrawalsNameRows
  <2> QED
      BY <2>1, <2>2 DEF NoRequestNames
<1> QED
    BY <1>2, <1>4, <1>5 DEF RequestFacts

LEMMA SoundArrive ==
    ASSUME Sound, TypeOK', ArriveStep
    PROVE  Sound'
<1>1. PICK r \in Requests, target \in Users, role \in RoleNames,
           op \in {"grant", "revoke", "withdraw"}, actor \in Users \union {Operator} :
        /\ requests' = [requests EXCEPT ![r] =
                [op |-> op, actor |-> actor, target |-> target, role |-> role,
                 stage |-> "arrived"]]
        /\ op = "withdraw" => actor \in Users /\ Active(actor)
        /\ UNCHANGED <<users, assignments>>
    BY DEF ArriveStep, ArriveForm, ArriveSubcommand, RoleOps
<1>2. /\ requests'[r] = [op |-> op, actor |-> actor, target |-> target, role |-> role,
                          stage |-> "arrived"]
      /\ \A s \in Requests \ {r} : requests'[s] = requests[s]
    BY <1>1 DEF Sound, TypeOK
<1>3. ResolvedNamesRoles' /\ ResolvedNamesRows'
    BY <1>1, <1>2 DEF Sound, ResolvedNamesRoles, ResolvedNamesRows, At
<1>4. WithdrawalsNameRows'
    BY <1>1, <1>2 DEF Sound, WithdrawalsNameRows, Active, Found
<1>5. NoInheritedRoles'
    BY <1>1 DEF Sound, NoInheritedRoles, Holds
<1> QED
    BY <1>3, <1>4, <1>5 DEF Sound

LEMMA SoundAdvance ==
    ASSUME Sound, TypeOK', NEW r \in Requests, requests[r] # NULL, NEW stage \in Stages,
           Advance(r, stage),
           stage = "resolved" /\ requests[r].op = "grant" => Named(requests[r])
    PROVE  Sound'
<1>1. /\ requests'[r] = [requests[r] EXCEPT !.stage = stage]
      /\ \A s \in Requests \ {r} : requests'[s] = requests[s]
      /\ UNCHANGED <<users, assignments>>
    BY DEF Advance, Sound, TypeOK
<1>2. requests[r] \in Request
    BY InFlight DEF Sound
<1>3. /\ requests'[r].op = requests[r].op /\ requests'[r].stage = stage
      /\ requests'[r].target = requests[r].target /\ requests'[r].actor = requests[r].actor
      /\ requests'[r].role = requests[r].role
    BY <1>1, <1>2 DEF Request
<1>4. ResolvedNamesRoles' /\ ResolvedNamesRows'
  <2> SUFFICES ASSUME NEW s \in Requests, At(s, "resolved", {"grant"})'
               PROVE  /\ requests'[s].role \in Roles
                      /\ users[requests'[s].target].state # "absent"
      BY <1>1 DEF ResolvedNamesRoles, ResolvedNamesRows
  <2>1. CASE s = r
      BY <1>3, <2>1 DEF At, Named, Found
  <2>2. CASE s # r
    <3>1. At(s, "resolved", {"grant"}) /\ requests'[s] = requests[s]
        BY <1>1, <2>2 DEF At
    <3> QED
        BY <3>1 DEF Sound, ResolvedNamesRoles, ResolvedNamesRows
  <2> QED
      BY <2>1, <2>2
<1>5. WithdrawalsNameRows'
  <2> SUFFICES ASSUME NEW s \in Requests, requests'[s] # NULL, requests'[s].op = "withdraw"
               PROVE  /\ requests'[s].actor \in Users
                      /\ users[requests'[s].actor].state # "absent"
      BY <1>1 DEF WithdrawalsNameRows
  <2>1. CASE s = r
      BY <1>3, <2>1 DEF Sound, WithdrawalsNameRows
  <2>2. CASE s # r
      BY <1>1, <2>2 DEF Sound, WithdrawalsNameRows
  <2> QED
      BY <2>1, <2>2
<1>6. NoInheritedRoles'
    BY <1>1 DEF Sound, NoInheritedRoles, Holds
<1> QED
    BY <1>4, <1>5, <1>6 DEF Sound

LEMMA SoundRefused ==
    ASSUME Sound, TypeOK', NEW r \in Requests, NEW code, Refused(r, code)
    PROVE  Sound'
<1>1. RequestFacts'
    BY RequestsKept DEF Refused, Answered
<1>2. NoInheritedRoles'
    BY DEF Refused, Sound, NoInheritedRoles, Holds
<1> QED
    BY <1>1, <1>2 DEF Sound, RequestFacts

LEMMA SoundUseCase ==
    ASSUME Sound, TypeOK', UseCaseStep
    PROVE  Sound'
<1>0. TypeOK
    BY DEF Sound
<1>1. PICK r \in Requests :
        \/ Authorize(r) \/ Resolve(r) \/ ConfirmPassword(r)
        \/ Grant(r) \/ Revoke(r) \/ Withdraw(r) \/ Fail(r)
    BY DEF UseCaseStep
<1>2. CASE Authorize(r)
    BY <1>2, SoundAdvance, SoundRefused DEF Authorize, At, Stages
<1>3. CASE Resolve(r)
    BY <1>3, SoundAdvance, SoundRefused DEF Resolve, At, Stages
<1>4. CASE ConfirmPassword(r)
    BY <1>4, SoundAdvance DEF ConfirmPassword, At, Stages
<1>5. CASE Grant(r)
  <2>1. RequestFacts'
      BY <1>5, RequestsKept DEF Grant, Answered
  <2>2. users[requests[r].target].state # "absent"
      BY <1>5 DEF Grant, Sound, ResolvedNamesRows
  <2>3. NoInheritedRoles'
      BY <1>5, <2>2 DEF Grant, Sound, NoInheritedRoles, Holds
  <2> QED
      BY <2>1, <2>3 DEF Sound, RequestFacts
<1>6. CASE Revoke(r)
  <2>1. CASE Refused(r, "last_admin")
      BY <2>1, SoundRefused
  <2>2. CASE /\ assignments' = assignments \ {<<requests[r].target, requests[r].role>>}
             /\ Answered(r, "done") /\ UNCHANGED users
    <3>1. RequestFacts'
        BY <2>2, RequestsKept DEF Answered
    <3>2. NoInheritedRoles'
        BY <2>2 DEF Sound, NoInheritedRoles, Holds
    <3> QED
        BY <3>1, <3>2 DEF Sound, RequestFacts
  <2> QED
      BY <1>6, <2>1, <2>2 DEF Revoke
<1>7. CASE Withdraw(r)
  <2>1. CASE Refused(r, "last_admin")
      BY <2>1, SoundRefused
  <2>2. CASE Withdrawn(requests[r].actor) /\ Answered(r, "done")
    <3>1. requests[r].actor \in Users
        BY <1>7 DEF Withdraw, At, Sound, WithdrawalsNameRows
    <3>2. \A u \in Users : users[u].state # "absent" => users'[u].state # "absent"
        BY <1>0, <2>2, <3>1, ColumnChange DEF Withdrawn
    <3>3. RequestFacts'
        BY <2>2, <3>2, RequestsKept DEF Answered
    <3>4. NoInheritedRoles'
        BY <2>2, <3>2 DEF Withdrawn, Sound, NoInheritedRoles, Holds
    <3> QED
        BY <3>3, <3>4 DEF Sound, RequestFacts
  <2> QED
      BY <1>7, <2>1, <2>2 DEF Withdraw
<1>8. CASE Fail(r)
    BY <1>8, SoundRefused DEF Fail
<1> QED
    BY <1>1, <1>2, <1>3, <1>4, <1>5, <1>6, <1>7, <1>8

LEMMA SoundAccount ==
    ASSUME Sound, TypeOK', AccountStep
    PROVE  Sound'
<1>0. TypeOK
    BY DEF Sound
<1>1. PICK u \in Users :
        SignUp(u) \/ Purge(u) \/ \E suspended \in BOOLEAN : SetSuspended(u, suspended)
    BY DEF AccountStep
<1>2. \A v \in Users : users[v].state # "absent" =>
        users'[v].state # "absent" \/ NoRequestNames(v)
  <2>1. CASE SignUp(u)
      BY <1>0, <2>1, ColumnChange DEF SignUp
  <2>2. CASE Purge(u)
      BY <1>0, <2>2 DEF Purge, TypeOK
  <2>3. ASSUME NEW suspended \in BOOLEAN, SetSuspended(u, suspended)
        PROVE  \A v \in Users : users'[v].state = users[v].state
      BY <1>0, <2>3, ColumnChange DEF SetSuspended
  <2> QED
      BY <1>1, <2>1, <2>2, <2>3
<1>3. RequestFacts'
  <2>1. requests' = requests
      BY <1>1 DEF SignUp, Purge, SetSuspended
  <2>2. CASE Requests = {}
      BY <2>2 DEF RequestFacts, ResolvedNamesRoles, ResolvedNamesRows, WithdrawalsNameRows
  <2>3. CASE Requests # {}
      BY <1>2, <2>1, <2>3, RequestsKept
  <2> QED
      BY <2>2, <2>3
<1>4. NoInheritedRoles'
  <2>1. CASE SignUp(u)
      BY <1>0, <2>1, ColumnChange DEF SignUp, Sound, NoInheritedRoles, Holds
  <2>2. CASE Purge(u)
      BY <1>0, <2>2 DEF Purge, Sound, NoInheritedRoles, Holds, RolesOf, TypeOK
  <2>3. ASSUME NEW suspended \in BOOLEAN, SetSuspended(u, suspended)
        PROVE  NoInheritedRoles'
      BY <1>0, <2>3, ColumnChange DEF SetSuspended, Sound, NoInheritedRoles, Holds
  <2> QED
      BY <1>1, <2>1, <2>2, <2>3
<1> QED
    BY <1>3, <1>4 DEF Sound, RequestFacts

LEMMA SoundNext == Sound /\ [Next]_vars => Sound'
<1> SUFFICES ASSUME Sound, [Next]_vars PROVE Sound'
    OBVIOUS
<1>1. CASE ArriveStep
    BY <1>1, TypeArrive, SoundArrive DEF Sound
<1>2. CASE UseCaseStep
    BY <1>2, TypeUseCase, SoundUseCase DEF Sound
<1>3. CASE AccountStep
    BY <1>3, TypeAccount, SoundAccount DEF Sound
<1>4. CASE UNCHANGED vars
    BY <1>4 DEF vars, Sound, TypeOK, ResolvedNamesRoles, ResolvedNamesRows,
       WithdrawalsNameRows, NoInheritedRoles, At, Holds
<1> QED
    BY <1>1, <1>2, <1>3, <1>4 DEF Next

\* The inductive invariant: types, what the requests in flight name, and who can hold a role.
THEOREM SoundAlways == Spec => []Sound
<1> QED
    BY SoundInit, SoundNext, PTL DEF Spec

\* Rows, requests and answers keep their types.
THEOREM RolesTypeCorrect == Spec => []TypeOK
<1>1. Sound => TypeOK
    BY DEF Sound
<1> QED
    BY <1>1, SoundAlways, PTL

\* No account starts with a role its rowid once had, however late the role was granted.
THEOREM NothingInherited == Spec => []NoInheritedRoles
<1>1. Sound => NoInheritedRoles
    BY DEF Sound
<1> QED
    BY <1>1, SoundAlways, PTL

-----------------------------------------------------------------------------
(* The last administrator *)

LEMMA HoldersFinite ==
    IsFiniteSet(Holders(Admin)) /\ Cardinality(Holders(Admin)) \in Nat
<1>1. Holders(Admin) \subseteq Users
    BY DEF Holders
<1> QED
    BY <1>1, RolesAssumption, FS_Subset, FS_CardinalityType

\* Where more than one remains, taking one away leaves one.
LEMMA AnotherRemains ==
    ASSUME ~RemovingLeavesNoAdmin, NEW u
    PROVE  \E v \in Holders(Admin) : v # u
<1> SUFFICES ASSUME Holders(Admin) \subseteq {u} PROVE FALSE
    OBVIOUS
<1>1. IsFiniteSet({u}) /\ Cardinality({u}) = 1
    BY FS_Singleton
<1>2. Cardinality(Holders(Admin)) <= 1
    BY <1>1, FS_Subset
<1> QED
    BY <1>2 DEF RemovingLeavesNoAdmin

LEMMA LastHolder ==
    ASSUME NEW u \in Holders(Admin), RemovingLeavesNoAdmin
    PROVE  Holders(Admin) = {u}
<1>1. Cardinality(Holders(Admin)) # 0
    BY HoldersFinite, FS_EmptySet
<1>2. Cardinality(Holders(Admin)) = 1
    BY <1>1, HoldersFinite DEF RemovingLeavesNoAdmin
<1>3. PICK x : Holders(Admin) = {x}
    BY <1>2, HoldersFinite, FS_Singleton
<1> QED
    BY <1>3

\* An administrator keeps the position in a step that takes neither the assignment nor the
\* membership away and suspends nobody.
LEMMA StaysHolder ==
    ASSUME NEW v \in Holders(Admin), v \in Users,
           <<v, Admin>> \in assignments', users'[v].state = "member", ~users'[v].suspended
    PROVE  Holders(Admin)' # {}
    BY DEF Holders, Holds, Active, Found

LEMMA AdministratorStep ==
    ASSUME Sound, [Next]_vars, Holders(Admin) # {},
           \A u \in Users : users'[u].suspended => users[u].suspended
    PROVE  Holders(Admin)' # {}
<1>0. TypeOK
    BY DEF Sound
<1>1. \A v \in Holders(Admin) :
        /\ v \in Users /\ <<v, Admin>> \in assignments
        /\ users[v].state = "member" /\ ~users[v].suspended
    BY DEF Holders, Holds, Active, Found
<1>2. PICK a : a \in Holders(Admin)
    OBVIOUS
<1>3. ASSUME UNCHANGED <<users, assignments>> PROVE Holders(Admin)' # {}
    BY <1>1, <1>2, <1>3, StaysHolder
<1>4. CASE ArriveStep
    BY <1>3, <1>4 DEF ArriveStep, ArriveForm, ArriveSubcommand
<1>5. CASE UseCaseStep
  <2>1. PICK r \in Requests :
          \/ Authorize(r) \/ Resolve(r) \/ ConfirmPassword(r)
          \/ Grant(r) \/ Revoke(r) \/ Withdraw(r) \/ Fail(r)
      BY <1>5 DEF UseCaseStep
  <2>2. CASE Authorize(r) \/ Resolve(r) \/ ConfirmPassword(r) \/ Fail(r)
      BY <1>3, <2>2 DEF Authorize, Resolve, ConfirmPassword, Fail, Advance, Refused
  <2>3. CASE Grant(r)
      BY <1>1, <1>2, <2>3, StaysHolder DEF Grant
  <2>4. CASE Revoke(r)
    <3>1. CASE UNCHANGED <<users, assignments>>
        BY <1>3, <3>1
    <3>2. CASE /\ ~RevocationIsRefused(requests[r].target, requests[r].role)
               /\ assignments' = assignments \ {<<requests[r].target, requests[r].role>>}
               /\ UNCHANGED users
      <4>1. PICK v \in Holders(Admin) :
              <<v, Admin>> # <<requests[r].target, requests[r].role>>
        <5>1. CASE requests[r].target \in Holders(Admin) /\ requests[r].role = Admin
          <6>1. ~RemovingLeavesNoAdmin
              BY <3>2, <5>1 DEF RevocationIsRefused, Holders
          <6> QED
              BY <6>1, AnotherRemains
        <5>2. CASE ~(requests[r].target \in Holders(Admin) /\ requests[r].role = Admin)
            BY <1>2, <5>2
        <5> QED
            BY <5>1, <5>2
      <4> QED
          BY <1>1, <3>2, <4>1, StaysHolder
    <3> QED
        BY <2>4, <3>1, <3>2 DEF Revoke, Refused
  <2>5. CASE Withdraw(r)
    <3>1. CASE UNCHANGED <<users, assignments>>
        BY <1>3, <3>1
    <3>2. CASE ~WithdrawalIsRefused(requests[r].actor) /\ Withdrawn(requests[r].actor)
      <4> DEFINE u == requests[r].actor
      <4>1. u \in Users
          BY <2>5 DEF Withdraw, At, Sound, WithdrawalsNameRows
      <4>2. PICK v \in Holders(Admin) : v # u
        <5>1. CASE u \in Holders(Admin)
            BY <3>2, <5>1, AnotherRemains DEF WithdrawalIsRefused, Holders
        <5>2. CASE u \notin Holders(Admin)
            BY <1>2, <5>2
        <5> QED
            BY <5>1, <5>2
      <4>3. v \in Users /\ users'[v] = users[v]
          BY <1>0, <1>1, <3>2, <4>1, <4>2, ColumnChange DEF Withdrawn
      <4>4. <<v, Admin>> \in assignments'
          BY <1>1, <3>2, <4>2 DEF Withdrawn, RolesOf
      <4> QED
          BY <1>1, <4>2, <4>3, <4>4, StaysHolder
    <3> QED
        BY <2>5, <3>1, <3>2 DEF Withdraw, Refused
  <2> QED
      BY <2>1, <2>2, <2>3, <2>4, <2>5
<1>6. CASE AccountStep
  <2>1. PICK u \in Users :
          SignUp(u) \/ Purge(u) \/ \E suspended \in BOOLEAN : SetSuspended(u, suspended)
      BY <1>6 DEF AccountStep
  <2>2. a # u => users'[a] = users[a]
      BY <1>0, <1>1, <1>2, <2>1, ColumnChange DEF SignUp, Purge, SetSuspended, TypeOK
  <2>3. <<a, Admin>> \in assignments'
      BY <1>1, <1>2, <2>1 DEF SignUp, Purge, SetSuspended, RolesOf
  <2>4. users'[a].state = "member" /\ ~users'[a].suspended
    <3>1. CASE a # u
        BY <1>1, <1>2, <2>2, <3>1
    <3>2. CASE a = u
      <4>1. PICK suspended \in BOOLEAN : SetSuspended(u, suspended)
          BY <1>1, <1>2, <2>1, <3>2 DEF SignUp, Purge
      <4>2. users'[u].state = users[u].state
          BY <1>0, <4>1, ColumnChange DEF SetSuspended
      <4> QED
          BY <1>1, <1>2, <3>2, <4>2
    <3> QED
        BY <3>1, <3>2
  <2> QED
      BY <1>1, <1>2, <2>3, <2>4, StaysHolder
<1>7. CASE UNCHANGED vars
    BY <1>3, <1>7 DEF vars
<1> QED
    BY <1>4, <1>5, <1>6, <1>7 DEF Next

\* However many administrators and requests there are, the community keeps an administrator
\* unless one is suspended.
THEOREM CommunityKeepsAnAdministrator == Spec => AnAdministratorRemains
<1>1. Sound /\ [Next]_vars =>
        (Holders(Admin) # {} /\ (\A u \in Users : users'[u].suspended => users[u].suspended)
            => Holders(Admin)' # {})
    BY AdministratorStep
<1> QED
    BY <1>1, SoundAlways, PTL DEF Spec, AnAdministratorRemains

\* Only the revocation itself answers a resolved revocation with "last_admin".
LEMMA RefusingStep ==
    ASSUME TypeOK, [Next]_vars, NEW r \in Requests, At(r, "resolved", {"revoke"}),
           requests'[r] = NULL, answer' = "last_admin"
    PROVE  RevocationIsRefused(requests[r].target, requests[r].role)
<1>1. requests[r] # NULL
    BY DEF At
<1>2. requests' # requests
    BY <1>1
<1>3. ~ArriveStep /\ ~AccountStep /\ ~UNCHANGED vars
    BY <1>2 DEF ArriveStep, ArriveForm, ArriveSubcommand, AccountStep, SignUp, Purge,
       SetSuspended, vars
<1>4. PICK s \in Requests :
        \/ Authorize(s) \/ Resolve(s) \/ ConfirmPassword(s)
        \/ Grant(s) \/ Revoke(s) \/ Withdraw(s) \/ Fail(s)
    BY <1>3 DEF Next, UseCaseStep
<1>5. s = r
  <2>1. \E new : requests' = [requests EXCEPT ![s] = new]
      BY <1>4 DEF Authorize, Resolve, ConfirmPassword, Grant, Revoke, Withdraw, Fail, Advance,
         Refused, Answered
  <2> QED
      BY <1>1, <2>1 DEF TypeOK
<1>6. Revoke(r)
    BY <1>4, <1>5 DEF Authorize, Resolve, ConfirmPassword, Grant, Withdraw, Fail, Refused,
       Answered, At, RoleOps
<1> QED
    BY <1>6 DEF Revoke, Answered

\* A revocation is refused to nobody but the last administrator, however many there are.
THEOREM RefusalsAreRight == Spec => RefusedOnlyToTheLast
<1>1. ASSUME Sound, [Next]_vars, NEW r \in Requests, At(r, "resolved", {"revoke"}),
             requests'[r] = NULL, answer' = "last_admin"
      PROVE  Holders(Admin) = {requests[r].target}
  <2>1. RevocationIsRefused(requests[r].target, requests[r].role)
      BY <1>1, RefusingStep DEF Sound
  <2>2. requests[r].target \in Users
      BY <1>1, InFlight DEF Sound, At, Request
  <2>3. requests[r].target \in Holders(Admin) /\ RemovingLeavesNoAdmin
      BY <2>1, <2>2 DEF RevocationIsRefused, Holders
  <2> QED
      BY <2>3, LastHolder
<1>2. Sound /\ [Next]_vars =>
        \A r \in Requests :
            At(r, "resolved", {"revoke"}) /\ requests'[r] = NULL /\ answer' = "last_admin"
                => Holders(Admin) = {requests[r].target}
    BY <1>1
<1> QED
    BY <1>2, SoundAlways, PTL DEF Spec, RefusedOnlyToTheLast

-----------------------------------------------------------------------------
(* The administration pages.

   What others do is noted on the request in flight and on the page in view.  Stands says that
   these notes explain whatever stands in the way of the administrator, that a page is within
   the list as long as nobody has left, and that whoever has not been met yet while the list is
   read is still to come.  The places of a list run from 0 without a gap, which is why a page
   that was counted has somebody on it. *)
Desk == INSTANCE AdminUsers

\* The pages count with an operator of their own name.
LEMMA SameNumber == \A S : Desk!Cardinality(S) = Cardinality(S)
    BY DEF Desk!Cardinality, Cardinality

\* Somebody or the reader has withdrawn, as far as a set of changes tells.
Left(kinds) == "members" \in kinds \/ "account" \in kinds

\* The reader has lost the role, as far as a set of changes tells.
Lost(kinds) == "role" \in kinds \/ "account" \in kinds

\* Pages only an administrator gets to see, and the requests only an administrator makes.
ForAdmins(op, admin) == op \in {"hub", "list", "grant", "revoke"} \/ (op = "home" /\ admin)

Admitted == {"authorized", "counted", "listed", "found"}

\* What the stage of a request tells about it.
Busy ==
    /\ page = Desk!Nothing
    /\ request.stage \in {"counted", "listed"} => request.op = "list"
    /\ request.stage \in Admitted => request.op \in {"list", "grant", "revoke"}
    /\ request.stage = "found" => request.op \in {"grant", "revoke"}
    /\ request.op \in {"grant", "revoke"} => request.target \in 1..issued /\ request.number >= 1
    /\ request.stage \in Admitted => request.number >= 1

\* What was noted on a request tells why it may be refused.
RequestExplains ==
    /\ request.changes \subseteq request.offered
    /\ Reader \notin members =>
        /\ "account" \in request.offered
        /\ request.stage # "arrived" => "account" \in request.changes
    /\ Reader \notin admins =>
        /\ request.op # "home" => Lost(request.offered)
        /\ request.stage \in Admitted => Lost(request.changes)
    /\ request.number >= 1 \/ request.offered = Desk!Changes
    /\ request.op \in {"grant", "revoke"} /\ request.target \notin members => Left(request.offered)
    /\ request.listed \subseteq 1..issued
    /\ request.listed \subseteq members \/ Left(request.changes)

\* And what was noted on a page.
PageExplains ==
    /\ page.view = "list" => page.number >= 1
    /\ page.view \in {"home", "hub", "list"} /\ Reader \notin members
         => "account" \in page.changes
    /\ ForAdmins(page.view, page.admin) /\ Reader \notin admins => Lost(page.changes)
    /\ page.view = "list" => \A row \in page.rows :
        row.id \in 1..issued /\ (row.id \in members \/ Left(page.changes))

\* The pages of a list, as long as nobody leaves.
RequestFits ==
    /\ Left(request.offered) \/ request.number = 1
         \/ request.number <= Desk!TotalPages(Cardinality(Desk!Listed(request.search)))
    /\ request.stage \in {"counted", "listed"} =>
        /\ request.total >= 1 /\ request.number <= Desk!TotalPages(request.total)
        /\ Left(request.changes) \/ request.total <= Cardinality(Desk!Listed(request.search))
    /\ request.stage = "listed" => Left(request.changes) \/ request.listed # {}

PageFits ==
    page.view = "list" =>
        /\ Left(page.changes) \/ page.total <= Cardinality(Desk!Listed(page.search))
        /\ page.rows # {} => page.number <= Desk!TotalPages(page.total)

\* What was so during the request.
RequestRemembers ==
    /\ request.issued <= issued
    /\ \A u \in members \union request.listed : u \in request.present \/ u > request.issued
    /\ admins \subseteq request.held
    /\ Cardinality(request.listed) <= PerPage
    /\ request.present \subseteq members \/ Left(request.changes)

-----------------------------------------------------------------------------
\* The place of an account in the list, from 0.
Rank(search, u) == Cardinality(Desk!AheadOf(search, u))

\* Who was there all along, matches what is searched for, and has not been met.
Unmet(search, present, seen) == {u \in present : search = "" \/ u \in Matching} \ seen

\* Before the page is listed, whoever is unmet comes on it or on a later one.
Ahead(unmet) ==
    \A u \in unmet : Rank(request.search, u) >= (request.number - 1) * PerPage

\* Nobody has joined since the accounts of the last page were counted.
CountHolds ==
    request.stage = "counted" /\ request.number >= Desk!TotalPages(request.total)
        => Cardinality(Desk!Listed(request.search)) = request.total

\* Who is unmet and not among those listed comes on a later page.
Behind(unmet) ==
    request.stage = "listed" =>
        \A u \in unmet \ request.listed :
            /\ Rank(request.search, u) >= request.number * PerPage
            /\ request.number < Desk!TotalPages(request.total)

OnTheWay(present, seen) ==
    LET unmet == Unmet(request.search, present, seen) IN
        /\ request.stage # "listed" => Ahead(unmet)
        /\ CountHolds
        /\ Behind(unmet)

\* A walk begins on the first page of a list nobody has left, and goes on by its links.
RequestWalks ==
    /\ request.number = 1 \/ request.op # "list" => walk = NONE
    /\ walk # NONE => request.search = walk.search
    /\ request.op = "list" /\ request.search # "illegible" =>
        /\ request.number = 1 /\ request.changes \subseteq {"role"} => OnTheWay(request.present, {})
        /\ walk # NONE => OnTheWay(walk.present, walk.seen)

\* Whoever has not been met on the page in view comes on a later one, and there is one.
WalkGoesOn ==
    walk # NONE =>
        /\ walk.present \subseteq members
        /\ page.view \in {"nothing", "list"}
        /\ page.view = "nothing" => request # NONE
        /\ page.view = "list" =>
            /\ page.search = walk.search
            /\ walk.search # "illegible" =>
                \A u \in Unmet(walk.search, walk.present, walk.seen) :
                    /\ Desk!HasNext
                    /\ Rank(walk.search, u) >= page.number * PerPage

\* The inductive invariant.
Stands ==
    /\ Desk!TypeOK /\ Reader <= issued
    /\ request # NONE => Busy /\ RequestExplains /\ RequestFits /\ RequestRemembers /\ RequestWalks
    /\ PageExplains /\ PageFits /\ WalkGoesOn

\* Accounts of a set that come before one in the list.
Above(S, u) == {v \in S : v > u}

LEMMA Finite ==
    ASSUME NEW S \in SUBSET Desk!Users, NEW T \in SUBSET S
    PROVE  /\ IsFiniteSet(S) /\ Cardinality(S) \in Nat
           /\ IsFiniteSet(T) /\ Cardinality(T) \in Nat
           /\ Cardinality(T) <= Cardinality(S)
           /\ Cardinality(S) = 0 <=> S = {}
<1>1. IsFiniteSet(Desk!Users)
    BY FS_Interval, AdminUsersAssumption DEF Desk!Users
<1>2. IsFiniteSet(S)
    BY <1>1, FS_Subset
<1>3. IsFiniteSet(T) /\ Cardinality(T) <= Cardinality(S)
    BY <1>2, FS_Subset
<1>4. Cardinality(S) \in Nat /\ Cardinality(T) \in Nat
    BY <1>2, <1>3, FS_CardinalityType
<1>5. Cardinality(S) = 0 <=> S = {}
    BY <1>2, FS_EmptySet
<1> QED
    BY <1>2, <1>3, <1>4, <1>5

LEMMA IntervalSize ==
    ASSUME NEW n \in Nat
    PROVE  IsFiniteSet(0..(n - 1)) /\ Cardinality(0..(n - 1)) = n
<1>1. IsFiniteSet(0..(n - 1)) /\ Cardinality(0..(n - 1)) = IF 0 > n - 1 THEN 0 ELSE n - 1 - 0 + 1
    BY FS_Interval
<1> QED
    BY <1>1

\* Fewer come before an account than there are.
LEMMA RankBelow ==
    ASSUME NEW S \in SUBSET Desk!Users, NEW u \in S
    PROVE  Cardinality(Above(S, u)) \in 0..(Cardinality(S) - 1)
<1>1. Above(S, u) \in SUBSET (S \ {u}) /\ S \ {u} \in SUBSET Desk!Users
    BY DEF Above, Desk!Users
<1>2. Cardinality(Above(S, u)) \in Nat /\ Cardinality(Above(S, u)) <= Cardinality(S \ {u})
    BY <1>1, Finite
<1>3. IsFiniteSet(S) /\ Cardinality(S) \in Nat
    BY Finite
<1>4. Cardinality(S \ {u}) = Cardinality(S) - 1
    BY <1>3, FS_RemoveElement
<1> QED
    BY <1>2, <1>3, <1>4

\* No two accounts have the same place.
LEMMA RanksDiffer ==
    ASSUME NEW S \in SUBSET Desk!Users, NEW u \in S, NEW w \in S, u < w
    PROVE  Cardinality(Above(S, w)) < Cardinality(Above(S, u))
<1>1. /\ Above(S, w) \in SUBSET (Above(S, u) \ {w}) /\ w \in Above(S, u)
      /\ Above(S, u) \in SUBSET Desk!Users /\ Above(S, u) \ {w} \in SUBSET Desk!Users
  <2>1. \A v \in S : v \in Int
      BY AdminUsersAssumption DEF Desk!Users
  <2>2. \A v \in S : v > w => v > u /\ v # w
      BY <2>1
  <2> QED
      BY <2>1, <2>2 DEF Above
<1>2. IsFiniteSet(Above(S, u)) /\ Cardinality(Above(S, u)) \in Nat
      /\ Cardinality(Above(S, w)) \in Nat
      /\ Cardinality(Above(S, w)) <= Cardinality(Above(S, u) \ {w})
    BY <1>1, Finite
<1>3. Cardinality(Above(S, u) \ {w}) = Cardinality(Above(S, u)) - 1
    BY <1>1, <1>2, FS_RemoveElement
<1> QED
    BY <1>2, <1>3

\* The places of a list run from 0 without a gap.
LEMMA RankReached ==
    ASSUME NEW S \in SUBSET Desk!Users, NEW k \in Nat, k < Cardinality(S)
    PROVE  \E u \in S : Cardinality(Above(S, u)) = k
<1> DEFINE f == [u \in S |-> Cardinality(Above(S, u))]
           T == 0..(Cardinality(S) - 1)
<1>1. Cardinality(S) \in Nat
    BY Finite
<1>2. f \in [S -> T]
    BY RankBelow
<1>3. \A u, w \in S : u # w => f[u] # f[w]
  <2> TAKE u, w \in S
  <2> HAVE u # w
  <2>1. u < w \/ w < u
      BY DEF Desk!Users
  <2>2. Cardinality(Above(S, u)) \in Int /\ Cardinality(Above(S, w)) \in Int
      BY RankBelow, <1>1
  <2>3. Cardinality(Above(S, u)) # Cardinality(Above(S, w))
      BY <2>1, <2>2, RanksDiffer
  <2> QED
      BY <2>3
<1>4. f \in Injection(S, T)
    BY <1>2, <1>3 DEF Injection, IsInjective
<1>5. IsFiniteSet(T) /\ Cardinality(T) = Cardinality(S)
    BY <1>1, IntervalSize
<1>6. f \in Surjection(S, T)
    BY <1>4, <1>5, FS_Injection
<1>7. k \in T
    BY <1>1
<1>8. PICK u \in S : f[u] = k
    BY <1>6, <1>7 DEF Surjection
<1> QED
    BY <1>8

\* Whoever joins a list pushes others back, if anywhere.
LEMMA RankGrows ==
    ASSUME NEW S \in SUBSET Desk!Users, NEW T \in SUBSET S, NEW u
    PROVE  /\ Cardinality(Above(T, u)) \in Nat /\ Cardinality(Above(S, u)) \in Nat
           /\ Cardinality(Above(T, u)) <= Cardinality(Above(S, u))
<1>1. Above(T, u) \in SUBSET Above(S, u) /\ Above(S, u) \in SUBSET Desk!Users
    BY DEF Above
<1> QED
    BY <1>1, Finite

LEMMA Division ==
    ASSUME NEW k \in Nat, NEW s \in Nat, s > 0
    PROVE  k \div s \in Nat /\ (k \div s) * s <= k /\ k < (k \div s) * s + s
    OBVIOUS

\* A page has room for so many.
LEMMA PageHasRoom ==
    ASSUME NEW S \in SUBSET Desk!Users, NEW k \in Nat
    PROVE  LET shown == {u \in S : Cardinality(Above(S, u)) \div PerPage = k} IN
               Cardinality(shown) <= PerPage
<1> DEFINE shown == {u \in S : Cardinality(Above(S, u)) \div PerPage = k}
           f == [u \in shown |-> Cardinality(Above(S, u)) - k * PerPage]
           T == 0..(PerPage - 1)
<1>1. PerPage \in Nat /\ PerPage > 0
    BY AdminUsersAssumption
<1>2. ASSUME NEW u \in shown
      PROVE  Cardinality(Above(S, u)) \in Nat /\ Cardinality(Above(S, u)) - k * PerPage \in T
  <2>1. PICK c : c = Cardinality(Above(S, u))
      OBVIOUS
  <2>2. c \in Nat /\ c \div PerPage = k
      BY <2>1, RankGrows
  <2>3. k * PerPage <= c /\ c < k * PerPage + PerPage /\ k * PerPage \in Nat
      BY <1>1, <2>2, Division
  <2> QED
      BY <1>1, <2>1, <2>2, <2>3
<1>3. f \in [shown -> T]
    BY <1>2
<1>4. \A u, w \in shown : u # w => f[u] # f[w]
  <2> TAKE u, w \in shown
  <2> HAVE u # w
  <2>1. u < w \/ w < u
      BY DEF Desk!Users
  <2>2. Cardinality(Above(S, u)) \in Nat /\ Cardinality(Above(S, w)) \in Nat /\ k * PerPage \in Nat
      BY <1>1, <1>2
  <2>3. Cardinality(Above(S, u)) # Cardinality(Above(S, w))
      BY <2>1, <2>2, RanksDiffer
  <2> QED
      BY <2>2, <2>3
<1>5. f \in Injection(shown, T)
    BY <1>3, <1>4 DEF Injection, IsInjective
<1>6. IsFiniteSet(T) /\ Cardinality(T) = PerPage
    BY <1>1, IntervalSize
<1>7. Cardinality(shown) <= Cardinality(T)
    BY <1>5, <1>6, FS_Injection
<1> QED
    BY <1>6, <1>7

-----------------------------------------------------------------------------
LEMMA PagesOf ==
    ASSUME NEW t \in Nat
    PROVE  /\ Desk!TotalPages(t) \in Nat
           /\ t = 0 => Desk!TotalPages(t) = 0
           /\ t >= 1 => Desk!TotalPages(t) >= 1 /\ (t - 1) \div PerPage = Desk!TotalPages(t) - 1
<1>1. PerPage \in Nat /\ PerPage > 0
    BY AdminUsersAssumption
<1>2. ASSUME NEW s \in Nat, s > 0, NEW k \in Nat, k >= 1
      PROVE  (k + s - 1) \div s = ((k - 1) \div s) + 1
    BY <1>2
<1>3. ASSUME NEW s \in Nat, s > 0 PROVE (0 + s - 1) \div s = 0
    BY <1>3
<1>4. ASSUME t >= 1 PROVE (t - 1) \div PerPage \in Nat
    BY <1>1, <1>4, Division
<1> QED
    BY <1>1, <1>2, <1>3, <1>4 DEF Desk!TotalPages

LEMMA PagesGrow ==
    ASSUME NEW a \in Nat, NEW b \in Nat, a <= b
    PROVE  Desk!TotalPages(a) <= Desk!TotalPages(b)
<1>1. PerPage \in Nat /\ PerPage > 0
    BY AdminUsersAssumption
<1>2. ASSUME NEW s \in Nat, s > 0, NEW k \in Nat, NEW l \in Nat, k <= l
      PROVE  k \div s <= l \div s
    BY <1>2
<1>3. a + PerPage - 1 \in Nat /\ b + PerPage - 1 \in Nat /\ a + PerPage - 1 <= b + PerPage - 1
    BY <1>1
<1> QED
    BY <1>1, <1>2, <1>3 DEF Desk!TotalPages

\* A place on page k or behind it is on a page that is counted, and has k full pages before it.
LEMMA PlaceOnPage ==
    ASSUME NEW c \in Nat, NEW k \in Nat
    PROVE  /\ c \div PerPage >= k <=> c >= k * PerPage
           /\ c \div PerPage \in Nat
           /\ \A t \in Nat : c < t => c \div PerPage < Desk!TotalPages(t)
<1>1. PerPage \in Nat /\ PerPage > 0
    BY AdminUsersAssumption
<1>2. ASSUME NEW s \in Nat, s > 0, NEW i \in Nat, NEW j \in Nat
      PROVE  i \div s >= j <=> i >= j * s
    BY <1>2
<1>3. ASSUME NEW t \in Nat, c < t PROVE c \div PerPage < Desk!TotalPages(t)
  <2>1. ASSUME NEW s \in Nat, s > 0, NEW i \in Nat, NEW j \in Nat, i <= j
        PROVE  i \div s <= j \div s
      BY <2>1
  <2>2. t >= 1 /\ t - 1 \in Nat /\ c <= t - 1
      BY <1>3
  <2>3. c \div PerPage <= (t - 1) \div PerPage
      BY <1>1, <2>1, <2>2
  <2>4. (t - 1) \div PerPage = Desk!TotalPages(t) - 1 /\ Desk!TotalPages(t) \in Nat
      BY <2>2, PagesOf
  <2> QED
      BY <2>3, <2>4, <1>1, Division
<1> QED
    BY <1>1, <1>2, <1>3, Division

-----------------------------------------------------------------------------
LEMMA NoneIsNoRecord == NONE \notin Desk!Asked /\ NONE \notin Desk!Walked
<1>1. Desk!Asked = Asked /\ Desk!Walked = Walked
    BY DEF Asked, Walked, Ops, Searches, Unreadable, Changes,
           Desk!Asked, Desk!Walked, Desk!Ops, Desk!Searches, Desk!Unreadable, Desk!Changes
<1> QED
    BY <1>1, AdminUsersAssumption

LEMMA RequestIsTyped ==
    ASSUME Desk!TypeOK, request # NONE
    PROVE  /\ request \in Desk!Asked
           /\ request.op \in Desk!Ops
           /\ request.stage \in {"arrived", "resolved", "authorized", "counted", "listed", "found"}
           /\ request.search \in Desk!Searches /\ request.number \in Nat \union {Desk!Unreadable}
           /\ request.target \in Desk!Users \union {NONE} /\ request.total \in Nat
           /\ request.listed \in SUBSET Desk!Users
           /\ request.changes \in SUBSET Desk!Changes /\ request.offered \in SUBSET Desk!Changes
           /\ request.held \in SUBSET Desk!Users /\ request.present \in SUBSET Desk!Users
           /\ request.issued \in Desk!Users
    BY DEF Desk!TypeOK, Desk!Asked, Desk!Users

LEMMA AccountsAreNumbered ==
    ASSUME Desk!TypeOK
    PROVE  /\ issued \in Nat /\ issued <= MaxUsers /\ 1..issued \in SUBSET Desk!Users
           /\ members \in SUBSET Desk!Users /\ admins \in SUBSET Desk!Users
           /\ \A search : Desk!Listed(search) \in SUBSET members
<1>1. issued \in Nat /\ issued <= MaxUsers
    BY AdminUsersAssumption DEF Desk!TypeOK, Desk!Users
<1>2. 1..issued \in SUBSET Desk!Users
    BY <1>1, AdminUsersAssumption DEF Desk!Users
<1> QED
    BY <1>1, <1>2 DEF Desk!TypeOK, Desk!Listed

LEMMA BlankPage ==
    /\ Desk!Nothing \in Desk!Page
    /\ Desk!Nothing.view = "nothing" /\ Desk!Nothing.changes = {} /\ Desk!Nothing.search = ""
       /\ Desk!Nothing.rows = {}
    /\ Desk!Nothing.number = 0 /\ Desk!Nothing.total = 0 /\ Desk!Nothing.admin = FALSE
    BY DEF Desk!Nothing, Desk!Page, Desk!Searches, Desk!Changes

\* A request that arrives, from a page or by a redirect.
LEMMA ArrivalKeeps ==
    ASSUME Stands, NEW op \in Desk!Ops, NEW search \in Desk!Searches,
           NEW number \in Nat \union {Desk!Unreadable},
           NEW target \in Desk!Users \union {NONE}, NEW offered \in SUBSET Desk!Changes,
           request' = [op |-> op, stage |-> "arrived", search |-> search, number |-> number,
                       target |-> target, total |-> 0, listed |-> {}, changes |-> {},
                       offered |-> offered, held |-> admins', present |-> members,
                       issued |-> issued],
           page' = Desk!Nothing, issued' = issued, members' = members,
           admins' \in SUBSET (1..issued),
           Reader \notin members => "account" \in offered,
           op # "home" /\ Reader \notin admins' => Lost(offered),
           number >= 1 \/ offered = Desk!Changes,
           op \in {"grant", "revoke"} =>
               target \in 1..issued /\ number >= 1 /\ (target \notin members => Left(offered)),
           Left(offered) \/ number = 1
           \/ number <= Desk!TotalPages(Cardinality(Desk!Listed(search))),
           walk' = NONE \/
               (walk' = walk /\ op = "list" /\ page.view = "list" /\ number = page.number + 1
                   /\ search = page.search)
    PROVE  Stands' /\ request' # NONE
<1>1. PICK r : r = request'
    OBVIOUS
<1>2. /\ r.op = op /\ r.stage = "arrived" /\ r.search = search /\ r.number = number
      /\ r.target = target /\ r.total = 0 /\ r.listed = {} /\ r.changes = {}
      /\ r.offered = offered /\ r.held = admins' /\ r.present = members /\ r.issued = issued
    BY <1>1
<1>3. /\ issued \in Nat /\ issued <= MaxUsers /\ 1..issued \in SUBSET Desk!Users
      /\ members \in SUBSET Desk!Users /\ members \in SUBSET (1..issued) /\ issued \in Desk!Users
    BY AccountsAreNumbered DEF Stands, Desk!TypeOK
<1>4. r \in Desk!Asked
    BY <1>1, <1>3 DEF Desk!Asked, Desk!Users
<1>5. request' # NONE
    BY <1>1, <1>4, NoneIsNoRecord
<1>6. Desk!TypeOK'
    BY <1>1, <1>3, <1>4, BlankPage DEF Desk!TypeOK, Stands
<1>7. Busy'
    BY <1>1, <1>2 DEF Busy, Admitted
<1>8. RequestExplains'
    BY <1>1, <1>2 DEF RequestExplains, Admitted
<1>9. RequestFits'
    BY <1>1, <1>2 DEF RequestFits, Desk!Listed
<1>10. RequestRemembers'
  <2>1. Cardinality({}) <= PerPage
      BY FS_EmptySet, AdminUsersAssumption
  <2> QED
      BY <1>1, <1>2, <1>3, <2>1 DEF RequestRemembers
<1>11. WalkGoesOn'
    BY <1>5, BlankPage DEF WalkGoesOn, Stands
<1>12. RequestWalks'
  <2>1. walk # NONE /\ walk' = walk =>
            number # 1 /\ op = "list" /\ search = walk.search /\ number = page.number + 1
            /\ number >= 2 /\ number - 1 = page.number
    <3>1. page.view = "list" => page.number >= 1 /\ page.number \in Nat
        BY DEF Stands, Desk!TypeOK, Desk!Page, PageExplains
    <3> QED
        BY <3>1 DEF Stands, WalkGoesOn
  <2>2. (number = 1 \/ op # "list" => walk = NONE)'
      BY <2>1
  <2>3. walk' # NONE => search = walk'.search
      BY <2>1
  <2>4. ASSUME number = 1 PROVE OnTheWay(members, {})'
    <3>1. \A u : Cardinality(Desk!AheadOf(search, u)') >= 0
      <4>1. \A u : Desk!AheadOf(search, u)' \in SUBSET Desk!Users
          BY <1>3 DEF Desk!AheadOf, Desk!Listed
      <4>2. \A u : Cardinality(Desk!AheadOf(search, u)') \in Nat
          BY <4>1, Finite
      <4> QED
          BY <4>2
    <3>2. (number - 1) * PerPage = 0
        BY <2>4, AdminUsersAssumption
    <3> QED
        BY <3>1, <3>2, <1>1, <1>2 DEF OnTheWay, Ahead, CountHolds, Behind, Rank
  <2>5. ASSUME walk' # NONE, search # "illegible" PROVE OnTheWay(walk.present, walk.seen)'
    <3>1. \A u \in Unmet(search, walk.present, walk.seen) :
              Rank(search, u) >= (number - 1) * PerPage
        BY <2>1, <2>5 DEF Stands, WalkGoesOn
    <3>2. \A u : Rank(search, u)' = Rank(search, u)
        BY DEF Rank, Desk!AheadOf, Desk!Listed
    <3>3. walk' = walk
        BY <2>5
    <3>4. /\ request'.stage = "arrived" /\ request'.search = search /\ request'.number = number
        BY <1>1, <1>2
    <3>5. Ahead(Unmet(request.search, walk.present, walk.seen))'
        BY <3>1, <3>2, <3>3, <3>4 DEF Ahead, Unmet
    <3>6. /\ CountHolds'
          /\ Behind(Unmet(request.search, walk.present, walk.seen))'
        BY <3>4 DEF CountHolds, Behind
    <3> QED
        BY <3>5, <3>6 DEF OnTheWay
  <2> QED
      BY <1>1, <1>2, <2>1, <2>2, <2>3, <2>4, <2>5 DEF RequestWalks
<1>13. PageExplains' /\ PageFits'
    BY BlankPage DEF PageExplains, PageFits, ForAdmins
<1>14. (Reader <= issued)'
    BY DEF Stands
<1> QED
    BY <1>5, <1>6, <1>7, <1>8, <1>9, <1>10, <1>11, <1>12, <1>13, <1>14 DEF Stands

-----------------------------------------------------------------------------
\* What the answers of a step are promised to be.
DoorsTold ==
    (request # NONE /\ request' = NONE) =>
        /\ page'.view = "sign_in" => "account" \in request.offered
        /\ page'.view = "forbidden" => request.offered \intersect {"role", "account"} # {}
        /\ page'.view = "not_found" => request.offered \intersect {"members", "account"} # {}

LinksTold ==
    (request # NONE /\ request' = NONE /\ page'.view = "list"
        /\ "members" \notin request.offered /\ "account" \notin request.offered
        /\ page'.rows = {} /\ page'.search # "illegible")
      => request.number = 1 /\ page'.total = 0

RowsTold ==
    (request # NONE /\ request' = NONE /\ page'.view = "list") =>
        /\ Cardinality(page'.rows) <= PerPage
        /\ \A row \in page'.rows :
            /\ row.id \in request.present \/ row.id > request.issued
            /\ row.admin => row.id \in request.held

Told == DoorsTold /\ LinksTold /\ RowsTold

Good == Stands' /\ Told

LEMMA AnswerKeeps ==
    ASSUME Stands, NEW shown \in Desk!Page, Desk!Answer(shown), walk' \in Desk!Walked \union {NONE},
           PageExplains', PageFits', WalkGoesOn'
    PROVE  Stands'
    BY DEF Stands, Desk!Answer, Desk!TypeOK, Desk!world

LEMMA Says ==
    ASSUME Stands, NEW view \in {"sign_in", "forbidden", "not_found", "error"}, Desk!Say(view),
           view = "sign_in" => "account" \in request.offered,
           view = "forbidden" => Lost(request.offered),
           view = "not_found" => Left(request.offered)
    PROVE  Good
<1>1. PICK shown : shown = [Desk!Nothing EXCEPT !.view = view]
    OBVIOUS
<1>2. shown \in Desk!Page /\ shown.view = view
    BY <1>1 DEF Desk!Nothing, Desk!Page, Desk!Searches
<1>3. Desk!Answer(shown) /\ walk' = NONE /\ page' = shown /\ request' = NONE
    BY <1>1 DEF Desk!Say, Desk!Answer
<1>4. PageExplains' /\ PageFits' /\ WalkGoesOn'
    BY <1>2, <1>3 DEF PageExplains, PageFits, WalkGoesOn, ForAdmins
<1>5. Stands'
    BY <1>2, <1>3, <1>4, AnswerKeeps
<1>6. Told
    BY <1>2, <1>3 DEF Told, DoorsTold, LinksTold, RowsTold, Lost, Left
<1> QED
    BY <1>5, <1>6 DEF Good

LEMMA ShowHomeKeeps == ASSUME Stands, Desk!ShowHome PROVE Good
<1>1. request # NONE /\ request.stage = "resolved" /\ request.op = "home"
    BY DEF Desk!ShowHome, Desk!At
<1>2. PICK admin \in BOOLEAN : admin = (Reader \in admins)
  <2>1. (Reader \in admins) \in BOOLEAN
      OBVIOUS
  <2> QED
      BY <2>1, Zenon
<1>3. PICK shown : shown = [Desk!Nothing EXCEPT !.view = "home", !.admin = admin,
                                           !.changes = request.changes]
    OBVIOUS
<1>4. shown \in Desk!Page /\ shown.view = "home" /\ shown.admin = admin
      /\ shown.changes = request.changes
    BY <1>1, <1>3, RequestIsTyped DEF Desk!Nothing, Desk!Page, Desk!Searches, Stands
<1>5. Desk!Answer(shown) /\ walk' = NONE /\ page' = shown /\ request' = NONE
    BY <1>2, <1>3 DEF Desk!ShowHome, Desk!Answer, Desk!CanAccessAdmin
<1>6. members' = members /\ admins' = admins
    BY <1>5 DEF Desk!Answer, Desk!world
<1>7. PageFits' /\ WalkGoesOn'
    BY <1>4, <1>5 DEF PageFits, WalkGoesOn
<1>8. PageExplains'
  <2>1. Reader \notin members => "account" \in request.changes
      BY <1>1 DEF Stands, RequestExplains
  <2>2. Reader \notin admins => ~admin
      BY <1>2
  <2> QED
      BY <1>4, <1>5, <1>6, <2>1, <2>2 DEF PageExplains, ForAdmins
<1>9. Stands'
    BY <1>4, <1>5, <1>7, <1>8, AnswerKeeps
<1>10. Told
    BY <1>4, <1>5 DEF Told, DoorsTold, LinksTold, RowsTold
<1> QED
    BY <1>9, <1>10 DEF Good

LEMMA ShowHubKeeps == ASSUME Stands, Desk!ShowHub PROVE Good
<1>1. request # NONE /\ request.stage = "resolved" /\ request.op = "hub"
    BY DEF Desk!ShowHub, Desk!At
<1>2. CASE Reader \notin admins /\ Desk!Say("forbidden")
  <2>1. Lost(request.offered)
      BY <1>1, <1>2 DEF Stands, RequestExplains
  <2> QED
      BY <1>2, <2>1, Says
<1>3. CASE /\ Reader \in admins /\ walk' = NONE
           /\ Desk!Answer([Desk!Nothing EXCEPT !.view = "hub", !.changes = request.changes])
  <2>1. PICK shown : shown = [Desk!Nothing EXCEPT !.view = "hub", !.changes = request.changes]
      OBVIOUS
  <2>2. shown \in Desk!Page /\ shown.view = "hub" /\ shown.changes = request.changes
      BY <1>1, <2>1, RequestIsTyped DEF Desk!Nothing, Desk!Page, Desk!Searches, Stands
  <2>3. Desk!Answer(shown) /\ walk' = NONE /\ page' = shown /\ request' = NONE
      BY <1>3, <2>1 DEF Desk!Answer
  <2>4. members' = members /\ admins' = admins
      BY <2>3 DEF Desk!Answer, Desk!world
  <2>5. PageFits' /\ WalkGoesOn'
      BY <2>2, <2>3 DEF PageFits, WalkGoesOn
  <2>6. Reader \notin members => "account" \in request.changes
      BY <1>1 DEF Stands, RequestExplains
  <2>7. PageExplains'
      BY <1>3, <2>2, <2>3, <2>4, <2>6 DEF PageExplains
  <2>8. Stands'
      BY <2>2, <2>3, <2>5, <2>7, AnswerKeeps
  <2>9. Told
      BY <2>2, <2>3 DEF Told, DoorsTold, LinksTold, RowsTold
  <2> QED
      BY <2>8, <2>9 DEF Good
<1> QED
    BY <1>2, <1>3 DEF Desk!ShowHub, Desk!CanAccessAdmin

\* Who is unmet before a page of the list is shown is met on it or to be met behind it.
Onward(total, rows, present, seen) ==
    \A u \in Unmet(request.search, present, seen) :
        u \in {row.id : row \in rows} \/
            (request.number < Desk!TotalPages(total)
                /\ Rank(request.search, u) >= request.number * PerPage)

LEMMA ShowListKeeps ==
    ASSUME Stands, request # NONE, request.op = "list", request.stage # "arrived",
           NEW total \in Nat, NEW rows \in SUBSET Desk!Row, Desk!ShowList(total, rows),
           Reader \notin admins => Lost(request.changes),
           request.number >= 1,
           \A row \in rows :
               row.id \in 1..issued /\ (row.id \in members \/ Left(request.changes)),
           Left(request.changes) \/ total <= Cardinality(Desk!Listed(request.search)),
           rows # {} => request.number <= Desk!TotalPages(total),
           Left(request.offered) \/ rows # {} \/ request.search = "illegible"
               \/ (request.number = 1 /\ total = 0),
           Cardinality(rows) <= PerPage,
           \A row \in rows :
               /\ row.id \in request.present \/ row.id > request.issued
               /\ row.admin => row.id \in request.held,
           request.search # "illegible" =>
               /\ request.number = 1 /\ request.changes \subseteq {"role"}
                    => Onward(total, rows, request.present, {})
               /\ walk # NONE => Onward(total, rows, walk.present, walk.seen)
    PROVE  Good
<1>1. PICK shown : shown = [Desk!Nothing EXCEPT !.view = "list", !.search = request.search,
                              !.number = request.number, !.total = total, !.rows = rows,
                              !.changes = request.changes]
    OBVIOUS
<1>2. /\ shown.view = "list" /\ shown.search = request.search /\ shown.total = total
      /\ shown.number = request.number /\ shown.rows = rows /\ shown.changes = request.changes
    BY <1>1 DEF Desk!Nothing
<1>3. shown \in Desk!Page
  <2>1. /\ request.search \in Desk!Searches /\ request.number \in Nat
        /\ request.changes \in SUBSET Desk!Changes
      BY RequestIsTyped DEF Stands, Desk!Unreadable
  <2> QED
      BY <1>1, <2>1 DEF Desk!Nothing, Desk!Page
<1>4. Desk!Answer(shown) /\ page' = shown /\ request' = NONE
    BY <1>1 DEF Desk!ShowList, Desk!Answer
<1>5. members' = members /\ admins' = admins /\ issued' = issued
    BY <1>4 DEF Desk!Answer, Desk!world
<1>6. PageExplains'
  <2>1. Reader \notin members => "account" \in request.changes
      BY DEF Stands, RequestExplains
  <2> QED
      BY <1>2, <1>4, <1>5, <2>1 DEF PageExplains
<1>7. PageFits'
    BY <1>2, <1>4, <1>5 DEF PageFits, Desk!Listed
<1>8. PICK met : met = {row.id : row \in rows}
    OBVIOUS
<1>9. met \in SUBSET Desk!Users
    BY <1>8 DEF Desk!Row
<1>10. /\ \/ /\ request.number = 1 /\ request.changes \subseteq {"role"}
             /\ walk' = [seen |-> met, search |-> request.search, present |-> request.present]
          \/ /\ request.number # 1 /\ walk # NONE
             /\ walk' = [walk EXCEPT !.seen = @ \union met]
          \/ walk' = NONE
    BY <1>8, Zenon DEF Desk!ShowList
<1>12. ASSUME NEW present \in SUBSET Desk!Users, NEW seen \in SUBSET Desk!Users,
              walk' = [seen |-> seen \union met, search |-> request.search, present |-> present],
              present \subseteq members,
              request.search # "illegible" => Onward(total, rows, present, seen)
       PROVE  Stands'
  <2>1. walk'.seen = seen \union met /\ walk'.search = request.search /\ walk'.present = present
      BY <1>12
  <2>2. walk' \in Desk!Walked
    <3>1. request.search \in Desk!Searches
        BY RequestIsTyped DEF Stands
    <3> QED
        BY <1>9, <1>12, <3>1 DEF Desk!Walked, Desk!Users
  <2>3. PICK search : search = request.search
      OBVIOUS
  <2>4. ASSUME NEW u \in Unmet(search, present, seen \union met), search # "illegible"
        PROVE  request.number < Desk!TotalPages(total)
               /\ Rank(search, u) >= request.number * PerPage
    <3>1. u \in Unmet(search, present, seen) /\ u \notin met
        BY <2>4 DEF Unmet
    <3> QED
        BY <1>8, <1>12, <2>3, <2>4, <3>1 DEF Onward
  <2>5. \A u : Rank(search, u)' = Rank(search, u)
      BY <1>5 DEF Rank, Desk!AheadOf, Desk!Listed
  <2>6. Desk!HasNext' <=> request.number < Desk!TotalPages(total)
      BY <1>2, <1>4 DEF Desk!HasNext
  <2>7. page'.view = "list" /\ page'.search = walk'.search /\ page'.number = request.number
      BY <1>2, <1>4, <2>1
  <2>8. ASSUME walk'.search # "illegible",
               NEW u \in Unmet(search, present, seen \union met)
        PROVE  Desk!HasNext' /\ Rank(search, u)' >= page'.number * PerPage
      BY <2>1, <2>3, <2>4, <2>5, <2>6, <2>7, <2>8
  <2>9. WalkGoesOn'
    <3>1. \A u \in Unmet(walk.search, walk.present, walk.seen)' :
              u \in Unmet(search, present, seen \union met)
        BY <2>1, <2>3 DEF Unmet
    <3>2. \A u : Rank(walk.search, u)' = Rank(search, u)'
        BY <2>1, <2>3 DEF Rank, Desk!AheadOf, Desk!Listed
    <3> QED
        BY <1>5, <1>12, <2>1, <2>7, <2>8, <3>1, <3>2 DEF WalkGoesOn
  <2> QED
      BY <1>3, <1>4, <1>6, <1>7, <2>2, <2>9, AnswerKeeps
<1>13. Stands'
  <2>1. CASE /\ request.number = 1 /\ request.changes \subseteq {"role"}
             /\ walk' = [seen |-> met, search |-> request.search, present |-> request.present]
    <3>1. request.present \subseteq members
        BY <2>1 DEF Stands, RequestRemembers, Left
    <3>2. request.present \in SUBSET Desk!Users
        BY RequestIsTyped DEF Stands
    <3>3. request.search # "illegible" => Onward(total, rows, request.present, {})
        BY <2>1
    <3>4. {} \union met = met
        OBVIOUS
    <3>5. walk' = [seen |-> {} \union met, search |-> request.search, present |-> request.present]
        BY <2>1, <3>4
    <3> QED
        BY <1>12, <3>1, <3>2, <3>3, <3>5
  <2>2. CASE /\ request.number # 1 /\ walk # NONE
             /\ walk' = [walk EXCEPT !.seen = @ \union met]
    <3>1. walk \in Desk!Walked
        BY <2>2 DEF Stands, Desk!TypeOK
    <3>2. /\ walk.seen \in SUBSET Desk!Users /\ walk.present \in SUBSET Desk!Users
          /\ walk' = [seen |-> walk.seen \union met, search |-> walk.search,
                      present |-> walk.present]
        BY <2>2, <3>1 DEF Desk!Walked, Desk!Users
    <3>3. walk.search = request.search /\ walk.present \subseteq members
        BY <2>2 DEF Stands, RequestWalks, WalkGoesOn
    <3>4. request.search # "illegible" => Onward(total, rows, walk.present, walk.seen)
        BY <2>2
    <3> QED
        BY <1>12, <3>2, <3>3, <3>4
  <2>3. CASE walk' = NONE
    <3>1. WalkGoesOn'
        BY <2>3 DEF WalkGoesOn
    <3> QED
        BY <1>3, <1>4, <1>6, <1>7, <2>3, <3>1, AnswerKeeps
  <2> QED
      BY <1>10, <2>1, <2>2, <2>3
<1>14. Told
  <2>1. DoorsTold
      BY <1>2, <1>4 DEF DoorsTold
  <2>2. LinksTold
      BY <1>2, <1>4 DEF LinksTold, Left
  <2>3. RowsTold
      BY <1>2, <1>4 DEF RowsTold
  <2> QED
      BY <2>1, <2>2, <2>3 DEF Told
<1> QED
    BY <1>13, <1>14 DEF Good

-----------------------------------------------------------------------------
\* Who is unmet and not among those listed comes on a later page.
OthersAreBehind(total, listed) ==
    \A present, seen :
        OnTheWay(present, seen) /\ request.search # "illegible" /\ present \subseteq members
          => \A u \in Unmet(request.search, present, seen) \ listed :
                 /\ Rank(request.search, u) >= request.number * PerPage
                 /\ request.number < Desk!TotalPages(total)

\* A request that goes on has read something more.
LEMMA ReadsKeep ==
    ASSUME Stands, request # NONE,
           NEW stage \in {"resolved", "authorized", "counted", "listed", "found"},
           NEW total \in Nat, NEW listed \in SUBSET Desk!Users,
           request' = [request EXCEPT !.stage = stage, !.total = total, !.listed = listed],
           UNCHANGED <<Desk!world, page, walk>>,
           Reader \notin members => "account" \in request.changes,
           stage \in Admitted =>
               /\ request.op \in {"list", "grant", "revoke"} /\ request.number >= 1
               /\ Reader \notin admins => Lost(request.changes),
           stage = "found" => request.op \in {"grant", "revoke"},
           stage \in {"counted", "listed"} =>
               /\ request.op = "list" /\ total >= 1 /\ request.number <= Desk!TotalPages(total)
               /\ Left(request.changes) \/ total <= Cardinality(Desk!Listed(request.search)),
           stage = "counted" => total = Cardinality(Desk!Listed(request.search)),
           stage = "listed" => Left(request.changes) \/ listed # {},
           listed \subseteq members \/ (listed = request.listed),
           Cardinality(listed) <= PerPage,
           stage # "listed" => request.stage # "listed",
           stage = "listed" => OthersAreBehind(total, listed)
    PROVE  Stands' /\ request' # NONE
<1>1. request \in Desk!Asked
    BY RequestIsTyped DEF Stands
<1>2. PICK r : r = request'
    OBVIOUS
<1>3. /\ r.op = request.op /\ r.stage = stage /\ r.search = request.search
      /\ r.number = request.number /\ r.target = request.target /\ r.total = total
      /\ r.listed = listed /\ r.changes = request.changes /\ r.offered = request.offered
      /\ r.held = request.held /\ r.present = request.present /\ r.issued = request.issued
    BY <1>1, <1>2 DEF Desk!Asked
<1>4. r \in Desk!Asked
    BY <1>1, <1>2 DEF Desk!Asked, Desk!Users
<1>5. request' # NONE
    BY <1>2, <1>4, NoneIsNoRecord
<1>6. /\ issued' = issued /\ members' = members /\ admins' = admins
      /\ page' = page /\ walk' = walk
    BY DEF Desk!world
<1>7. Desk!TypeOK'
    BY <1>2, <1>4, <1>6 DEF Desk!TypeOK, Stands
<1>8. Busy'
    BY <1>2, <1>3, <1>6 DEF Busy, Admitted, Stands
<1>9. RequestExplains'
    BY <1>2, <1>3, <1>6 DEF RequestExplains, Stands, Desk!TypeOK
<1>10. RequestFits'
  <2>1. \A search : Desk!Listed(search)' = Desk!Listed(search)
      BY <1>6 DEF Desk!Listed
  <2> QED
      BY <1>2, <1>3, <1>6, <2>1 DEF RequestFits, Stands, Desk!Listed
<1>11. RequestRemembers'
    BY <1>2, <1>3, <1>6 DEF RequestRemembers, Stands
<1>12. PageExplains' /\ PageFits'
    BY <1>6 DEF PageExplains, PageFits, Stands, Desk!Listed
<1>13. PICK search : search = request.search
    OBVIOUS
<1>14. /\ \A u : Rank(search, u)' = Rank(search, u)
       /\ Desk!Listed(search)' = Desk!Listed(search)
    BY <1>6 DEF Rank, Desk!AheadOf, Desk!Listed
<1>15. WalkGoesOn'
  <2>1. WalkGoesOn
      BY DEF Stands
  <2>2. \A u : Rank(walk.search, u)' = Rank(walk.search, u)
      BY <1>6 DEF Rank, Desk!AheadOf, Desk!Listed
  <2> QED
      BY <2>1, <2>2, <1>5, <1>6 DEF WalkGoesOn, Desk!HasNext
<1>16. ASSUME NEW present, NEW seen, present \subseteq members, search # "illegible",
              OnTheWay(present, seen)
       PROVE  OnTheWay(present, seen)'
  <2>1. PICK unmet : unmet = Unmet(search, present, seen)
      OBVIOUS
  <2>2. (stage # "listed" => Ahead(unmet))'
    <3>1. stage # "listed" => Ahead(unmet)
        BY <1>13, <1>16, <2>1 DEF OnTheWay
    <3> QED
        BY <3>1, <1>2, <1>3, <1>13, <1>14 DEF Ahead
  <2>3. CountHolds'
      BY <1>2, <1>3, <1>13, <1>14 DEF CountHolds, Desk!Listed
  <2>4. Behind(unmet)'
    <3>1. stage = "listed" =>
              \A u \in unmet \ listed : /\ Rank(search, u) >= request.number * PerPage
                                        /\ request.number < Desk!TotalPages(total)
        BY <1>13, <1>16, <2>1 DEF OthersAreBehind
    <3> QED
        BY <3>1, <1>2, <1>3, <1>13, <1>14 DEF Behind
  <2> QED
      BY <1>2, <1>3, <1>13, <2>1, <2>2, <2>3, <2>4 DEF OnTheWay
<1>17. RequestWalks'
  <2>1. request.number = 1
        /\ request.changes \subseteq {"role"} => request.present \subseteq members
      BY DEF Stands, RequestRemembers, Left
  <2>2. walk # NONE => walk.present \subseteq members
      BY DEF Stands, WalkGoesOn
  <2>3. request.op = "list" /\ search # "illegible" /\ request.number = 1
          /\ request.changes \subseteq {"role"} => OnTheWay(request.present, {})
      BY <1>13 DEF Stands, RequestWalks
  <2>4. request.op = "list" /\ search # "illegible" /\ walk # NONE
          => OnTheWay(walk.present, walk.seen)
      BY <1>13 DEF Stands, RequestWalks
  <2>5. PICK p, s, t : p = request.present /\ s = walk.present /\ t = walk.seen
      OBVIOUS
  <2>6. request.op = "list" /\ search # "illegible" /\ request.number = 1
          /\ request.changes \subseteq {"role"} => OnTheWay(p, {})'
      BY <1>16, <2>1, <2>3, <2>5
  <2>7. request.op = "list" /\ search # "illegible" /\ walk # NONE => OnTheWay(s, t)'
      BY <1>16, <2>2, <2>4, <2>5
  <2>8. r.present = p /\ walk'.present = s /\ walk'.seen = t
      BY <1>3, <1>6, <2>5
  <2>9. \A x, y : (x = p /\ OnTheWay(p, {})' => OnTheWay(x, {})')
                  /\ (x = s /\ y = t /\ OnTheWay(s, t)' => OnTheWay(x, y)')
      OBVIOUS
  <2>10. request.op = "list" /\ search # "illegible" /\ request.number = 1
          /\ request.changes \subseteq {"role"} => OnTheWay(request.present, {})'
      BY <1>2, <2>6, <2>8, <2>9
  <2>11. request.op = "list" /\ search # "illegible" /\ walk # NONE
          => OnTheWay(walk.present, walk.seen)'
      BY <2>7, <2>8, <2>9
  <2> QED
      BY <1>2, <1>3, <1>6, <1>13, <2>10, <2>11 DEF RequestWalks, Stands
<1>18. (Reader <= issued)'
    BY <1>6 DEF Stands
<1> QED
    BY <1>5, <1>7, <1>8, <1>9, <1>10, <1>11, <1>12, <1>15, <1>17, <1>18 DEF Stands

LEMMA StageKeeps ==
    ASSUME Stands, request # NONE, NEW stage \in {"resolved", "authorized", "found"},
           Desk!Reads([request EXCEPT !.stage = stage]),
           request.stage \notin {"counted", "listed"},
           Reader \notin members => "account" \in request.changes,
           stage \in Admitted =>
               /\ request.op \in {"list", "grant", "revoke"} /\ request.number >= 1
               /\ Reader \notin admins => Lost(request.changes),
           stage = "found" => request.op \in {"grant", "revoke"}
    PROVE  Good
<1>1. request \in Desk!Asked /\ request.total \in Nat /\ request.listed \in SUBSET Desk!Users
    BY RequestIsTyped DEF Stands
<1>2. request' = [request EXCEPT !.stage = stage, !.total = request.total,
                                 !.listed = request.listed]
    BY <1>1 DEF Desk!Reads, Desk!Asked
<1>3. Cardinality(request.listed) <= PerPage
    BY DEF Stands, RequestRemembers
<1>4. UNCHANGED <<Desk!world, page, walk>>
    BY DEF Desk!Reads
<1>5. /\ stage \in {"resolved", "authorized", "counted", "listed", "found"}
      /\ stage # "counted" /\ stage # "listed" /\ stage \notin {"counted", "listed"}
      /\ request.stage # "listed"
    OBVIOUS
<1>6. PICK total \in Nat, listed \in SUBSET Desk!Users :
          total = request.total /\ listed = request.listed
    BY <1>1
<1>7. request' = [request EXCEPT !.stage = stage, !.total = total, !.listed = listed]
    BY <1>2, <1>6
<1>8. Stands' /\ request' # NONE
    BY <1>3, <1>4, <1>5, <1>6, <1>7, ReadsKeep
<1> QED
    BY <1>8 DEF Good, Told, DoorsTold, LinksTold, RowsTold

LEMMA ResolveReaderKeeps == ASSUME Stands, Desk!ResolveReader PROVE Good
<1>1. request # NONE /\ request.stage = "arrived"
    BY DEF Desk!ResolveReader, Desk!At
<1>2. CASE Reader \notin members /\ Desk!Say("sign_in")
  <2>1. "account" \in request.offered
      BY <1>1, <1>2 DEF Stands, RequestExplains
  <2> QED
      BY <1>2, <2>1, Says
<1>3. CASE Reader \in members /\ Desk!Reads([request EXCEPT !.stage = "resolved"])
    BY <1>1, <1>3, StageKeeps DEF Admitted
<1> QED
    BY <1>2, <1>3 DEF Desk!ResolveReader

LEMMA AuthorizeWriteKeeps == ASSUME Stands, Desk!AuthorizeWrite PROVE Good
<1>1. request # NONE /\ request.stage = "resolved" /\ request.op \in {"grant", "revoke"}
    BY DEF Desk!AuthorizeWrite, Desk!At
<1>2. CASE Reader \notin admins /\ Desk!Say("forbidden")
  <2>1. Lost(request.offered)
      BY <1>1, <1>2 DEF Stands, RequestExplains
  <2> QED
      BY <1>2, <2>1, Says
<1>3. CASE Reader \in admins /\ Desk!Reads([request EXCEPT !.stage = "authorized"])
  <2>1. Reader \notin members => "account" \in request.changes
      BY <1>1 DEF Stands, RequestExplains
  <2>2. request.number >= 1
      BY <1>1 DEF Stands, Busy
  <2> QED
      BY <1>1, <1>3, <2>1, <2>2, StageKeeps
<1> QED
    BY <1>2, <1>3 DEF Desk!AuthorizeWrite, Desk!CanAccessAdmin

LEMMA FindTargetKeeps == ASSUME Stands, Desk!FindTarget PROVE Good
<1>1. request # NONE /\ request.stage = "authorized" /\ request.op \in {"grant", "revoke"}
    BY DEF Desk!FindTarget, Desk!At
<1>2. CASE request.target \notin members /\ Desk!Say("not_found")
  <2>1. Left(request.offered)
      BY <1>1, <1>2 DEF Stands, RequestExplains
  <2> QED
      BY <1>2, <2>1, Says
<1>3. CASE Desk!Reads([request EXCEPT !.stage = "found"])
  <2>1. /\ Reader \notin members => "account" \in request.changes
        /\ Reader \notin admins => Lost(request.changes)
        /\ request.number >= 1
      BY <1>1 DEF Stands, RequestExplains, Busy, Admitted
  <2> QED
      BY <1>1, <1>3, <2>1, StageKeeps
<1> QED
    BY <1>2, <1>3 DEF Desk!FindTarget

LEMMA FailKeeps == ASSUME Stands, Desk!Fail PROVE Good
    BY Says DEF Desk!Fail

-----------------------------------------------------------------------------
LEMMA AuthorizeListKeeps == ASSUME Stands, Desk!AuthorizeList PROVE Good
<1>1. request # NONE /\ request.stage = "resolved" /\ request.op = "list"
    BY DEF Desk!AuthorizeList, Desk!At
<1>2. /\ Reader \notin members => "account" \in request.changes
      /\ Reader \notin admins => Lost(request.offered)
      /\ request.number >= 1 \/ request.offered = Desk!Changes
    BY <1>1 DEF Stands, RequestExplains
<1>3. ASSUME Desk!Say("not_found"), ~(request.number >= 1) PROVE Good
  <2>1. Left(request.offered)
      BY <1>2, <1>3 DEF Left, Desk!Changes
  <2> QED
      BY <1>3, <2>1, Says
<1>4. ASSUME Desk!Say("forbidden"), Reader \notin admins PROVE Good
    BY <1>2, <1>4, Says
<1>5. ASSUME Reader \in admins, request.number >= 1, request.search = "illegible",
             Desk!ShowList(0, {})
      PROVE  Good
  <2>1. Cardinality({}) <= PerPage
      BY FS_EmptySet, AdminUsersAssumption
  <2>2. Cardinality(Desk!Listed(request.search)) \in Nat
      BY AccountsAreNumbered, Finite DEF Stands
  <2>3. {} \in SUBSET Desk!Row /\ 0 \in Nat
      OBVIOUS
  <2>4. 0 <= Cardinality(Desk!Listed(request.search))
      BY <2>2
  <2> QED
      BY <1>1, <1>5, <2>1, <2>3, <2>4, ShowListKeeps
<1>6. ASSUME Reader \in admins, request.number >= 1,
             Desk!Reads([request EXCEPT !.stage = "authorized"])
      PROVE  Good
    BY <1>1, <1>2, <1>6, StageKeeps
<1> QED
    BY <1>3, <1>4, <1>5, <1>6 DEF Desk!AuthorizeList, Desk!CanAccessAdmin, Desk!Unreadable

\* Whoever is unmet is on the list, as long as nobody has left.
LEMMA UnmetHasPlace ==
    ASSUME Stands, NEW search, NEW present, NEW seen, present \subseteq members,
           NEW u \in Unmet(search, present, seen)
    PROVE  /\ u \in Desk!Listed(search)
           /\ Rank(search, u) \in Nat
           /\ Cardinality(Desk!Listed(search)) \in Nat
           /\ Rank(search, u) < Cardinality(Desk!Listed(search))
<1>1. u \in Desk!Listed(search)
    BY DEF Unmet, Desk!Listed
<1>2. Desk!Listed(search) \in SUBSET Desk!Users
    BY AccountsAreNumbered DEF Stands
<1>3. Rank(search, u) = Cardinality(Above(Desk!Listed(search), u))
    BY DEF Rank, Desk!AheadOf, Above
<1>4. Cardinality(Desk!Listed(search)) \in Nat
    BY <1>2, Finite
<1>5. Cardinality(Above(Desk!Listed(search), u)) \in 0..(Cardinality(Desk!Listed(search)) - 1)
    BY <1>1, <1>2, RankBelow
<1> QED
    BY <1>1, <1>3, <1>4, <1>5

\* What a request for a page of the list has read by the time it has been admitted.
LEMMA AdmittedToList ==
    ASSUME Stands, request # NONE, request.op = "list", request.stage \in Admitted
    PROVE  /\ request.number \in Nat /\ request.number >= 1
           /\ request.search \in Desk!Searches /\ request.changes \subseteq request.offered
           /\ Reader \notin members => "account" \in request.changes
           /\ Reader \notin admins => Lost(request.changes)
           /\ Left(request.changes) => Left(request.offered)
           /\ request.number = 1 /\ request.changes \subseteq {"role"}
                => request.present \subseteq members
           /\ walk # NONE => walk.present \subseteq members
<1>1. /\ request.number \in Nat \union {Desk!Unreadable} /\ request.search \in Desk!Searches
    BY RequestIsTyped DEF Stands
<1>2. request.number >= 1 /\ request.number \in Nat
    BY <1>1 DEF Stands, Busy, Desk!Unreadable
<1>3. /\ request.changes \subseteq request.offered
      /\ Reader \notin members => "account" \in request.changes
      /\ Reader \notin admins => Lost(request.changes)
    BY DEF Stands, RequestExplains, Admitted
<1>4. request.number = 1 /\ request.changes \subseteq {"role"}
                => request.present \subseteq members
    BY DEF Stands, RequestRemembers, Left
<1>5. walk # NONE => walk.present \subseteq members
    BY DEF Stands, WalkGoesOn
<1> QED
    BY <1>1, <1>2, <1>3, <1>4, <1>5 DEF Left

LEMMA CountUsersKeeps == ASSUME Stands, Desk!CountUsers PROVE Good
<1>1. request # NONE /\ request.stage = "authorized" /\ request.op = "list"
    BY DEF Desk!CountUsers, Desk!At
<1>2. PICK n \in Nat, search \in Desk!Searches : n = request.number /\ search = request.search
    BY <1>1, AdmittedToList DEF Admitted
<1>3. /\ n >= 1
      /\ Left(request.changes) => Left(request.offered)
      /\ Reader \notin members => "account" \in request.changes
      /\ Reader \notin admins => Lost(request.changes)
    BY <1>1, <1>2, AdmittedToList DEF Admitted
<1>4. PICK total \in Nat : total = Cardinality(Desk!Listed(search))
    BY AccountsAreNumbered, Finite DEF Stands
<1>5. /\ total = 0 => Desk!TotalPages(total) = 0
      /\ total >= 1 => Desk!TotalPages(total) >= 1
         /\ (total - 1) \div PerPage = Desk!TotalPages(total) - 1
      /\ Desk!TotalPages(total) \in Nat
    BY PagesOf
<1>6. Left(request.offered) \/ n = 1 \/ n <= Desk!TotalPages(total)
    BY <1>1, <1>2, <1>4 DEF Stands, RequestFits
<1>7. ASSUME NEW present, NEW seen, NEW u \in Unmet(search, present, seen),
             present \subseteq members, OnTheWay(present, seen)
      PROVE  total >= 1 /\ n <= Desk!TotalPages(total)
  <2>1. /\ Rank(search, u) \in Nat /\ Rank(search, u) < total
      BY <1>4, <1>7, UnmetHasPlace
  <2>2. Rank(search, u) >= (n - 1) * PerPage
      BY <1>1, <1>2, <1>7 DEF OnTheWay, Ahead
  <2>3. n - 1 \in Nat
      BY <1>3
  <2>4. Rank(search, u) \div PerPage >= n - 1 /\ Rank(search, u) \div PerPage \in Nat
        /\ Rank(search, u) \div PerPage < Desk!TotalPages(total)
      BY <2>1, <2>2, <2>3, PlaceOnPage
  <2>5. PICK c, q,
             pages : c = Rank(search, u) /\ q = c \div PerPage /\ pages = Desk!TotalPages(total)
      OBVIOUS
  <2>6. c \in Nat /\ c < total /\ q >= n - 1 /\ q \in Nat /\ q < pages /\ pages \in Nat
      BY <1>5, <2>1, <2>4, <2>5
  <2>7. total >= 1 /\ n <= pages
      BY <2>3, <2>6
  <2> QED
      BY <2>5, <2>7
<1>8. CASE total = 0 \/ n - 1 > (total - 1) \div PerPage
  <2>1. Desk!ShowList(total, {})
      BY <1>1, <1>2, <1>4, <1>8, SameNumber DEF Desk!CountUsers
  <2>2. ~(total >= 1 /\ n <= Desk!TotalPages(total))
      BY <1>3, <1>5, <1>8
  <2>3. Left(request.offered) \/ (n = 1 /\ total = 0)
      BY <1>3, <1>5, <1>6, <2>2
  <2>4. Cardinality({}) <= PerPage /\ {} \in SUBSET Desk!Row
      BY FS_EmptySet, AdminUsersAssumption
  <2>5. ASSUME NEW present, NEW seen, present \subseteq members, OnTheWay(present, seen)
        PROVE  Onward(total, {}, present, seen)
      BY <1>2, <1>7, <2>2, <2>5 DEF Onward
  <2>6. search # "illegible" =>
               /\ n = 1 /\ request.changes \subseteq {"role"}
                    => Onward(total, {}, request.present, {})
               /\ walk # NONE => Onward(total, {}, walk.present, walk.seen)
    <3>1. /\ n = 1 /\ request.changes \subseteq {"role"} => request.present \subseteq members
          /\ walk # NONE => walk.present \subseteq members
        BY <1>1, <1>2, AdmittedToList DEF Admitted
    <3>2. search # "illegible" =>
            /\ n = 1 /\ request.changes \subseteq {"role"} => OnTheWay(request.present, {})
            /\ walk # NONE => OnTheWay(walk.present, walk.seen)
        BY <1>1, <1>2 DEF Stands, RequestWalks
    <3> QED
        BY <2>5, <3>1, <3>2
  <2>7. total <= Cardinality(Desk!Listed(request.search))
      BY <1>2, <1>4
  <2>8. /\ request.op = "list" /\ request.stage # "arrived" /\ request.number >= 1
        /\ \A row \in {} : row.id \in 1..issued /\ (row.id \in members \/ Left(request.changes))
        /\ \A row \in {} : /\ row.id \in request.present \/ row.id > request.issued
                          /\ row.admin => row.id \in request.held
        /\ Left(request.offered) \/ (request.number = 1 /\ total = 0)
      BY <1>1, <1>2, <1>3, <2>3
  <2>9. request.search # "illegible" =>
               /\ request.number = 1 /\ request.changes \subseteq {"role"}
                    => Onward(total, {}, request.present, {})
               /\ walk # NONE => Onward(total, {}, walk.present, walk.seen)
      BY <1>2, <2>6
  <2> QED
      BY <1>1, <1>3, <2>1, <2>4, <2>7, <2>8, <2>9, ShowListKeeps
<1>9. CASE ~(total = 0 \/ n - 1 > (total - 1) \div PerPage)
  <2>1. Desk!Reads([request EXCEPT !.stage = "counted", !.total = total])
      BY <1>1, <1>2, <1>4, <1>9, SameNumber DEF Desk!CountUsers
  <2>2. total >= 1 /\ n <= Desk!TotalPages(total)
      BY <1>3, <1>5, <1>9
  <2>3. PICK listed \in SUBSET Desk!Users : listed = request.listed
      BY <1>1, RequestIsTyped DEF Stands
  <2>4. request' = [request EXCEPT !.stage = "counted", !.total = total, !.listed = listed]
      BY <1>1, <2>1, <2>3, RequestIsTyped DEF Desk!Reads, Desk!Asked, Stands
  <2>5. UNCHANGED <<Desk!world, page, walk>>
      BY <2>1 DEF Desk!Reads
  <2>6. Cardinality(listed) <= PerPage
      BY <1>1, <2>3 DEF Stands, RequestRemembers
  <2>7. total = Cardinality(Desk!Listed(request.search))
        /\ total <= Cardinality(Desk!Listed(request.search))
      BY <1>2, <1>4
  <2>8. request.op \in {"list", "grant", "revoke"} /\ request.number >= 1
        /\ request.number <= Desk!TotalPages(total)
      BY <1>1, <1>2, <1>3, <2>2
  <2>9. Stands' /\ request' # NONE
      BY <1>1, <1>3, <2>2, <2>3, <2>4, <2>5, <2>6, <2>7, <2>8, ReadsKeep
  <2> QED
      BY <2>9 DEF Good, Told, DoorsTold, LinksTold, RowsTold
<1> QED
    BY <1>8, <1>9

LEMMA ListUsersKeeps == ASSUME Stands, Desk!ListUsers PROVE Good
<1>1. request # NONE /\ request.stage = "counted" /\ request.op = "list"
    BY DEF Desk!ListUsers, Desk!At
<1>2. PICK n \in Nat, search \in Desk!Searches : n = request.number /\ search = request.search
    BY <1>1, AdmittedToList DEF Admitted
<1>3. /\ n >= 1 /\ n - 1 \in Nat
      /\ Reader \notin members => "account" \in request.changes
      /\ Reader \notin admins => Lost(request.changes)
    BY <1>1, <1>2, AdmittedToList DEF Admitted
<1>4. PICK S \in SUBSET Desk!Users : S = Desk!Listed(search)
    BY AccountsAreNumbered DEF Stands
<1>5. \A u : Rank(search, u) = Cardinality(Above(S, u))
    BY <1>4 DEF Rank, Desk!AheadOf, Above
<1>6. PICK listed : listed = {u \in S : Cardinality(Above(S, u)) \div PerPage = n - 1}
    OBVIOUS
<1>7. listed \in SUBSET Desk!Users /\ listed \subseteq members /\ Cardinality(listed) <= PerPage
  <2>1. Cardinality(listed) <= PerPage
      BY <1>3, <1>6, PageHasRoom
  <2> QED
      BY <1>4, <1>6, <2>1 DEF Desk!Listed
<1>8. PICK total \in Nat : total = request.total
    BY <1>1, RequestIsTyped DEF Stands
<1>9. /\ total >= 1 /\ n <= Desk!TotalPages(total)
      /\ Left(request.changes) \/ total <= Cardinality(S)
    BY <1>1, <1>2, <1>4, <1>8 DEF Stands, RequestFits
<1>10. Cardinality(S) \in Nat /\ Desk!TotalPages(total) \in Nat
       /\ (total - 1) \div PerPage = Desk!TotalPages(total) - 1
    BY <1>9, PagesOf, Finite
<1>11. ASSUME total <= Cardinality(S) PROVE listed # {}
  <2>1. PerPage \in Nat /\ PerPage > 0
      BY AdminUsersAssumption
  <2>2. (n - 1) * PerPage <= total - 1 /\ (n - 1) * PerPage \in Nat
    <3>1. total - 1 \in Nat /\ (total - 1) \div PerPage >= n - 1
        BY <1>9, <1>10
    <3> QED
        BY <1>3, <2>1, <3>1, PlaceOnPage
  <2>3. PICK u \in S : Cardinality(Above(S, u)) = (n - 1) * PerPage
      BY <1>10, <1>11, <2>2, RankReached
  <2>4. ((n - 1) * PerPage) \div PerPage = n - 1
    <3>1. ASSUME NEW k \in Nat, NEW s \in Nat, s > 0 PROVE (k * s) \div s = k
        BY <3>1
    <3> QED
        BY <1>3, <2>1, <3>1
  <2> QED
      BY <1>6, <2>3, <2>4
<1>12. OthersAreBehind(total, listed)
  <2> SUFFICES ASSUME NEW present, NEW seen, OnTheWay(present, seen), present \subseteq members,
                      NEW u \in Unmet(search, present, seen), u \notin listed
               PROVE  Rank(search, u) >= n * PerPage /\ n < Desk!TotalPages(total)
      BY <1>2 DEF OthersAreBehind
  <2>1. /\ u \in S /\ Rank(search, u) \in Nat /\ Rank(search, u) < Cardinality(S)
      BY <1>4, UnmetHasPlace
  <2>2. Rank(search, u) >= (n - 1) * PerPage
      BY <1>1, <1>2 DEF OnTheWay, Ahead
  <2>3. PICK c \in Nat : c = Rank(search, u)
      BY <2>1
  <2>4. c \div PerPage >= n - 1 /\ c \div PerPage \in Nat
      BY <1>3, <2>2, <2>3, PlaceOnPage
  <2>5. c \div PerPage # n - 1
      BY <1>5, <1>6, <2>1, <2>3
  <2>6. c \div PerPage >= n
      BY <2>4, <2>5
  <2>7. c >= n * PerPage
      BY <2>3, <2>6, PlaceOnPage
  <2>8. n < Desk!TotalPages(total)
    <3>1. SUFFICES ASSUME n >= Desk!TotalPages(total) PROVE FALSE
        BY <1>10
    <3>2. Cardinality(S) = total
        BY <1>1, <1>2, <1>4, <1>8, <3>1 DEF OnTheWay, CountHolds
    <3>3. c \div PerPage < Desk!TotalPages(total)
        BY <2>1, <2>3, <3>2, PlaceOnPage
    <3>4. PICK q, pages : q = c \div PerPage /\ pages = Desk!TotalPages(total)
        OBVIOUS
    <3>5. q \in Nat /\ pages \in Nat /\ q >= n /\ q < pages /\ n >= pages
        BY <1>10, <2>4, <2>6, <3>1, <3>3, <3>4
    <3> QED
        BY <3>5
  <2> QED
      BY <2>3, <2>7, <2>8
<1>13. Desk!Reads([request EXCEPT !.stage = "listed", !.listed = listed])
  <2>1. listed = {u \in Desk!Listed(request.search) :
                    Cardinality(Desk!AheadOf(request.search, u)) \div PerPage = request.number - 1}
      BY <1>2, <1>4, <1>5, <1>6 DEF Rank
  <2> QED
      BY <2>1, SameNumber DEF Desk!ListUsers
<1>14. request' = [request EXCEPT !.stage = "listed", !.total = total, !.listed = listed]
    BY <1>1, <1>8, <1>13, RequestIsTyped DEF Desk!Reads, Desk!Asked, Stands
<1>15. UNCHANGED <<Desk!world, page, walk>>
    BY <1>13 DEF Desk!Reads
<1>16. Left(request.changes) \/ total <= Cardinality(Desk!Listed(request.search))
    BY <1>2, <1>4, <1>9
<1>17. request.op \in {"list", "grant", "revoke"} /\ request.number >= 1
        /\ request.number <= Desk!TotalPages(total)
    BY <1>1, <1>2, <1>3, <1>9
<1>18. Left(request.changes) \/ listed # {}
    BY <1>9, <1>11
<1>19. Stands' /\ request' # NONE
    BY <1>1, <1>3, <1>7, <1>9, <1>12, <1>14, <1>15, <1>16, <1>17, <1>18, ReadsKeep
<1> QED
    BY <1>19 DEF Good, Told, DoorsTold, LinksTold, RowsTold

LEMMA ListRolesKeeps == ASSUME Stands, Desk!ListRoles PROVE Good
<1>1. request # NONE /\ request.stage = "listed" /\ request.op = "list"
    BY DEF Desk!ListRoles, Desk!At
<1>2. /\ request.number >= 1
      /\ Left(request.changes) => Left(request.offered)
      /\ Reader \notin members => "account" \in request.changes
      /\ Reader \notin admins => Lost(request.changes)
    BY <1>1, AdmittedToList DEF Admitted
<1>3. PICK listed \in SUBSET Desk!Users, total \in Nat :
          listed = request.listed /\ total = request.total
    BY <1>1, RequestIsTyped DEF Stands
<1>4. PICK rows : rows = {[id |-> u, admin |-> u \in admins] : u \in listed}
    OBVIOUS
<1>5. Desk!ShowList(total, rows)
    BY <1>3, <1>4, Zenon DEF Desk!ListRoles
<1>6. /\ \A row \in rows : row.id \in listed /\ (row.admin => row.id \in admins)
      /\ \A u \in listed : \E row \in rows : row.id = u
      /\ \A row \in rows : row \in Desk!Row
  <2>1. ASSUME NEW u \in listed
        PROVE  [id |-> u, admin |-> u \in admins] \in Desk!Row
    <3>1. (u \in admins) \in BOOLEAN
        OBVIOUS
    <3> QED
        BY <3>1, Zenon DEF Desk!Row
  <2>2. \A u \in listed : [id |-> u, admin |-> u \in admins].id = u
      BY Zenon
  <2>3. \A u \in listed : [id |-> u, admin |-> u \in admins].admin => u \in admins
      BY Zenon
  <2> QED
      BY <1>4, <2>1, <2>2, <2>3, Zenon
<1>7. Cardinality(rows) <= PerPage
  <2> DEFINE f == [u \in listed |-> [id |-> u, admin |-> u \in admins]]
  <2>1. f \in Surjection(listed, rows)
      BY <1>4, Zenon DEF Surjection
  <2>2. IsFiniteSet(listed) /\ Cardinality(listed) \in Nat
      BY Finite
  <2>3. IsFiniteSet(rows) /\ Cardinality(rows) <= Cardinality(listed)
      BY <2>1, <2>2, FS_Surjection
  <2>4. Cardinality(rows) \in Nat
      BY <2>3, FS_CardinalityType
  <2>5. Cardinality(listed) <= PerPage
      BY <1>1, <1>3 DEF Stands, RequestRemembers
  <2> QED
      BY <2>2, <2>3, <2>4, <2>5, AdminUsersAssumption
<1>8. /\ request.number <= Desk!TotalPages(total)
      /\ Left(request.changes) \/ total <= Cardinality(Desk!Listed(request.search))
      /\ Left(request.changes) \/ listed # {}
    BY <1>1, <1>3 DEF Stands, RequestFits
<1>9. \A row \in rows : row.id \in 1..issued /\ (row.id \in members \/ Left(request.changes))
    BY <1>1, <1>3, <1>6 DEF Stands, RequestExplains
<1>10. \A row \in rows : /\ row.id \in request.present \/ row.id > request.issued
                         /\ row.admin => row.id \in request.held
    BY <1>1, <1>3, <1>6 DEF Stands, RequestRemembers
<1>11. rows # {} \/ Left(request.changes)
    BY <1>6, <1>8
<1>12. ASSUME NEW present, NEW seen, OnTheWay(present, seen)
       PROVE  Onward(total, rows, present, seen)
  <2>1. \A u \in Unmet(request.search, present, seen) \ listed :
            /\ Rank(request.search, u) >= request.number * PerPage
            /\ request.number < Desk!TotalPages(total)
      BY <1>1, <1>3, <1>12 DEF OnTheWay, Behind
  <2>2. \A u \in listed : u \in {row.id : row \in rows}
      BY <1>6
  <2> QED
      BY <2>1, <2>2 DEF Onward
<1>13. request.search # "illegible" =>
               /\ request.number = 1 /\ request.changes \subseteq {"role"}
                    => Onward(total, rows, request.present, {})
               /\ walk # NONE => Onward(total, rows, walk.present, walk.seen)
    BY <1>1, <1>12 DEF Stands, RequestWalks
<1>14. rows \in SUBSET Desk!Row
    BY <1>6
<1> QED
    BY <1>1, <1>2, <1>5, <1>7, <1>8, <1>9, <1>10, <1>11, <1>13, <1>14, ShowListKeeps

-----------------------------------------------------------------------------
LEMMA SendKeeps ==
    ASSUME Stands, NEW op \in Desk!Ops, NEW search \in Desk!Searches,
           NEW number \in Nat \union {Desk!Unreadable},
           NEW target \in Desk!Users \union {NONE}, NEW offered \in SUBSET Desk!Changes,
           Desk!Send(op, search, number, target, offered),
           Reader \notin members => "account" \in offered,
           op # "home" /\ Reader \notin admins => Lost(offered),
           number >= 1 \/ offered = Desk!Changes,
           op \in {"grant", "revoke"} =>
               target \in 1..issued /\ number >= 1 /\ (target \notin members => Left(offered)),
           Left(offered) \/ number = 1
           \/ number <= Desk!TotalPages(Cardinality(Desk!Listed(search))),
           walk' = NONE \/
               (walk' = walk /\ op = "list" /\ page.view = "list" /\ number = page.number + 1
                   /\ search = page.search)
    PROVE  Good
<1>1. /\ issued' = issued /\ members' = members /\ admins' = admins /\ page' = Desk!Nothing
      /\ request = NONE
    BY DEF Desk!Send, Desk!world
<1>2. request' = [op |-> op, stage |-> "arrived", search |-> search, number |-> number,
                       target |-> target, total |-> 0, listed |-> {}, changes |-> {},
                       offered |-> offered, held |-> admins', present |-> members,
                       issued |-> issued]
    BY <1>1 DEF Desk!Send, Desk!Arriving
<1>3. admins' \in SUBSET (1..issued)
    BY <1>1 DEF Stands, Desk!TypeOK
<1>4. op # "home" /\ Reader \notin admins' => Lost(offered)
    BY <1>1
<1>5. Stands' /\ request' # NONE
    BY <1>1, <1>2, <1>3, <1>4, ArrivalKeeps
<1> QED
    BY <1>1, <1>5 DEF Good, Told, DoorsTold, LinksTold, RowsTold

LEMMA OpenKeeps == ASSUME Stands, Desk!Open PROVE Good
<1>1. Left(Desk!Changes) /\ Lost(Desk!Changes) /\ "account" \in Desk!Changes
      /\ Desk!Changes \in SUBSET Desk!Changes
    BY DEF Left, Lost, Desk!Changes
<1>2. walk' = NONE /\ NONE \in Desk!Users \union {NONE} /\ 1 \in Nat \union {Desk!Unreadable}
    BY DEF Desk!Open
<1>3. ASSUME NEW op \in {"home", "hub"}, Desk!Send(op, "", 1, NONE, Desk!Changes) PROVE Good
  <2>1. op \in Desk!Ops /\ "" \in Desk!Searches /\ op \notin {"grant", "revoke"}
      BY DEF Desk!Ops, Desk!Searches
  <2> QED
      BY <1>1, <1>2, <1>3, <2>1, SendKeeps
<1>4. ASSUME NEW search \in Desk!Searches, NEW number \in Desk!TypedNumbers,
             Desk!Send("list", search, number, NONE, Desk!Changes)
      PROVE  Good
  <2>1. "list" \in Desk!Ops /\ number \in Nat \union {Desk!Unreadable}
      BY AdminUsersAssumption DEF Desk!Ops, Desk!TypedNumbers
  <2> QED
      BY <1>1, <1>2, <1>4, <2>1, SendKeeps
<1> QED
    BY <1>3, <1>4 DEF Desk!Open

LEMMA PageIsTyped ==
    ASSUME Stands
    PROVE  /\ page.search \in Desk!Searches /\ page.number \in Nat /\ page.total \in Nat
           /\ page.rows \in SUBSET Desk!Row /\ page.changes \in SUBSET Desk!Changes
    BY DEF Stands, Desk!TypeOK, Desk!Page

LEMMA FollowLinkKeeps == ASSUME Stands, Desk!FollowLink PROVE Good
<1>1. PICK offered \in SUBSET Desk!Changes : offered = page.changes
    BY PageIsTyped
<1>2. /\ walk' = NONE /\ NONE \in Desk!Users \union {NONE} /\ 1 \in Nat \union {Desk!Unreadable}
      /\ "" \in Desk!Searches /\ 1 >= 1 /\ 1 = 1
  <2>1. walk' = NONE
      BY Zenon DEF Desk!FollowLink
  <2> QED
      BY <2>1 DEF Desk!Searches
<1>3. CASE page.view = "home" /\ page.admin /\ Desk!Send("hub", "", 1, NONE, page.changes)
  <2>1. /\ Reader \notin members => "account" \in offered
        /\ Reader \notin admins => Lost(offered)
      BY <1>1, <1>3 DEF Stands, PageExplains, ForAdmins
  <2>2. "hub" \in Desk!Ops /\ "hub" \notin {"grant", "revoke"}
        /\ Desk!Send("hub", "", 1, NONE, offered)
      BY <1>1, <1>3 DEF Desk!Ops
  <2> QED
      BY <1>2, <2>1, <2>2, SendKeeps
<1>4. CASE page.view = "hub" /\ Desk!Send("list", "", 1, NONE, page.changes)
  <2>1. /\ Reader \notin members => "account" \in offered
        /\ Reader \notin admins => Lost(offered)
      BY <1>1, <1>4 DEF Stands, PageExplains, ForAdmins
  <2>2. "list" \in Desk!Ops /\ "list" \notin {"grant", "revoke"}
        /\ Desk!Send("list", "", 1, NONE, offered)
      BY <1>1, <1>4 DEF Desk!Ops
  <2> QED
      BY <1>2, <2>1, <2>2, SendKeeps
<1> QED
    BY <1>3, <1>4 DEF Desk!FollowLink

\* What a page of the list has noted, and where its links lead.
LEMMA FromList ==
    ASSUME Stands, page.view = "list"
    PROVE  /\ page.number >= 1
           /\ Reader \notin members => "account" \in page.changes
           /\ Reader \notin admins => Lost(page.changes)
           /\ Desk!TotalPages(page.total) \in Nat
           /\ \A number \in Nat : number <= Desk!TotalPages(page.total) =>
                Left(page.changes)
                \/ number <= Desk!TotalPages(Cardinality(Desk!Listed(page.search)))
<1>1. Cardinality(Desk!Listed(page.search)) \in Nat /\ page.total \in Nat
    BY AccountsAreNumbered, Finite, PageIsTyped DEF Stands
<1>2. Left(page.changes) \/ page.total <= Cardinality(Desk!Listed(page.search))
    BY DEF Stands, PageFits
<1>3. /\ Desk!TotalPages(page.total) \in Nat
         /\ Desk!TotalPages(Cardinality(Desk!Listed(page.search))) \in Nat
      /\ Left(page.changes) \/
             Desk!TotalPages(page.total) <= Desk!TotalPages(Cardinality(Desk!Listed(page.search)))
    BY <1>1, <1>2, PagesOf, PagesGrow
<1> QED
    BY <1>3 DEF Stands, PageExplains, ForAdmins

\* A link, the search or a button of the list.
LEMMA ListSends ==
    ASSUME Stands, page.view = "list", NEW op \in {"list", "grant", "revoke"},
           NEW search \in Desk!Searches, NEW number \in Nat, number >= 1,
           NEW target \in Desk!Users \union {NONE},
           Desk!Send(op, search, number, target, page.changes),
           op \in {"grant", "revoke"} =>
               target \in 1..issued /\ (target \notin members => Left(page.changes)),
           number = 1 \/ (search = page.search /\ number <= Desk!TotalPages(page.total)),
           walk' = NONE \/
               (walk' = walk /\ op = "list" /\ number = page.number + 1 /\ search = page.search)
    PROVE  Good
<1>1. PICK offered \in SUBSET Desk!Changes : offered = page.changes
    BY PageIsTyped
<1>2. /\ Reader \notin members => "account" \in offered
      /\ Reader \notin admins => Lost(offered)
      /\ Left(offered) \/ number = 1 \/ number <= Desk!TotalPages(Cardinality(Desk!Listed(search)))
    BY <1>1, FromList
<1>3. op \in Desk!Ops /\ number \in Nat \union {Desk!Unreadable}
    BY DEF Desk!Ops
<1>4. Desk!Send(op, search, number, target, offered)
    BY <1>1
<1>5. op \in {"grant", "revoke"} =>
               target \in 1..issued /\ number >= 1 /\ (target \notin members => Left(offered))
    BY <1>1
<1> QED
    BY <1>2, <1>3, <1>4, <1>5, SendKeeps

LEMMA SearchKeeps == ASSUME Stands, Desk!Search PROVE Good
<1>1. PICK search \in Desk!Searches : Desk!Send("list", search, 1, NONE, page.changes)
    BY DEF Desk!Search
<1>2. page.view = "list" /\ walk' = NONE
    BY DEF Desk!Search
<1> QED
    BY <1>1, <1>2, ListSends

LEMMA FollowPreviousKeeps == ASSUME Stands, Desk!FollowPrevious PROVE Good
<1>1. PICK number : number = Desk!PreviousPage
    OBVIOUS
<1>2. page.view = "list" /\ walk' = NONE
      /\ Desk!Send("list", page.search, number, NONE, page.changes)
    BY <1>1 DEF Desk!FollowPrevious
<1>3. /\ Desk!TotalPages(page.total) \in Nat /\ page.number \in Nat
      /\ Desk!TotalPages(page.total) > 0 /\ page.number > 1
    BY <1>2, FromList, PageIsTyped DEF Desk!FollowPrevious, Desk!HasPrevious
<1>4. number \in Nat /\ number >= 1 /\ number <= Desk!TotalPages(page.total)
    BY <1>1, <1>3 DEF Desk!PreviousPage
<1> QED
    BY <1>2, <1>4, PageIsTyped, ListSends

LEMMA FollowNextKeeps == ASSUME Stands, Desk!FollowNext PROVE Good
<1>1. PICK number : number = page.number + 1
    OBVIOUS
<1>2. page.view = "list" /\ walk' = walk
      /\ Desk!Send("list", page.search, number, NONE, page.changes)
    BY <1>1 DEF Desk!FollowNext
<1>3. /\ Desk!TotalPages(page.total) \in Nat /\ page.number \in Nat
      /\ page.number < Desk!TotalPages(page.total) /\ page.number >= 1
    BY <1>2, FromList, PageIsTyped DEF Desk!FollowNext, Desk!HasNext
<1>4. number \in Nat /\ number >= 1 /\ number <= Desk!TotalPages(page.total)
    BY <1>1, <1>3
<1> QED
    BY <1>1, <1>2, <1>4, PageIsTyped, ListSends

LEMMA PressKeeps == ASSUME Stands, Desk!Press PROVE Good
<1>1. PICK row \in page.rows :
          Desk!Send(Desk!ButtonOf(row), page.search, page.number, row.id, page.changes)
    BY DEF Desk!Press
<1>2. page.view = "list" /\ walk' = NONE /\ page.rows # {}
    BY <1>1 DEF Desk!Press
<1>3. row.id \in 1..issued /\ (row.id \notin members => Left(page.changes))
    BY <1>1, <1>2 DEF Stands, PageExplains
<1>4. PICK op \in {"list", "grant", "revoke"} : op = Desk!ButtonOf(row)
    BY DEF Desk!ButtonOf
<1>5. row.id \in Desk!Users \union {NONE}
    BY <1>1, PageIsTyped DEF Desk!Row
<1>6. page.number <= Desk!TotalPages(page.total) /\ page.number >= 1
    BY <1>2, FromList DEF Stands, PageFits
<1> QED
    BY <1>1, <1>2, <1>3, <1>4, <1>5, <1>6, PageIsTyped, ListSends

-----------------------------------------------------------------------------
\* After a write the browser follows the redirect.
LEMMA RedirectKeeps ==
    ASSUME Stands, request # NONE, request.stage = "found",
           NEW to \in {Desk!ListingPath, Desk!Home}, Desk!Redirect(to),
           admins' \in SUBSET (1..issued),
           to # Desk!Home => Reader \in admins' \/ Reader \notin admins
    PROVE  Good
<1>1. PICK op, search, number : op = to.op /\ search = to.search /\ number = to.number
    OBVIOUS
<1>2. PICK offered \in SUBSET Desk!Changes : offered = request.offered
    BY RequestIsTyped DEF Stands
<1>3. /\ request.op \in {"grant", "revoke"} /\ request.number >= 1 /\ page = Desk!Nothing
      /\ request.number \in Nat \union {Desk!Unreadable} /\ request.search \in Desk!Searches
    BY RequestIsTyped DEF Stands, Busy
<1>4. /\ Reader \notin members => "account" \in offered
      /\ Reader \notin admins => Lost(offered)
      /\ Left(offered) \/ request.number = 1
           \/ request.number <= Desk!TotalPages(Cardinality(Desk!Listed(request.search)))
    BY <1>2, <1>3 DEF Stands, RequestExplains, RequestFits
<1>5. \/ op = "home" /\ search = "" /\ number = 1
      \/ /\ op = "list" /\ search = request.search /\ number = request.number
         /\ Reader \in admins' \/ Reader \notin admins
  <2>1. CASE to = Desk!Home
      BY <1>1, <2>1 DEF Desk!Home
  <2>2. CASE to # Desk!Home
    <3>1. to = [op |-> "list", search |-> request.search, number |-> request.number]
        BY <2>2 DEF Desk!ListingPath
    <3> QED
        BY <1>1, <2>2, <3>1
  <2> QED
      BY <2>1, <2>2
<1>6. /\ op \in Desk!Ops /\ search \in Desk!Searches /\ number \in Nat \union {Desk!Unreadable}
         /\ number >= 1
      /\ op \notin {"grant", "revoke"}
  <2>1. CASE op = "home" /\ search = "" /\ number = 1
    <3>1. 1 \in Nat /\ 1 >= 1
        OBVIOUS
    <3>2. number \in Nat /\ number >= 1
        BY <2>1, <3>1, Zenon
    <3> QED
        BY <2>1, <3>2 DEF Desk!Ops, Desk!Searches
  <2>2. CASE op = "list" /\ search = request.search /\ number = request.number
      BY <1>3, <2>2 DEF Desk!Ops
  <2> QED
      BY <1>5, <2>1, <2>2
<1>7. /\ issued' = issued /\ members' = members /\ walk' = NONE /\ page' = Desk!Nothing
    BY <1>3 DEF Desk!Redirect
<1>8. request' = [op |-> op, stage |-> "arrived", search |-> search, number |-> number,
                       target |-> NONE, total |-> 0, listed |-> {}, changes |-> {},
                       offered |-> offered, held |-> admins', present |-> members,
                       issued |-> issued]
    BY <1>1, <1>2 DEF Desk!Redirect, Desk!Arriving
<1>9. /\ op # "home" /\ Reader \notin admins' => Lost(offered)
      /\ Left(offered) \/ number = 1 \/ number <= Desk!TotalPages(Cardinality(Desk!Listed(search)))
    BY <1>4, <1>5
<1>10. NONE \in Desk!Users \union {NONE}
    OBVIOUS
<1>11. Stands' /\ request' # NONE
    BY <1>4, <1>6, <1>7, <1>8, <1>9, <1>10, ArrivalKeeps
<1> QED
    BY <1>11 DEF Good, Told, DoorsTold, LinksTold, RowsTold

LEMMA GrantKeeps == ASSUME Stands, Desk!Grant PROVE Good
<1>1. request # NONE /\ request.stage = "found" /\ request.op = "grant"
    BY DEF Desk!Grant, Desk!At
<1>2. admins' = admins \union {request.target} /\ Desk!Redirect(Desk!ListingPath)
    BY DEF Desk!Grant
<1>3. request.target \in 1..issued
    BY <1>1 DEF Stands, Busy
<1>4. admins' \in SUBSET (1..issued)
    BY <1>2, <1>3 DEF Stands, Desk!TypeOK
<1> QED
    BY <1>1, <1>2, <1>4, RedirectKeeps

LEMMA RevokeKeeps == ASSUME Stands, Desk!Revoke PROVE Good
<1>1. request # NONE /\ request.stage = "found" /\ request.op = "revoke"
    BY DEF Desk!Revoke, Desk!At
<1>2. admins \in SUBSET (1..issued)
    BY DEF Stands, Desk!TypeOK
<1>3. CASE admins' = admins /\ Desk!Redirect(Desk!ListingPath)
    BY <1>1, <1>2, <1>3, RedirectKeeps
<1>4. CASE admins' = admins \ {request.target} /\ Desk!Redirect(Desk!AfterRevocation)
  <2>1. CASE request.target = Reader
    <3>1. Desk!Redirect(Desk!Home)
        BY <1>4, <2>1 DEF Desk!AfterRevocation
    <3> QED
        BY <1>1, <1>2, <1>4, <3>1, RedirectKeeps
  <2>2. CASE request.target # Reader
    <3>1. Desk!Redirect(Desk!ListingPath)
        BY <1>4, <2>2 DEF Desk!AfterRevocation
    <3>2. Reader \in admins' \/ Reader \notin admins
        BY <1>4, <2>2
    <3> QED
        BY <1>1, <1>2, <1>4, <3>1, <3>2, RedirectKeeps
  <2> QED
      BY <2>1, <2>2
<1> QED
    BY <1>3, <1>4 DEF Desk!Revoke

-----------------------------------------------------------------------------
\* What others do is noted on the request in flight and on the page that is shown.
LEMMA Noted ==
    ASSUME Stands, NEW kinds \in SUBSET Desk!Changes, Desk!Changed(kinds),
           admins' \in SUBSET Desk!Users
    PROVE  /\ request' = NONE <=> request = NONE
           /\ request # NONE =>
                /\ request' \in Desk!Asked
                /\ request'.op = request.op /\ request'.stage = request.stage
                /\ request'.search = request.search /\ request'.number = request.number
                /\ request'.target = request.target /\ request'.total = request.total
                /\ request'.listed = request.listed
                /\ request'.changes = request.changes \union kinds
                /\ request'.offered = request.offered \union kinds
                /\ request'.held = request.held \union admins'
                /\ request'.present = request.present /\ request'.issued = request.issued
           /\ page' \in Desk!Page
           /\ page'.view = page.view /\ page'.search = page.search
           /\ page'.number = page.number /\ page'.total = page.total
           /\ page'.rows = page.rows /\ page'.admin = page.admin
           /\ page.view \in {"home", "hub", "list"} => page'.changes = page.changes \union kinds
           /\ page.view = "nothing" => page' = page
<1>1. page \in Desk!Page
    BY DEF Stands, Desk!TypeOK
<1>2. /\ page' \in Desk!Page
      /\ page'.view = page.view /\ page'.search = page.search
      /\ page'.number = page.number /\ page'.total = page.total
      /\ page'.rows = page.rows /\ page'.admin = page.admin
      /\ page.view \in {"home", "hub", "list"} => page'.changes = page.changes \union kinds
      /\ page.view = "nothing" => page' = page
  <2>1. CASE page.view \in {"home", "hub", "list"}
    <3>1. page' = [page EXCEPT !.changes = @ \union kinds]
        BY <2>1 DEF Desk!Changed
    <3> QED
        BY <1>1, <2>1, <3>1 DEF Desk!Page
  <2>2. CASE page.view \notin {"home", "hub", "list"}
    <3>1. page' = page
        BY <2>2 DEF Desk!Changed
    <3> QED
        BY <1>1, <2>2, <3>1
  <2> QED
      BY <2>1, <2>2
<1>3. CASE request = NONE
    BY <1>2, <1>3 DEF Desk!Changed
<1>4. CASE request # NONE
  <2>1. request \in Desk!Asked
      BY <1>4, RequestIsTyped DEF Stands
  <2>2. PICK r : r = [request EXCEPT !.changes = @ \union kinds, !.offered = @ \union kinds,
                                     !.held = @ \union admins']
      OBVIOUS
  <2>3. request' = r
      BY <1>4, <2>2 DEF Desk!Changed
  <2>4. /\ r.op = request.op /\ r.stage = request.stage
        /\ r.search = request.search /\ r.number = request.number
        /\ r.target = request.target /\ r.total = request.total
        /\ r.listed = request.listed
        /\ r.changes = request.changes \union kinds
        /\ r.offered = request.offered \union kinds
        /\ r.held = request.held \union admins'
        /\ r.present = request.present /\ r.issued = request.issued
      BY <2>1, <2>2 DEF Desk!Asked
  <2>5. r \in Desk!Asked
      BY <2>1, <2>2 DEF Desk!Asked, Desk!Users
  <2>6. r # NONE
      BY <2>5, NoneIsNoRecord
  <2> QED
      BY <1>2, <1>4, <2>3, <2>4, <2>5, <2>6
<1> QED
    BY <1>3, <1>4

\* What others do, once the request and the page in view have been told.
LEMMA LeaveKeeps == ASSUME Stands, NEW u \in Desk!Users, Desk!Leave(u) PROVE Good
<1>1. PICK kind \in {"account", "members"} :
          kind = (IF u = Reader THEN "account" ELSE "members") /\ Desk!Changed({kind})
    BY DEF Desk!Leave
<1>2. /\ members' = members \ {u} /\ admins' = admins \ {u} /\ issued' = issued
      /\ walk' = NONE
    BY DEF Desk!Leave
<1>3. {kind} \in SUBSET Desk!Changes /\ (u = Reader => kind = "account")
      /\ Left({kind}) /\ \A s : Left(s \union {kind})
    BY <1>1 DEF Desk!Changes, Left
<1>4. admins' \in SUBSET Desk!Users
    BY <1>2, AccountsAreNumbered DEF Stands
<1>5. /\ request' = NONE <=> request = NONE
      /\ page' \in Desk!Page
      /\ page'.view = page.view /\ page'.search = page.search
      /\ page'.number = page.number /\ page'.total = page.total
      /\ page'.rows = page.rows /\ page'.admin = page.admin
      /\ page.view \in {"home", "hub", "list"} => page'.changes = page.changes \union {kind}
      /\ page.view = "nothing" => page' = page
    BY <1>1, <1>3, <1>4, Noted
<1>6. request # NONE => (request' \in Desk!Asked)
    BY <1>1, <1>3, <1>4, Noted
<1>7. Desk!TypeOK' /\ (Reader <= issued)'
    BY <1>2, <1>5, <1>6 DEF Stands, Desk!TypeOK
<1>8. PageFits'
    BY <1>3, <1>5 DEF Stands, PageFits
<1>9. PageExplains'
  <2>1. page.view \in {"home", "hub", "list"}
        /\ Reader \notin members' => "account" \in page'.changes
      BY <1>2, <1>3, <1>5 DEF Stands, PageExplains
  <2>2. ForAdmins(page.view, page.admin) => page.view \in {"home", "hub", "list", "grant", "revoke"}
      BY DEF ForAdmins
  <2>3. page.view \notin {"grant", "revoke"}
      BY DEF Stands, Desk!TypeOK, Desk!Page
  <2>4. ForAdmins(page.view, page.admin) /\ Reader \notin admins' => Lost(page'.changes)
      BY <1>2, <1>3, <1>5, <2>2, <2>3 DEF Stands, PageExplains, Lost
  <2>5. page.view = "list" => \A row \in page.rows : row.id \in 1..issued /\ Left(page'.changes)
      BY <1>3, <1>5 DEF Stands, PageExplains
  <2>6. page.view = "list" => page.number >= 1
      BY DEF Stands, PageExplains
  <2> QED
      BY <1>2, <1>5, <2>1, <2>4, <2>5, <2>6 DEF PageExplains, ForAdmins
<1>10. WalkGoesOn'
    BY <1>2 DEF WalkGoesOn
<1>11. ASSUME request # NONE
       PROVE  Busy' /\ RequestExplains' /\ RequestFits' /\ RequestRemembers' /\ RequestWalks'
  <2>1. PICK r : r = request'
      OBVIOUS
  <2>2. /\ r.op = request.op /\ r.stage = request.stage
        /\ r.search = request.search /\ r.number = request.number
        /\ r.target = request.target /\ r.total = request.total
        /\ r.listed = request.listed
        /\ r.changes = request.changes \union {kind}
        /\ r.offered = request.offered \union {kind}
        /\ r.held = request.held \union admins'
        /\ r.present = request.present /\ r.issued = request.issued
      BY <1>1, <1>3, <1>4, <1>11, <2>1, Noted
  <2>3. Left(r.changes) /\ Left(r.offered)
      BY <1>3, <2>2
  <2>4. page' = page /\ Busy
      BY <1>5, <1>11, BlankPage DEF Stands, Busy
  <2>5. Busy'
      BY <1>2, <2>1, <2>2, <2>4 DEF Busy
  <2>6. RequestExplains'
    <3>1. RequestExplains /\ request.offered \subseteq Desk!Changes
        BY <1>11, RequestIsTyped DEF Stands
    <3>2. (Reader \notin members =>
              /\ "account" \in request.offered
              /\ request.stage # "arrived" => "account" \in request.changes)'
        BY <1>2, <1>3, <2>1, <2>2, <3>1 DEF RequestExplains
    <3>3. (Reader \notin admins =>
              /\ request.op # "home" => Lost(request.offered)
              /\ request.stage \in Admitted => Lost(request.changes))'
        BY <1>2, <1>3, <2>1, <2>2, <3>1 DEF RequestExplains, Lost
    <3> QED
        BY <1>2, <1>3, <2>1, <2>2, <2>3, <3>1, <3>2, <3>3 DEF RequestExplains
  <2>7. RequestFits'
      BY <1>11, <2>1, <2>2, <2>3 DEF Stands, RequestFits
  <2>8. RequestRemembers'
      BY <1>2, <1>11, <2>1, <2>2, <2>3 DEF Stands, RequestRemembers
  <2>9. RequestWalks'
    <3>1. ~(r.changes \subseteq {"role"})
        BY <2>3 DEF Left
    <3> QED
        BY <1>2, <2>1, <3>1 DEF RequestWalks
  <2> QED
      BY <2>5, <2>6, <2>7, <2>8, <2>9
<1>12. Stands'
    BY <1>5, <1>7, <1>8, <1>9, <1>10, <1>11 DEF Stands
<1> QED
    BY <1>5, <1>12 DEF Good, Told, DoorsTold, LinksTold, RowsTold

LEMMA ChangeRoleKeeps == ASSUME Stands, NEW u \in Desk!Users, Desk!ChangeRole(u) PROVE Good
<1>1. PICK kinds \in SUBSET {"role"} :
          Desk!Changed(kinds) /\ (u = Reader => "role" \in kinds)
  <2>1. PICK kinds : kinds = IF u = Reader THEN {"role"} ELSE {}
      OBVIOUS
  <2> QED
      BY <2>1 DEF Desk!ChangeRole
<1>2. /\ members' = members /\ issued' = issued /\ walk' = walk
      /\ admins' \in SUBSET (1..issued) /\ (u # Reader /\ Reader \in admins => Reader \in admins')
  <2>1. u \in 1..issued /\ admins \subseteq 1..issued
      BY DEF Stands, Desk!TypeOK, Desk!ChangeRole
  <2> QED
      BY <2>1 DEF Desk!ChangeRole
<1>3. kinds \in SUBSET Desk!Changes /\ (\A s : Left(s \union kinds) <=> Left(s))
      /\ (\A s : s \union kinds \subseteq {"role"} => s \subseteq {"role"})
    BY <1>1 DEF Desk!Changes, Left
<1>4. admins' \in SUBSET Desk!Users
    BY <1>2, AccountsAreNumbered DEF Stands
<1>5. /\ request' = NONE <=> request = NONE
      /\ page' \in Desk!Page
      /\ page'.view = page.view /\ page'.search = page.search
      /\ page'.number = page.number /\ page'.total = page.total
      /\ page'.rows = page.rows /\ page'.admin = page.admin
      /\ page.view \in {"home", "hub", "list"} => page'.changes = page.changes \union kinds
      /\ page.view = "nothing" => page' = page
    BY <1>1, <1>3, <1>4, Noted
<1>6. request # NONE => (request' \in Desk!Asked)
    BY <1>1, <1>3, <1>4, Noted
<1>7. Desk!TypeOK' /\ (Reader <= issued)'
    BY <1>2, <1>5, <1>6 DEF Stands, Desk!TypeOK
<1>8. \A search : Desk!Listed(search)' = Desk!Listed(search)
    BY <1>2 DEF Desk!Listed
<1>9. PICK search : search = page.search
    OBVIOUS
<1>10. PageFits'
  <2>1. Desk!Listed(page.search)' = Desk!Listed(search)
      BY <1>2, <1>5, <1>9 DEF Desk!Listed
  <2>2. page.view = "list" =>
          /\ Left(page.changes) \/ page.total <= Cardinality(Desk!Listed(search))
          /\ page.rows # {} => page.number <= Desk!TotalPages(page.total)
      BY <1>9 DEF Stands, PageFits
  <2>3. PICK total, number : total = page.total /\ number = page.number
      OBVIOUS
  <2>4. page'.total = total /\ page'.number = number
      BY <1>5, <2>3
  <2> QED
      BY <1>3, <1>5, <2>1, <2>2, <2>3, <2>4 DEF PageFits
<1>11. PageExplains'
  <2>1. page.view \in {"home", "hub", "list"}
        /\ Reader \notin members => "account" \in page'.changes
      BY <1>5 DEF Stands, PageExplains
  <2>2. ForAdmins(page.view, page.admin) => page.view \in {"home", "hub", "list", "grant", "revoke"}
      BY DEF ForAdmins
  <2>3. page.view \notin {"grant", "revoke"}
      BY DEF Stands, Desk!TypeOK, Desk!Page
  <2>4. ForAdmins(page.view, page.admin) /\ Reader \notin admins' => Lost(page'.changes)
      BY <1>1, <1>2, <1>5, <2>2, <2>3 DEF Stands, PageExplains, Lost
  <2>5. page.view = "list" =>
          \A row \in page.rows : row.id \in 1..issued /\ (row.id \in members \/ Left(page'.changes))
      BY <1>3, <1>5 DEF Stands, PageExplains
  <2>6. page.view = "list" => page.number >= 1
      BY DEF Stands, PageExplains
  <2> QED
      BY <1>2, <1>5, <2>1, <2>4, <2>5, <2>6 DEF PageExplains, ForAdmins
<1>12. \A s, v : Rank(s, v)' = Rank(s, v)
    BY <1>2 DEF Rank, Desk!AheadOf, Desk!Listed
<1>13. WalkGoesOn'
  <2>1. WalkGoesOn
      BY DEF Stands
  <2>2. \A v : Rank(walk.search, v)' = Rank(walk.search, v)
      BY <1>2 DEF Rank, Desk!AheadOf, Desk!Listed
  <2>3. Desk!HasNext' <=> Desk!HasNext
    <3>1. PICK total, number : total = page.total /\ number = page.number
        OBVIOUS
    <3>2. page'.total = total /\ page'.number = number
        BY <1>5, <3>1
    <3> QED
        BY <3>1, <3>2 DEF Desk!HasNext
  <2>4. Unmet(walk.search, walk.present, walk.seen)' = Unmet(walk.search, walk.present, walk.seen)
      BY <1>2 DEF Unmet
  <2> QED
      BY <2>1, <2>2, <2>3, <2>4, <1>2, <1>5 DEF WalkGoesOn
<1>14. ASSUME request # NONE
       PROVE  Busy' /\ RequestExplains' /\ RequestFits' /\ RequestRemembers' /\ RequestWalks'
  <2>1. PICK r : r = request'
      OBVIOUS
  <2>2. /\ r.op = request.op /\ r.stage = request.stage
        /\ r.search = request.search /\ r.number = request.number
        /\ r.target = request.target /\ r.total = request.total
        /\ r.listed = request.listed
        /\ r.changes = request.changes \union kinds
        /\ r.offered = request.offered \union kinds
        /\ r.held = request.held \union admins'
        /\ r.present = request.present /\ r.issued = request.issued
      BY <1>1, <1>3, <1>4, <1>14, <2>1, Noted
  <2>3. (Left(r.changes) <=> Left(request.changes)) /\ (Left(r.offered) <=> Left(request.offered))
      BY <1>3, <2>2
  <2>4. page' = page /\ Busy
      BY <1>5, <1>14, BlankPage DEF Stands, Busy
  <2>5. Busy'
      BY <1>2, <2>1, <2>2, <2>4 DEF Busy
  <2>6. RequestExplains'
    <3>1. RequestExplains /\ request.offered \subseteq Desk!Changes
        BY <1>14, RequestIsTyped DEF Stands
    <3>2. (Reader \notin members =>
              /\ "account" \in request.offered
              /\ request.stage # "arrived" => "account" \in request.changes)'
        BY <1>2, <1>3, <2>1, <2>2, <3>1 DEF RequestExplains
    <3>3. (Reader \notin admins =>
              /\ request.op # "home" => Lost(request.offered)
              /\ request.stage \in Admitted => Lost(request.changes))'
        BY <1>1, <1>2, <1>3, <2>1, <2>2, <3>1 DEF RequestExplains, Lost
    <3> QED
        BY <1>2, <1>3, <2>1, <2>2, <2>3, <3>1, <3>2, <3>3 DEF RequestExplains
  <2>7. PICK s, n, t : s = request.search /\ n = request.number /\ t = request.total
      OBVIOUS
  <2>8. /\ request'.search = s /\ request'.number = n /\ request'.total = t
        /\ Desk!Listed(request.search)' = Desk!Listed(s)
      BY <1>2, <2>1, <2>2, <2>7 DEF Desk!Listed
  <2>9. RequestFits'
      BY <1>14, <2>1, <2>2, <2>3, <2>7, <2>8 DEF Stands, RequestFits
  <2>10. RequestRemembers'
      BY <1>2, <1>14, <2>1, <2>2, <2>3 DEF Stands, RequestRemembers
  <2>11. ASSUME NEW present, NEW seen, OnTheWay(present, seen) PROVE OnTheWay(present, seen)'
    <3>1. PICK unmet : unmet = Unmet(s, present, seen)
        OBVIOUS
    <3>2. (request.stage # "listed" => Ahead(unmet))'
        BY <1>12, <2>1, <2>2, <2>7, <2>8, <2>11, <3>1 DEF OnTheWay, Ahead
    <3>3. CountHolds'
        BY <2>1, <2>2, <2>7, <2>8, <2>11 DEF OnTheWay, CountHolds
    <3>4. Behind(unmet)'
        BY <1>12, <2>1, <2>2, <2>7, <2>8, <2>11, <3>1 DEF OnTheWay, Behind
    <3> QED
        BY <2>8, <3>1, <3>2, <3>3, <3>4 DEF OnTheWay
  <2>12. RequestWalks'
    <3>1. RequestWalks
        BY <1>14 DEF Stands
    <3>2. PICK p, a, b : p = request.present /\ a = walk.present /\ b = walk.seen
        OBVIOUS
    <3>3. request.op = "list" /\ s # "illegible" =>
            /\ n = 1 /\ r.changes \subseteq {"role"} => OnTheWay(p, {})'
            /\ walk # NONE => OnTheWay(a, b)'
        BY <1>3, <2>2, <2>7, <2>11, <3>1, <3>2 DEF RequestWalks
    <3>4. r.present = p /\ walk'.present = a /\ walk'.seen = b
        BY <1>2, <2>2, <3>2
    <3>5. \A x, y : (x = p /\ OnTheWay(p, {})' => OnTheWay(x, {})')
                    /\ (x = a /\ y = b /\ OnTheWay(a, b)' => OnTheWay(x, y)')
        OBVIOUS
    <3>6. request.op = "list" /\ s # "illegible" =>
            /\ n = 1 /\ r.changes \subseteq {"role"} => OnTheWay(request.present, {})'
            /\ walk # NONE => OnTheWay(walk.present, walk.seen)'
        BY <2>1, <3>3, <3>4, <3>5
    <3> QED
        BY <1>2, <2>1, <2>2, <2>7, <2>8, <3>1, <3>6 DEF RequestWalks
  <2> QED
      BY <2>5, <2>6, <2>9, <2>10, <2>12
<1>15. Stands'
    BY <1>5, <1>7, <1>10, <1>11, <1>13, <1>14 DEF Stands
<1> QED
    BY <1>5, <1>15 DEF Good, Told, DoorsTold, LinksTold, RowsTold

\* An account more: nobody moves forward in the list, and who is unmet stays ahead.
LEMMA SignUpGrows ==
    ASSUME Stands, issued' = issued + 1, members' = members \union {issued + 1},
           issued < MaxUsers, NEW search
    PROVE  /\ Desk!Listed(search)' \in SUBSET Desk!Users
              /\ Desk!Listed(search) \in SUBSET (Desk!Listed(search)')
           /\ Cardinality(Desk!Listed(search)) \in Nat /\ Cardinality(Desk!Listed(search)') \in Nat
           /\ Cardinality(Desk!Listed(search)) <= Cardinality(Desk!Listed(search)')
           /\ Desk!TotalPages(Cardinality(Desk!Listed(search)))
                <= Desk!TotalPages(Cardinality(Desk!Listed(search)'))
           /\ Desk!TotalPages(Cardinality(Desk!Listed(search))) \in Nat
           /\ Desk!TotalPages(Cardinality(Desk!Listed(search)')) \in Nat
           /\ \A u : /\ Rank(search, u) \in Nat /\ Rank(search, u)' \in Nat
                     /\ Rank(search, u) <= Rank(search, u)'
<1>1. PICK S, T : S = Desk!Listed(search)' /\ T = Desk!Listed(search)
    OBVIOUS
<1>2. issued + 1 \in Desk!Users /\ members \in SUBSET Desk!Users
    BY AccountsAreNumbered, AdminUsersAssumption DEF Stands, Desk!Users
<1>3. S \in SUBSET Desk!Users /\ T \in SUBSET S
    BY <1>1, <1>2 DEF Desk!Listed
<1>4. Cardinality(T) \in Nat /\ Cardinality(S) \in Nat /\ Cardinality(T) <= Cardinality(S)
    BY <1>3, Finite
<1>5. Desk!TotalPages(Cardinality(T)) <= Desk!TotalPages(Cardinality(S))
      /\ Desk!TotalPages(Cardinality(T)) \in Nat /\ Desk!TotalPages(Cardinality(S)) \in Nat
    BY <1>4, PagesGrow, PagesOf
<1>6. ASSUME NEW u
      PROVE  /\ Rank(search, u) \in Nat /\ Rank(search, u)' \in Nat
             /\ Rank(search, u) <= Rank(search, u)'
  <2>1. Rank(search, u) = Cardinality(Above(T, u)) /\ Rank(search, u)' = Cardinality(Above(S, u))
      BY <1>1 DEF Rank, Desk!AheadOf, Above
  <2> QED
      BY <1>3, <2>1, RankGrows
<1> QED
    BY <1>1, <1>3, <1>4, <1>5, <1>6

\* Whatever arrives, it comes first, and the pages that were counted stay filled.
LEMMA ListsFitAfterSignUp ==
    ASSUME Stands, issued' = issued + 1, members' = members \union {issued + 1},
           issued < MaxUsers, admins' = admins,
           page'.view = page.view, page'.search = page.search, page'.number = page.number,
           page'.total = page.total, page'.rows = page.rows, page'.admin = page.admin,
           page.view \in {"home", "hub", "list"} => page.changes \subseteq page'.changes
    PROVE  PageFits' /\ PageExplains'
<1>1. PICK search, total, number : search = page.search /\ total = page.total
                                       /\ number = page.number
    OBVIOUS
<1>2. page'.search = search /\ page'.total = total /\ page'.number = number
    BY <1>1
<1>3. /\ Cardinality(Desk!Listed(search)) \in Nat /\ Cardinality(Desk!Listed(search)') \in Nat
      /\ Cardinality(Desk!Listed(search)) <= Cardinality(Desk!Listed(search)')
    BY SignUpGrows
<1>4. Desk!Listed(page.search)' = Desk!Listed(search)'
    BY <1>2 DEF Desk!Listed
<1>5. PageFits'
  <2>1. total \in Nat
      BY <1>1, PageIsTyped
  <2>2. page.view = "list" =>
          /\ Left(page.changes) \/ total <= Cardinality(Desk!Listed(search))
          /\ page.rows # {} => number <= Desk!TotalPages(total)
      BY <1>1 DEF Stands, PageFits
  <2>3. page.view = "list" /\ Left(page.changes) => Left(page'.changes)
      BY DEF Left
  <2>4. page.view = "list" =>
          /\ Left(page'.changes) \/ total <= Cardinality(Desk!Listed(search)')
          /\ page.rows # {} => number <= Desk!TotalPages(total)
      BY <1>3, <2>1, <2>2, <2>3
  <2> QED
      BY <1>2, <1>4, <2>4 DEF PageFits
<1>6. PageExplains'
  <2>1. members \subseteq members' /\ 1..issued \subseteq 1..issued'
      BY AccountsAreNumbered DEF Stands
  <2>2. page.view \in {"home", "hub", "list"}
        /\ Reader \notin members' => "account" \in page'.changes
      BY <2>1 DEF Stands, PageExplains
  <2>3. ForAdmins(page.view, page.admin) => page.view \in {"home", "hub", "list", "grant", "revoke"}
      BY DEF ForAdmins
  <2>4. page.view \notin {"grant", "revoke"}
      BY DEF Stands, Desk!TypeOK, Desk!Page
  <2>5. ForAdmins(page.view, page.admin) /\ Reader \notin admins' => Lost(page'.changes)
      BY <2>3, <2>4 DEF Stands, PageExplains, Lost
  <2>6. page.view = "list" =>
          \A row \in page.rows : row.id \in 1..issued'
          /\ (row.id \in members' \/ Left(page'.changes))
      BY <2>1 DEF Stands, PageExplains, Left
  <2>7. page.view = "list" => page.number >= 1
      BY DEF Stands, PageExplains
  <2> QED
      BY <2>2, <2>5, <2>6, <2>7 DEF PageExplains, ForAdmins
<1> QED
    BY <1>5, <1>6

LEMMA RequestAfterSignUp ==
    ASSUME Stands, request # NONE, issued' = issued + 1, members' = members \union {issued + 1},
           issued < MaxUsers, admins' = admins, page' = page,
           NEW kinds \in SUBSET Desk!Changes,
           request'.op = request.op, request'.stage = request.stage,
           request'.search = request.search, request'.number = request.number,
           request'.target = request.target, request'.total = request.total,
           request'.listed = request.listed,
           request'.changes = request.changes \union kinds,
           request'.offered = request.offered \union kinds,
           admins \subseteq request'.held,
           request'.present = request.present, request'.issued = request.issued
    PROVE  Busy' /\ RequestExplains' /\ RequestFits' /\ RequestRemembers'
<1>1. members \subseteq members' /\ 1..issued \subseteq 1..issued' /\ issued < issued'
      /\ issued \in Nat
    BY AccountsAreNumbered DEF Stands
<1>2. Busy'
    BY <1>1 DEF Stands, Busy
<1>3. /\ \A s : Left(s) => Left(s \union kinds)
      /\ \A s : Lost(s) => Lost(s \union kinds)
    BY DEF Left, Lost
<1>4. RequestExplains'
  <2>1. RequestExplains /\ request.offered \subseteq Desk!Changes
      BY RequestIsTyped DEF Stands
  <2>2. (Reader \notin members =>
              /\ "account" \in request.offered
              /\ request.stage # "arrived" => "account" \in request.changes)'
      BY <1>1, <2>1 DEF RequestExplains
  <2>3. (Reader \notin admins =>
              /\ request.op # "home" => Lost(request.offered)
              /\ request.stage \in Admitted => Lost(request.changes))'
      BY <1>3, <2>1 DEF RequestExplains
  <2> QED
      BY <1>1, <1>3, <2>1, <2>2, <2>3 DEF RequestExplains
<1>5. PICK s, n, t : s = request.search /\ n = request.number /\ t = request.total
    OBVIOUS
<1>6. /\ request'.search = s /\ request'.number = n /\ request'.total = t
      /\ Desk!Listed(request.search)' = Desk!Listed(s)'
    BY <1>5 DEF Desk!Listed
<1>7. RequestFits'
  <2>1. t \in Nat /\ n \in Int
      BY <1>5, RequestIsTyped DEF Stands, Desk!Unreadable
  <2>2. /\ Left(request.offered) \/ n = 1 \/ n <= Desk!TotalPages(Cardinality(Desk!Listed(s)))
        /\ request.stage \in {"counted", "listed"} =>
              /\ t >= 1 /\ n <= Desk!TotalPages(t)
              /\ Left(request.changes) \/ t <= Cardinality(Desk!Listed(s))
        /\ request.stage = "listed" => Left(request.changes) \/ request.listed # {}
      BY <1>5 DEF Stands, RequestFits
  <2>3. /\ n <= Desk!TotalPages(Cardinality(Desk!Listed(s)))
           => n <= Desk!TotalPages(Cardinality(Desk!Listed(s)'))
        /\ t <= Cardinality(Desk!Listed(s)) => t <= Cardinality(Desk!Listed(s)')
    <3>1. /\ Cardinality(Desk!Listed(s)) \in Nat /\ Cardinality(Desk!Listed(s)') \in Nat
          /\ Cardinality(Desk!Listed(s)) <= Cardinality(Desk!Listed(s)')
          /\ Desk!TotalPages(Cardinality(Desk!Listed(s)))
               <= Desk!TotalPages(Cardinality(Desk!Listed(s)'))
          /\ Desk!TotalPages(Cardinality(Desk!Listed(s))) \in Nat
          /\ Desk!TotalPages(Cardinality(Desk!Listed(s)')) \in Nat
        BY SignUpGrows
    <3> QED
        BY <2>1, <3>1
  <2> QED
      BY <1>3, <1>6, <2>2, <2>3 DEF RequestFits
<1>8. RequestRemembers'
  <2>1. RequestRemembers /\ request.issued \in Nat
      BY RequestIsTyped DEF Stands, Desk!Users
  <2> QED
      BY <1>1, <1>3, <2>1 DEF RequestRemembers
<1> QED
    BY <1>2, <1>4, <1>7, <1>8

LEMMA SignUpKeeps == ASSUME Stands, Desk!SignUp PROVE Good
<1>1. /\ issued < MaxUsers /\ issued' = issued + 1 /\ members' = members \union {issued + 1}
      /\ admins' = admins
    BY DEF Desk!SignUp
<1>2. /\ issued' \in Desk!Users /\ members' \subseteq 1..issued' /\ admins' \subseteq 1..issued'
      /\ (Reader <= issued)' /\ members \subseteq members'
  <2>1. issued \in Nat /\ issued >= 1 /\ MaxUsers \in Nat
      BY AdminUsersAssumption DEF Stands, Desk!TypeOK, Desk!Users
  <2>2. members \subseteq 1..issued /\ admins \subseteq 1..issued /\ Reader <= issued
      BY DEF Stands, Desk!TypeOK
  <2>3. 1..issued \subseteq 1..issued' /\ issued' \in 1..issued' /\ issued' \in Desk!Users
      BY <1>1, <2>1 DEF Desk!Users
  <2>4. Reader <= issued'
      BY <1>1, <2>1, <2>2, AdminUsersAssumption
  <2> QED
      BY <1>1, <2>2, <2>3, <2>4
<1>3. CASE Desk!OnLastPage /\ Desk!Changed({"overflow"}) /\ walk' = NONE
  <2>1. {"overflow"} \in SUBSET Desk!Changes /\ admins' \in SUBSET Desk!Users /\ request # NONE
      BY <1>1, <1>3, AccountsAreNumbered DEF Desk!Changes, Stands, Desk!OnLastPage
  <2>2. page.view = "nothing"
      BY <2>1, BlankPage DEF Stands, Busy
  <2>3. /\ request' # NONE /\ request' \in Desk!Asked
        /\ page' = page
      BY <1>3, <2>1, <2>2, Noted
  <2>4. /\ request'.op = request.op /\ request'.stage = request.stage
        /\ request'.search = request.search /\ request'.number = request.number
        /\ request'.target = request.target /\ request'.total = request.total
        /\ request'.listed = request.listed
        /\ request'.changes = request.changes \union {"overflow"}
        /\ request'.offered = request.offered \union {"overflow"}
        /\ request'.held = request.held \union admins'
        /\ request'.present = request.present /\ request'.issued = request.issued
      BY <1>3, <2>1, Noted
  <2>5. Busy' /\ RequestExplains' /\ RequestFits' /\ RequestRemembers'
      BY <1>1, <2>1, <2>3, <2>4, RequestAfterSignUp
  <2>6. PageFits' /\ PageExplains'
      BY <1>1, <2>3, ListsFitAfterSignUp
  <2>7. RequestWalks' /\ WalkGoesOn'
      BY <1>3, <2>4 DEF RequestWalks, WalkGoesOn
  <2>8. Desk!TypeOK'
      BY <1>2, <1>3, <2>3 DEF Desk!TypeOK, Stands
  <2>9. Stands'
      BY <1>2, <2>5, <2>6, <2>7, <2>8 DEF Stands
  <2> QED
      BY <2>3, <2>9 DEF Good, Told, DoorsTold, LinksTold, RowsTold
<1>4. CASE ~Desk!OnLastPage /\ UNCHANGED <<request, page, walk>>
  <2>1. request' = request /\ page' = page /\ walk' = walk
      BY <1>4
  <2>2. ASSUME request # NONE PROVE Busy' /\ RequestExplains' /\ RequestFits' /\ RequestRemembers'
    <3>1. /\ request'.changes = request.changes \union {}
          /\ request'.offered = request.offered \union {}
          /\ {} \in SUBSET Desk!Changes /\ admins \subseteq request'.held
        BY <2>1, <2>2 DEF Stands, RequestRemembers
    <3> QED
        BY <1>1, <2>1, <2>2, <3>1, RequestAfterSignUp
  <2>3. PageFits' /\ PageExplains'
      BY <1>1, <2>1, ListsFitAfterSignUp
  <2>4. Desk!TypeOK'
      BY <1>2, <2>1 DEF Desk!TypeOK, Stands
  <2>5. WalkGoesOn'
    <3>1. WalkGoesOn
        BY DEF Stands
    <3>2. PICK s, n : s = walk.search /\ n = page.number
        OBVIOUS
    <3>3. \A u : Rank(walk.search, u)' = Rank(s, u)'
        BY <2>1, <3>2 DEF Rank, Desk!AheadOf, Desk!Listed
    <3>4. n * PerPage \in Nat
        BY <3>2, PageIsTyped, AdminUsersAssumption
    <3>5. ASSUME NEW u, Rank(s, u) >= n * PerPage PROVE Rank(s, u)' >= n * PerPage
      <4>1. Rank(s, u) \in Nat /\ Rank(s, u)' \in Nat /\ Rank(s, u) <= Rank(s, u)'
          BY <1>1, SignUpGrows
      <4> QED
          BY <3>4, <3>5, <4>1
    <3>6. Desk!HasNext' <=> Desk!HasNext
        BY <2>1 DEF Desk!HasNext
    <3>7. Unmet(walk.search, walk.present, walk.seen)'
             = Unmet(walk.search, walk.present, walk.seen)
        BY <2>1 DEF Unmet
    <3> QED
        BY <1>2, <2>1, <3>1, <3>2, <3>3, <3>5, <3>6, <3>7 DEF WalkGoesOn
  <2>6. ASSUME request # NONE PROVE RequestWalks'
    <3>1. RequestWalks
        BY <2>6 DEF Stands
    <3>2. PICK s, n, t : s = request.search /\ n = request.number /\ t = request.total
        OBVIOUS
    <3>3. \A u : Rank(request.search, u)' = Rank(s, u)'
        BY <2>1, <3>2 DEF Rank, Desk!AheadOf, Desk!Listed
    <3>4. n \in Int /\ n * PerPage \in Int /\ (n - 1) * PerPage \in Int
      <4>1. n \in Int
          BY <2>6, <3>2, RequestIsTyped DEF Stands, Desk!Unreadable
      <4> QED
          BY <4>1, AdminUsersAssumption
    <3>5. ASSUME NEW u, NEW k \in Int, Rank(s, u) >= k PROVE Rank(s, u)' >= k
      <4>1. Rank(s, u) \in Nat /\ Rank(s, u)' \in Nat /\ Rank(s, u) <= Rank(s, u)'
          BY <1>1, SignUpGrows
      <4> QED
          BY <3>5, <4>1
    <3>6. ASSUME NEW present, NEW seen, OnTheWay(present, seen) PROVE OnTheWay(present, seen)'
      <4>1. PICK unmet : unmet = Unmet(s, present, seen)
          OBVIOUS
      <4>2. (request.stage # "listed" => Ahead(unmet))'
          BY <2>1, <3>2, <3>3, <3>4, <3>5, <3>6, <4>1 DEF OnTheWay, Ahead
      <4>3. CountHolds'
        <5>1. ~(request.stage = "counted" /\ n >= Desk!TotalPages(t))
            BY <1>4, <2>6, <3>2 DEF Desk!OnLastPage
        <5>2. request'.stage = request.stage /\ request'.number = n /\ request'.total = t
            BY <2>1, <3>2
        <5> QED
            BY <5>1, <5>2 DEF CountHolds
      <4>4. Behind(unmet)'
        <5>1. request.stage = "listed" =>
                 \A u \in unmet \ request.listed : /\ Rank(s, u) >= n * PerPage
                                                   /\ n < Desk!TotalPages(t)
            BY <3>2, <3>6, <4>1 DEF OnTheWay, Behind
        <5>2. request.stage = "listed" =>
                 \A u \in unmet \ request.listed : /\ Rank(s, u)' >= n * PerPage
                                                   /\ n < Desk!TotalPages(t)
            BY <3>4, <3>5, <5>1
        <5>3. /\ request'.stage = request.stage /\ request'.number = n /\ request'.total = t
              /\ request'.listed = request.listed
            BY <2>1, <3>2
        <5> QED
            BY <3>3, <5>2, <5>3 DEF Behind
      <4>5. Unmet(request.search, present, seen)' = unmet
          BY <2>1, <3>2, <4>1 DEF Unmet
      <4> QED
          BY <4>2, <4>3, <4>4, <4>5 DEF OnTheWay
    <3>7. PICK p, a, b : p = request.present /\ a = walk.present /\ b = walk.seen
        OBVIOUS
    <3>8. request.op = "list" /\ s # "illegible" =>
            /\ n = 1 /\ request.changes \subseteq {"role"} => OnTheWay(p, {})'
            /\ walk # NONE => OnTheWay(a, b)'
        BY <3>1, <3>2, <3>6, <3>7 DEF RequestWalks
    <3>9. request'.present = p /\ walk'.present = a /\ walk'.seen = b
        BY <2>1, <3>7
    <3>10. \A x, y : (x = p /\ OnTheWay(p, {})' => OnTheWay(x, {})')
                     /\ (x = a /\ y = b /\ OnTheWay(a, b)' => OnTheWay(x, y)')
        OBVIOUS
    <3>11. request.op = "list" /\ s # "illegible" =>
            /\ n = 1 /\ request.changes \subseteq {"role"} => OnTheWay(request.present, {})'
            /\ walk # NONE => OnTheWay(walk.present, walk.seen)'
        BY <3>8, <3>9, <3>10
    <3> QED
        BY <2>1, <3>1, <3>2, <3>11 DEF RequestWalks
  <2>7. Stands'
      BY <1>2, <2>1, <2>2, <2>3, <2>4, <2>5, <2>6 DEF Stands
  <2> QED
      BY <2>1, <2>7 DEF Good, Told, DoorsTold, LinksTold, RowsTold
<1> QED
    BY <1>1, <1>3, <1>4 DEF Desk!SignUp

-----------------------------------------------------------------------------
LEMMA StandsAtFirst == Desk!Init => Stands
<1> SUFFICES ASSUME Desk!Init PROVE Stands
    OBVIOUS
<1>1. /\ issued \in Nat /\ Reader <= issued /\ issued <= MaxUsers /\ members = 1..issued
      /\ request = NONE /\ page = Desk!Nothing /\ walk = NONE
    BY AdminUsersAssumption DEF Desk!Init
<1>2. Reader \in 1..issued
    BY <1>1, AdminUsersAssumption
<1>3. admins \subseteq 1..issued /\ Reader \in admins
    BY <1>1, <1>2 DEF Desk!Init
<1>4. issued \in Desk!Users
    BY <1>1, <1>2, AdminUsersAssumption DEF Desk!Users
<1>5. Desk!TypeOK
    BY <1>1, <1>3, <1>4, BlankPage DEF Desk!TypeOK
<1>6. PageExplains /\ PageFits /\ WalkGoesOn
    BY <1>1, BlankPage DEF PageExplains, PageFits, WalkGoesOn, ForAdmins
<1> QED
    BY <1>1, <1>5, <1>6 DEF Stands

LEMMA StepKeeps == ASSUME Stands, Desk!Next PROVE Good
    BY OpenKeeps, FollowLinkKeeps, SearchKeeps, FollowPreviousKeeps, FollowNextKeeps, PressKeeps,
       ResolveReaderKeeps, ShowHomeKeeps, ShowHubKeeps, AuthorizeListKeeps, CountUsersKeeps,
       ListUsersKeeps, ListRolesKeeps, AuthorizeWriteKeeps, FindTargetKeeps, GrantKeeps,
       RevokeKeeps, FailKeeps, SignUpKeeps, LeaveKeeps, ChangeRoleKeeps
       DEF Desk!Next, Desk!Browser, Desk!Server, Desk!Others

LEMMA RestKeeps == ASSUME Stands, UNCHANGED Desk!desk PROVE Stands'
<1>1. /\ issued' = issued /\ members' = members /\ admins' = admins
      /\ request' = request /\ page' = page /\ walk' = walk
    BY DEF Desk!desk
<1>2. /\ Desk!TypeOK <=> Desk!TypeOK'
      /\ Busy <=> Busy'
    BY <1>1 DEF Desk!TypeOK, Busy
<1>3. RequestExplains <=> RequestExplains'
    BY <1>1 DEF RequestExplains
<1>4. RequestFits <=> RequestFits'
    BY <1>1 DEF RequestFits, Desk!Listed
<1>5. RequestRemembers <=> RequestRemembers'
    BY <1>1 DEF RequestRemembers
<1>6. RequestWalks <=> RequestWalks'
    BY <1>1 DEF RequestWalks, OnTheWay, Unmet, Ahead, CountHolds, Behind, Rank, Desk!AheadOf,
                Desk!Listed
<1>7. PageExplains <=> PageExplains'
    BY <1>1 DEF PageExplains
<1>8. PageFits <=> PageFits'
    BY <1>1 DEF PageFits, Desk!Listed
<1>9. WalkGoesOn <=> WalkGoesOn'
    BY <1>1 DEF WalkGoesOn, Desk!HasNext, Unmet, Rank, Desk!AheadOf, Desk!Listed
<1> QED
    BY <1>1, <1>2, <1>3, <1>4, <1>5, <1>6, <1>7, <1>8, <1>9 DEF Stands

LEMMA WalkEnds == ASSUME Stands PROVE Desk!ReadingOnMissesNobody
<1> SUFFICES ASSUME walk # NONE, page.view = "list", ~Desk!HasNext, walk.search # "illegible"
             PROVE  {u \in walk.present : walk.search = "" \/ u \in Matching} \subseteq walk.seen
    BY DEF Desk!ReadingOnMissesNobody
<1>1. \A u \in Unmet(walk.search, walk.present, walk.seen) : FALSE
    BY DEF Stands, WalkGoesOn
<1> QED
    BY <1>1 DEF Unmet

-----------------------------------------------------------------------------
LEMMA StandsAlways == Desk!Spec => []Stands
<1>1. Desk!Init => Stands
    BY StandsAtFirst
<1>2. Stands /\ [Desk!Next]_Desk!desk => Stands'
    BY StepKeeps, RestKeeps DEF Good
<1> QED
    BY <1>1, <1>2, PTL DEF Desk!Spec

\* The administration pages keep the types of their state.
THEOREM AdminUsersTypeCorrect == Desk!Spec => []Desk!TypeOK
<1>1. Stands => Desk!TypeOK
    BY DEF Stands
<1> QED
    BY <1>1, StandsAlways, PTL

\* Whoever reads the list from its first page to its last has met everybody who was there all
\* along, however many join it, for every size of a page.
THEOREM ReadingOnMissesNobodyAlways == Desk!Spec => []ReadingOnMissesNobody
<1>1. Stands => ReadingOnMissesNobody
    BY WalkEnds
       DEF ReadingOnMissesNobody, Desk!ReadingOnMissesNobody, HasNext, Desk!HasNext,
           TotalPages, Desk!TotalPages
<1> QED
    BY <1>1, StandsAlways, PTL

LEMMA SameDesk == Stands /\ [Desk!Next]_Desk!desk => [Told]_desk
<1>1. ASSUME Stands, Desk!Next PROVE Told
    BY <1>1, StepKeeps DEF Good
<1>2. Desk!desk' = Desk!desk => desk' = desk
    BY DEF Desk!desk, desk
<1> HIDE DEF Told
<1> QED
    BY <1>1, <1>2

\* No link, button or redirect leads an administrator to a closed door but by what others did.
THEOREM OpenDoors == Desk!Spec => AdministratorsAreLedToOpenDoors
<1>1. Stands /\ [Desk!Next]_Desk!desk =>
        [(request # NONE /\ request' = NONE) =>
            /\ page'.view = "sign_in" => "account" \in request.offered
            /\ page'.view = "forbidden" => request.offered \intersect {"role", "account"} # {}
            /\ page'.view = "not_found"
                 => request.offered \intersect {"members", "account"} # {}]_desk
    BY SameDesk, Zenon DEF Told, DoorsTold
<1> QED
    BY <1>1, StandsAlways, PTL DEF Desk!Spec, AdministratorsAreLedToOpenDoors

\* The links between the pages of the list lead to pages that have somebody on them, unless
\* somebody has withdrawn meanwhile.
THEOREM PageLinksAlwaysLeadToRows == Desk!Spec => PageLinksLeadToRows
<1>1. Stands /\ [Desk!Next]_Desk!desk =>
        [(request # NONE /\ request' = NONE /\ page'.view = "list"
            /\ "members" \notin request.offered /\ "account" \notin request.offered
            /\ page'.rows = {} /\ page'.search # "illegible")
          => request.number = 1 /\ page'.total = 0]_desk
    BY SameDesk, Zenon DEF Told, LinksTold
<1> QED
    BY <1>1, StandsAlways, PTL DEF Desk!Spec, PageLinksLeadToRows

\* Every row tells what was so at some moment of its request, and a page has room for its rows.
THEOREM RowsAlwaysWereTrue == Desk!Spec => RowsWereTrue
<1>1. Stands /\ [Desk!Next]_Desk!desk =>
        [(request # NONE /\ request' = NONE /\ page'.view = "list") =>
          /\ Cardinality(page'.rows) <= PerPage
          /\ \A row \in page'.rows :
              /\ row.id \in request.present \/ row.id > request.issued
              /\ row.admin => row.id \in request.held]_desk
    BY SameDesk, Zenon DEF Told, RowsTold
<1> QED
    BY <1>1, StandsAlways, PTL DEF Desk!Spec, RowsWereTrue
=============================================================================
