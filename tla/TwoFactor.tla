----------------------------- MODULE TwoFactor -----------------------------
(***************************************************************************)
(* The second factor of one account: enrolling, confirming and disabling   *)
(* it in the settings, while sign-ins complete with a code of the app or   *)
(* with a recovery code.                                                   *)
(*                                                                         *)
(* Every flow reads the setting in a validator and writes it, by the       *)
(* account alone, in a statement or transaction of its own.  What was read *)
(* is not read again.  Accounts do not touch each other's settings, so one *)
(* account is modelled; the slots are its browsers.                        *)
(***************************************************************************)
EXTENDS Integers, FiniteSets

CONSTANTS
    Requests,       \* slots for requests in flight
    NULL,
    CodesPerBatch,  \* recovery codes handed out at once
    MaxSecrets,     \* bound: secrets ever generated
    MaxBatches,     \* bound: batches of recovery codes ever generated
    MaxSessions     \* bound: sessions open at once

ASSUME TwoFactorAssumption ==
    /\ CodesPerBatch \in Nat \ {0}
    /\ MaxSecrets \in Nat
    /\ MaxBatches \in Nat
    /\ MaxSessions \in Nat
    /\ \A secret \in 1..MaxSecrets, enabled \in BOOLEAN,
          codes \in SUBSET ((1..MaxBatches) \X (1..CodesPerBatch)) :
            NULL # [secret |-> secret, enabled |-> enabled, codes |-> codes]

VARIABLES
    setting,    \* the row of user_two_factor_auths, NULL if there is none
    secrets,    \* how many secrets have been generated
    batches,    \* how many batches of recovery codes have been generated
    pending,    \* whether a browser holds a pending cookie that verifies
    sessions,   \* how many sessions are open
    requests,   \* the request in each slot
    scanned,    \* history: secrets shown since the row was last deleted
    displayed,  \* history: batches saved and shown since the row was last deleted
    used,       \* history: recovery codes that opened a session
    overwritten \* history: an overtaken sign-in has written its list over that of the row

history == <<used, overwritten>>

vars == <<setting, secrets, batches, pending, sessions, requests, scanned, displayed, history>>

Secrets == 1..MaxSecrets
Batches == 1..MaxBatches

\* No two recovery codes are alike, within a batch or across batches.
Codes == Batches \X (1..CodesPerBatch)

\* GenerateRecoveryCodes.
CodesOf(batch) == {batch} \X (1..CodesPerBatch)

UserTwoFactorAuth == [secret : Secrets, enabled : BOOLEAN, codes : SUBSET Codes]

\* What a request has read so far: the secret a code was checked against, or the
\* recovery codes and the one among them that was submitted.  A recovery is overtaken when the
\* list it read is deleted, or written back by another, before it has committed.
Request ==
    [stage : {"preparing", "conflicted", "reauthenticated", "admitted", "challenged"}]
    \union [stage : {"confirmed"}, secret : Secrets]
    \union [stage : {"recovering"}, codes : SUBSET Codes, code : Codes,
            overtaken : BOOLEAN]

TypeOK ==
    /\ setting \in UserTwoFactorAuth \union {NULL}
    /\ secrets \in 0..MaxSecrets
    /\ batches \in 0..MaxBatches
    /\ pending \in BOOLEAN
    /\ sessions \in 0..MaxSessions
    /\ requests \in [Requests -> Request \union {NULL}]
    /\ scanned \subseteq Secrets
    /\ displayed \subseteq Batches
    /\ used \subseteq Codes
    /\ overwritten \in BOOLEAN

Init ==
    /\ setting = NULL
    /\ secrets = 0
    /\ batches = 0
    /\ pending = FALSE
    /\ sessions = 0
    /\ requests = [r \in Requests |-> NULL]
    /\ scanned = {}
    /\ displayed = {}
    /\ used = {}
    /\ overwritten = FALSE

-----------------------------------------------------------------------------
(* The setting *)

\* FindEnabledByUserID: a setting that is being enrolled counts as none.
Enabled == setting # NULL /\ setting.enabled

Enrolling == setting # NULL /\ ~setting.enabled

At(r, stage) == requests[r] # NULL /\ requests[r].stage = stage

Free(r) == requests[r] = NULL

Reach(r, request) == requests' = [requests EXCEPT ![r] = request]

Finish(r) == requests' = [requests EXCEPT ![r] = NULL]

\* The request ends, and whoever has read the list of recovery codes has an old one from now on.
Overtake(r) ==
    requests' = [q \in Requests |->
        IF q = r THEN NULL
        ELSE IF At(q, "recovering") THEN [requests[q] EXCEPT !.overtaken = TRUE]
        ELSE requests[q]]

-----------------------------------------------------------------------------
(* Enrolling: PrepareTwoFactorAuthUsecase *)

\* resolveExisting with a row there: it answers at once, with the secret of the
\* row or, if the row is enabled, with no secret.
Shown == IF Enrolling THEN scanned \union {setting.secret} ELSE scanned

PrepareExisting(r) ==
    /\ Free(r)
    /\ sessions > 0
    /\ setting # NULL
    /\ scanned' = Shown
    /\ UNCHANGED <<setting, secrets, batches, pending, sessions, requests, displayed, history>>

PrepareAbsent(r) ==
    /\ Free(r)
    /\ sessions > 0
    /\ setting = NULL
    /\ Reach(r, [stage |-> "preparing"])
    /\ UNCHANGED <<setting, secrets, batches, pending, sessions, scanned, displayed, history>>

\* Mutation of Inserts: the insert replaces a row that is there.
InsertsAlways == TRUE

\* ON CONFLICT (user_id) DO NOTHING.
Inserts == setting = NULL

\* A secret is generated, and inserted unless a request was quicker.
Create(r) ==
    /\ At(r, "preparing")
    /\ secrets < MaxSecrets
    /\ secrets' = secrets + 1
    /\ \/ /\ Inserts
          /\ setting' = [secret |-> secrets + 1, enabled |-> FALSE, codes |-> {}]
          /\ scanned' = scanned \union {secrets + 1}
          /\ Finish(r)
       \/ /\ ~Inserts
          /\ Reach(r, [stage |-> "conflicted"])
          /\ UNCHANGED <<setting, scanned>>
    /\ UNCHANGED <<batches, pending, sessions, displayed, history>>

\* The second resolveExisting; without a row it is an error.
ResolveConflict(r) ==
    /\ At(r, "conflicted")
    /\ scanned' = Shown
    /\ Finish(r)
    /\ UNCHANGED <<setting, secrets, batches, pending, sessions, displayed, history>>

-----------------------------------------------------------------------------
(* Confirming: EnableTwoFactorAuthUsecase *)

\* SettingsTwoFactorAuthCreateValidator, with a code of the secret of the row.
\* The app can only have it from a page that showed the secret.
Confirm(r) ==
    /\ Free(r)
    /\ sessions > 0
    /\ Enrolling
    /\ setting.secret \in scanned
    /\ Reach(r, [stage |-> "confirmed", secret |-> setting.secret])
    /\ UNCHANGED <<setting, secrets, batches, pending, sessions, scanned, displayed, history>>

\* Mutation of Enables: the update has no AND enabled = FALSE.
EnablesAny == setting # NULL

\* UPDATE ... WHERE user_id = ? AND enabled = FALSE
Enables == Enrolling

\* The codes are shown only if they were saved.
Enable(r) ==
    /\ At(r, "confirmed")
    /\ batches < MaxBatches
    /\ batches' = batches + 1
    /\ \/ /\ Enables
          /\ setting' = [setting EXCEPT !.enabled = TRUE, !.codes = CodesOf(batches + 1)]
          /\ displayed' = displayed \union {batches + 1}
          /\ overwritten' = FALSE
       \/ /\ ~Enables
          /\ UNCHANGED <<setting, displayed, overwritten>>
    /\ Finish(r)
    /\ UNCHANGED <<secrets, pending, sessions, scanned, used>>

-----------------------------------------------------------------------------
(* Disabling: DisableTwoFactorAuthUsecase *)

\* The password, or a code of the app: the password needs no setting.
Reauthenticate(r) ==
    /\ Free(r)
    /\ sessions > 0
    /\ Reach(r, [stage |-> "reauthenticated"])
    /\ UNCHANGED <<setting, secrets, batches, pending, sessions, scanned, displayed, history>>

\* DELETE ... WHERE user_id = ?, whatever state the row is in.
Disable(r) ==
    /\ At(r, "reauthenticated")
    /\ setting' = NULL
    /\ scanned' = {}
    /\ displayed' = {}
    /\ overwritten' = FALSE
    /\ Overtake(r)
    /\ UNCHANGED <<secrets, batches, pending, sessions, used>>

-----------------------------------------------------------------------------
(* Signing in *)

\* SignInCreateValidator: the password is right.
SignIn(r) ==
    /\ Free(r)
    /\ \/ /\ Enabled
          /\ pending' = TRUE
          /\ UNCHANGED requests
       \/ /\ ~Enabled
          /\ Reach(r, [stage |-> "admitted"])
          /\ UNCHANGED pending
    /\ UNCHANGED <<setting, secrets, batches, sessions, scanned, displayed, history>>

\* SignInTwoFactorCreateValidator: a code of the secret of the row.
Challenge(r) ==
    /\ Free(r)
    /\ pending
    /\ Enabled
    /\ setting.secret \in scanned
    /\ Reach(r, [stage |-> "challenged"])
    /\ UNCHANGED <<setting, secrets, batches, pending, sessions, scanned, displayed, history>>

\* CreateSessionUsecase, after the password or after the challenge.
CreateSession(r) ==
    /\ At(r, "admitted") \/ At(r, "challenged")
    /\ sessions < MaxSessions
    /\ sessions' = sessions + 1
    /\ Finish(r)
    /\ UNCHANGED <<setting, secrets, batches, pending, scanned, displayed, history>>

\* SignInTwoFactorRecoveryCreateValidator: the code is one of those stored, and
\* all of them go to the use case.
Recover(r, code) ==
    /\ Free(r)
    /\ pending
    /\ Enabled
    /\ code \in setting.codes
    /\ Reach(r, [stage |-> "recovering", codes |-> setting.codes, code |-> code,
                 overtaken |-> FALSE])
    /\ UNCHANGED <<setting, secrets, batches, pending, sessions, scanned, displayed, history>>

\* Mutation of Remaining: the code stays in the list.
RemainingAll(r) == requests[r].codes

\* removeRecoveryCode works on the codes that were read.
Remaining(r) == requests[r].codes \ {requests[r].code}

\* consumeAndCreateSession: one transaction; an UPDATE of no row is no error.
ConsumeAndCreateSession(r) ==
    /\ At(r, "recovering")
    /\ sessions < MaxSessions
    /\ setting' = IF setting = NULL THEN NULL ELSE [setting EXCEPT !.codes = Remaining(r)]
    /\ sessions' = sessions + 1
    /\ Overtake(r)
    /\ used' = used \union {requests[r].code}
    /\ overwritten' = IF requests[r].overtaken /\ setting # NULL THEN TRUE ELSE overwritten
    /\ UNCHANGED <<secrets, batches, pending, scanned, displayed>>

\* The cookie runs out after ten minutes, or the browser is done with it.
DropPending ==
    /\ pending
    /\ pending' = FALSE
    /\ UNCHANGED <<setting, secrets, batches, sessions, requests, scanned, displayed, history>>

SignOut ==
    /\ sessions > 0
    /\ sessions' = sessions - 1
    /\ UNCHANGED <<setting, secrets, batches, pending, requests, scanned, displayed, history>>

\* A statement or the commit fails, or the process dies.
Fail(r) ==
    /\ ~Free(r)
    /\ Finish(r)
    /\ UNCHANGED <<setting, secrets, batches, pending, sessions, scanned, displayed, history>>

-----------------------------------------------------------------------------
SettingStep ==
    \E r \in Requests :
        \/ PrepareExisting(r)
        \/ PrepareAbsent(r)
        \/ Create(r)
        \/ ResolveConflict(r)
        \/ Confirm(r)
        \/ Enable(r)
        \/ Reauthenticate(r)
        \/ Disable(r)

SignInStep ==
    \/ \E r \in Requests :
        \/ SignIn(r)
        \/ Challenge(r)
        \/ CreateSession(r)
        \/ \E code \in Codes : Recover(r, code)
        \/ ConsumeAndCreateSession(r)
        \/ Fail(r)
    \/ DropPending
    \/ SignOut

Next == SettingStep \/ SignInStep

Spec == Init /\ [][Next]_vars

-----------------------------------------------------------------------------
(* What makes the second factor correct *)

\* Pages that enroll at the same time converge to one secret: whatever secret was shown since the
\* setting was last deleted is the one that confirming a code would check (ON CONFLICT DO NOTHING
\* and the second read in PrepareTwoFactorAuthUsecase).
EnrollmentsConverge ==
    setting # NULL => scanned \subseteq {setting.secret}

\* Two confirmations never both show recovery codes for one enrollment, so that no one keeps a list
\* that the other replaced (the guard enabled = FALSE in the UPDATE).
OneListIsShown == setting # NULL => Cardinality(displayed) <= 1

\* What pages have shown since the setting was last deleted is what the row has: its secret to all
\* of them, and its one list of recovery codes to the one that confirmed it.  What is stored of that
\* list is the whole of it but the codes that signed in, and nothing else, unless a sign-in that
\* was overtaken has written back the list it had read (enable_two_factor_auth.go,
\* consumeAndCreateSession).
ShownIsOfTheRow ==
    /\ setting = NULL => scanned = {} /\ displayed = {}
    /\ setting # NULL => scanned \subseteq {setting.secret}
    /\ Enrolling => displayed = {} /\ (overwritten \/ setting.codes = {})
    /\ Enabled => \E batch \in Batches :
        /\ displayed = {batch}
        /\ overwritten \/ setting.codes = CodesOf(batch) \ used

\* A recovery code signs in once.  Only a sign-in that was overtaken, by another one or by a deletion
\* of the setting, can spend a code again or bring spent ones back, and what it brings back is gone
\* with the next list that is shown (create_sign_in_two_factor_recovery.go).
CodesSignInOnceUnlessOvertaken ==
    [][\A r \in Requests :
        (/\ At(r, "recovering") /\ requests'[r] = NULL /\ sessions' = sessions + 1
         /\ requests[r].code \in used)
            => requests[r].overtaken \/ overwritten]_vars

\* "Neither a used-up code without a session nor a session without a consumed code is left"
\* (create_sign_in_two_factor_recovery.go): a code that opens a session is stored until then.
CodesWorkOnce ==
    [][\A r \in Requests :
        At(r, "recovering") /\ requests'[r] = NULL /\ sessions' = sessions + 1 =>
            setting # NULL /\ requests[r].code \in setting.codes]_vars

\* "It turns to enabled by way of the confirmation of a code" (the comment of
\* user_two_factor_auths): a secret is enabled by a request that checked a code of that secret.
EnabledSecretsAreConfirmed ==
    [][\A r \in Requests :
        At(r, "confirmed") /\ requests'[r] = NULL /\ ~Enabled /\ Enabled' =>
            requests[r].secret = setting.secret]_vars

=============================================================================
