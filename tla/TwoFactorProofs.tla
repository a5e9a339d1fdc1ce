-------------------------- MODULE TwoFactorProofs --------------------------
(***************************************************************************)
(* Proofs about TwoFactor, for any number of requests, secrets and codes:  *)
(* enrollments converge to one secret, one list of recovery codes is shown *)
(* for each, what is stored of it is what did not sign in yet, and a code  *)
(* signs in once, unless a sign-in was overtaken.                          *)
(***************************************************************************)
EXTENDS TwoFactor, FiniteSetTheorems, TLAPS

LEMMA TypeInit == Init => TypeOK
<1> SUFFICES ASSUME Init PROVE TypeOK
    OBVIOUS
<1>1. pending \in BOOLEAN /\ overwritten \in BOOLEAN
    BY Zenon DEF Init
<1>2. secrets \in 0..MaxSecrets /\ batches \in 0..MaxBatches /\ sessions \in 0..MaxSessions
    BY TwoFactorAssumption DEF Init
<1>3. requests \in [Requests -> Request \union {NULL}]
    BY DEF Init
<1> QED
    BY <1>1, <1>2, <1>3, Zenon DEF Init, TypeOK

LEMMA TypeReach ==
    ASSUME TypeOK, NEW r \in Requests, NEW request \in Request, Reach(r, request)
    PROVE  requests' \in [Requests -> Request \union {NULL}]
    BY DEF TypeOK, Reach

LEMMA TypeFinish ==
    ASSUME TypeOK, NEW r \in Requests, Finish(r)
    PROVE  requests' \in [Requests -> Request \union {NULL}]
    BY DEF TypeOK, Finish

\* Being overtaken changes the type of no request.
LEMMA TypeOvertake ==
    ASSUME TypeOK, NEW r \in Requests, Overtake(r)
    PROVE  requests' \in [Requests -> Request \union {NULL}]
<1>1. ASSUME NEW q \in Requests, At(q, "recovering")
      PROVE  [requests[q] EXCEPT !.overtaken = TRUE] \in Request
  <2>1. requests[q] \in Request /\ requests[q].stage = "recovering"
      BY <1>1 DEF At, TypeOK
  <2>2. requests[q] \in [stage : {"recovering"}, codes : SUBSET Codes, code : Codes,
                         overtaken : BOOLEAN]
      BY <2>1 DEF Request
  <2> QED
      BY <2>2 DEF Request
<1> QED
    BY <1>1 DEF TypeOK, Overtake

LEMMA PlainRequests ==
    \A stage \in {"preparing", "conflicted", "reauthenticated", "admitted", "challenged"} :
        [stage |-> stage] \in Request
    BY DEF Request

LEMMA SettingIsTyped ==
    ASSUME TypeOK, setting # NULL
    PROVE  /\ setting \in UserTwoFactorAuth
           /\ setting.secret \in Secrets
           /\ setting.codes \subseteq Codes
    BY DEF TypeOK, UserTwoFactorAuth

\* A row is not the absence of one.
LEMMA RowIsNotNull == NULL \notin UserTwoFactorAuth
<1> SUFFICES ASSUME NULL \in UserTwoFactorAuth PROVE FALSE
    OBVIOUS
<1>1. PICK secret \in Secrets, enabled \in BOOLEAN, codes \in SUBSET Codes :
        NULL = [secret |-> secret, enabled |-> enabled, codes |-> codes]
    BY DEF UserTwoFactorAuth
<1> QED
    BY <1>1, TwoFactorAssumption, SMT DEF Secrets, Codes, Batches

LEMMA NewBatch ==
    ASSUME TypeOK, batches < MaxBatches
    PROVE  /\ batches + 1 \in Batches
           /\ batches + 1 \in 0..MaxBatches
           /\ CodesOf(batches + 1) \subseteq Codes
<1>1. batches + 1 \in Batches /\ batches + 1 \in 0..MaxBatches
    BY TwoFactorAssumption DEF TypeOK, Batches
<1> QED
    BY <1>1 DEF CodesOf, Codes

LEMMA TypeShown == ASSUME TypeOK PROVE Shown \subseteq Secrets
    BY SettingIsTyped DEF Shown, Enrolling, TypeOK

LEMMA TypeCreate ==
    ASSUME TypeOK, NEW r \in Requests, Create(r)
    PROVE  TypeOK'
<1>1. secrets + 1 \in Secrets /\ secrets' \in 0..MaxSecrets
    BY TwoFactorAssumption DEF Create, TypeOK, Secrets
<1>2. requests' \in [Requests -> Request \union {NULL}]
    BY TypeReach, TypeFinish, PlainRequests DEF Create
<1>3. [secret |-> secrets + 1, enabled |-> FALSE, codes |-> {}] \in UserTwoFactorAuth
    BY <1>1 DEF UserTwoFactorAuth
<1>4. setting' \in UserTwoFactorAuth \union {NULL} /\ scanned' \subseteq Secrets
    BY <1>1, <1>3 DEF Create, TypeOK
<1> QED
    BY <1>1, <1>2, <1>4 DEF Create, TypeOK, history

LEMMA TypeEnable ==
    ASSUME TypeOK, NEW r \in Requests, Enable(r)
    PROVE  TypeOK'
<1>1. requests' \in [Requests -> Request \union {NULL}]
    BY TypeFinish DEF Enable
<1>2. /\ batches' = batches + 1
      /\ batches + 1 \in Batches /\ batches + 1 \in 0..MaxBatches
      /\ CodesOf(batches + 1) \subseteq Codes
    BY NewBatch DEF Enable
<1>3. CASE Enables
  <2> DEFINE row == [setting EXCEPT !.enabled = TRUE, !.codes = CodesOf(batches + 1)]
  <2>1. setting' = row /\ displayed' = displayed \union {batches + 1}
      BY <1>3 DEF Enable
  <2>2. row \in UserTwoFactorAuth
      BY <1>2, <1>3, SettingIsTyped DEF UserTwoFactorAuth, Enables, Enrolling
  <2> HIDE DEF row
  <2> QED
      BY <1>1, <1>2, <2>1, <2>2 DEF Enable, TypeOK
<1>4. CASE ~Enables
    BY <1>1, <1>2, <1>4 DEF Enable, TypeOK
<1> QED
    BY <1>3, <1>4

LEMMA RecoveringIsTyped ==
    ASSUME TypeOK, NEW r \in Requests, At(r, "recovering")
    PROVE  requests[r].codes \subseteq Codes /\ requests[r].code \in Codes
    BY DEF TypeOK, At, Request

LEMMA TypeConsumedRow ==
    ASSUME TypeOK, NEW r \in Requests, ConsumeAndCreateSession(r), setting # NULL
    PROVE  [setting EXCEPT !.codes = Remaining(r)] \in UserTwoFactorAuth
<1>1. Remaining(r) \subseteq Codes
    BY RecoveringIsTyped DEF ConsumeAndCreateSession, Remaining
<1> QED
    BY <1>1, SettingIsTyped DEF UserTwoFactorAuth

LEMMA TypeConsume ==
    ASSUME TypeOK, NEW r \in Requests, ConsumeAndCreateSession(r)
    PROVE  TypeOK'
<1>2. setting # NULL => [setting EXCEPT !.codes = Remaining(r)] \in UserTwoFactorAuth
    BY TypeConsumedRow
<1>3. setting' \in UserTwoFactorAuth \union {NULL}
    BY <1>2 DEF ConsumeAndCreateSession
<1>4. requests' \in [Requests -> Request \union {NULL}]
    BY TypeOvertake DEF ConsumeAndCreateSession
<1>5. sessions' \in 0..MaxSessions
    BY TwoFactorAssumption DEF ConsumeAndCreateSession, TypeOK
<1>6. used' \subseteq Codes
    BY RecoveringIsTyped DEF ConsumeAndCreateSession, TypeOK
<1>7. overwritten' \in BOOLEAN
    BY Zenon DEF ConsumeAndCreateSession, TypeOK
<1> QED
    BY <1>3, <1>4, <1>5, <1>6, <1>7 DEF ConsumeAndCreateSession, TypeOK

LEMMA TypeSettingStep ==
    ASSUME TypeOK, SettingStep
    PROVE  TypeOK'
<1>1. PICK r \in Requests :
        \/ PrepareExisting(r)
        \/ PrepareAbsent(r)
        \/ Create(r)
        \/ ResolveConflict(r)
        \/ Confirm(r)
        \/ Enable(r)
        \/ Reauthenticate(r)
        \/ Disable(r)
    BY DEF SettingStep
<1>2. CASE PrepareExisting(r)
    BY <1>2, TypeShown DEF PrepareExisting, TypeOK, history
<1>3. CASE PrepareAbsent(r)
    BY <1>3, TypeReach, PlainRequests DEF PrepareAbsent, TypeOK, history
<1>4. CASE ResolveConflict(r)
    BY <1>4, TypeFinish, TypeShown DEF ResolveConflict, TypeOK, history
<1>5. CASE Confirm(r)
  <2>1. [stage |-> "confirmed", secret |-> setting.secret] \in Request
      BY <1>5, SettingIsTyped DEF Confirm, Enrolling, Request
  <2> QED
      BY <1>5, <2>1, TypeReach DEF Confirm, TypeOK, history
<1>6. CASE Reauthenticate(r)
    BY <1>6, TypeReach, PlainRequests DEF Reauthenticate, TypeOK, history
<1>7. CASE Disable(r)
    BY <1>7, TypeOvertake DEF Disable, TypeOK, history
<1> QED
    BY <1>1, <1>2, <1>3, <1>4, <1>5, <1>6, <1>7, TypeCreate, TypeEnable

LEMMA TypeSignInStep ==
    ASSUME TypeOK, SignInStep
    PROVE  TypeOK'
<1>1. ASSUME NEW r \in Requests, SignIn(r) PROVE TypeOK'
    BY <1>1, TypeReach, PlainRequests DEF SignIn, TypeOK, history
<1>2. ASSUME NEW r \in Requests, Challenge(r) PROVE TypeOK'
    BY <1>2, TypeReach, PlainRequests DEF Challenge, TypeOK, history
<1>3. ASSUME NEW r \in Requests, CreateSession(r) PROVE TypeOK'
  <2>1. sessions' \in 0..MaxSessions
      BY <1>3, TwoFactorAssumption DEF CreateSession, TypeOK
  <2> QED
      BY <1>3, <2>1, TypeFinish DEF CreateSession, TypeOK, history
<1>4. ASSUME NEW r \in Requests, NEW code \in Codes, Recover(r, code) PROVE TypeOK'
  <2>1. [stage |-> "recovering", codes |-> setting.codes, code |-> code,
         overtaken |-> FALSE] \in Request
      BY <1>4, SettingIsTyped DEF Recover, Enabled, Request
  <2> QED
      BY <1>4, <2>1, TypeReach DEF Recover, TypeOK, history
<1>5. ASSUME NEW r \in Requests, Fail(r) PROVE TypeOK'
    BY <1>5, TypeFinish DEF Fail, TypeOK, history
<1>6. CASE DropPending
    BY <1>6 DEF DropPending, TypeOK, history
<1>7. CASE SignOut
    BY <1>7, TwoFactorAssumption DEF SignOut, TypeOK, history
<1> QED
    BY <1>1, <1>2, <1>3, <1>4, <1>5, <1>6, <1>7, TypeConsume DEF SignInStep

LEMMA TypeStep == TypeOK /\ [Next]_vars => TypeOK'
<1>1. CASE UNCHANGED vars
    BY <1>1 DEF vars, TypeOK, history
<1> QED
    BY <1>1, TypeSettingStep, TypeSignInStep DEF Next

\* Every variable keeps its type.
THEOREM TwoFactorTypeCorrect == Spec => []TypeOK
    BY TypeInit, TypeStep, PTL DEF Spec

-----------------------------------------------------------------------------
(* The inductive invariant.  What was shown belongs to the row that is there.
   A sign-in that was not overtaken has read the list that is stored, which is
   why writing back the rest of it spends one code and nothing else; and no
   code is of a list that was not generated yet, which is why a new one is
   free of used codes. *)

\* What a sign-in with a recovery code has read.
ReadListsAreStored ==
    \A r \in Requests : At(r, "recovering") =>
        /\ requests[r].code \in requests[r].codes
        /\ ~requests[r].overtaken => Enabled /\ setting.codes = requests[r].codes

Old(codes) == \A code \in codes : code[1] <= batches

CodesAreOld ==
    /\ Old(used)
    /\ setting # NULL => Old(setting.codes)
    /\ \A r \in Requests : At(r, "recovering") => Old(requests[r].codes)

Sound == TypeOK /\ ShownIsOfTheRow /\ ReadListsAreStored /\ CodesAreOld

LEMMA SoundInit == Init => Sound
<1> SUFFICES ASSUME Init PROVE Sound
    OBVIOUS
<1>1. ShownIsOfTheRow
    BY DEF Init, ShownIsOfTheRow, Enrolling, Enabled
<1>2. ReadListsAreStored /\ CodesAreOld
    BY DEF Init, ReadListsAreStored, CodesAreOld, Old, At
<1> QED
    BY <1>1, <1>2, TypeInit DEF Sound

\* Requests that end or go on without reading a list, beside the same setting.
LEMMA RequestsRest ==
    ASSUME Sound, TypeOK', UNCHANGED <<setting, scanned, displayed, history>>, batches' >= batches,
           \A r \in Requests : At(r, "recovering")' => requests'[r] = requests[r]
    PROVE  Sound'
<1>1. batches \in Nat /\ batches' \in Nat
    BY TwoFactorAssumption DEF Sound, TypeOK
<1>2. \A c \in Codes : c[1] \in Nat
    BY TwoFactorAssumption DEF Codes, Batches
<1>3. \A codes \in SUBSET Codes : Old(codes) => Old(codes)'
    BY <1>1, <1>2 DEF Old
<1>4. ShownIsOfTheRow'
    BY DEF Sound, ShownIsOfTheRow, Enrolling, Enabled, history
<1>5. ReadListsAreStored'
    BY DEF Sound, ReadListsAreStored, At, Enabled
<1>6. CodesAreOld'
  <2>1. Old(used)'
      BY <1>3 DEF Sound, CodesAreOld, TypeOK, Old, history
  <2>2. setting' # NULL => Old(setting.codes)'
      BY <1>3, SettingIsTyped DEF Sound, CodesAreOld, Old
  <2>3. ASSUME NEW r \in Requests, At(r, "recovering")' PROVE Old(requests[r].codes)'
    <3>1. At(r, "recovering") /\ requests'[r].codes = requests[r].codes
        BY <2>3 DEF At
    <3> QED
        BY <1>3, <3>1, RecoveringIsTyped DEF Sound, CodesAreOld, Old
  <2> QED
      BY <2>1, <2>2, <2>3 DEF CodesAreOld
<1> QED
    BY <1>4, <1>5, <1>6 DEF Sound

LEMMA Finishes ==
    ASSUME TypeOK, NEW r \in Requests, Finish(r)
    PROVE  \A q \in Requests : At(q, "recovering")' => requests'[q] = requests[q]
    BY DEF TypeOK, Finish, At

LEMMA Reaches ==
    ASSUME TypeOK, NEW r \in Requests, NEW request, request.stage # "recovering",
           Reach(r, request)
    PROVE  \A q \in Requests : At(q, "recovering")' => requests'[q] = requests[q]
    BY DEF TypeOK, Reach, At

\* What is shown of a row that is there.
LEMMA ShowingKeeps ==
    ASSUME Sound, TypeOK', scanned' = Shown, UNCHANGED <<setting, displayed, batches, history>>,
           \A r \in Requests : At(r, "recovering")' => requests'[r] = requests[r]
    PROVE  Sound'
<1>1. ShownIsOfTheRow'
    BY DEF Sound, Shown, ShownIsOfTheRow, Enrolling, Enabled, history
<1>2. ReadListsAreStored'
    BY DEF Sound, ReadListsAreStored, At, Enabled
<1>3. CodesAreOld'
    BY DEF Sound, CodesAreOld, At, Old, history
<1> QED
    BY <1>1, <1>2, <1>3 DEF Sound

LEMMA CreateKeeps ==
    ASSUME Sound, NEW r \in Requests, Create(r)
    PROVE  Sound'
<1>1. TypeOK'
    BY TypeCreate DEF Sound
<1>2. \A q \in Requests : At(q, "recovering")' => requests'[q] = requests[q]
  <2>1. [stage |-> "conflicted"].stage # "recovering"
      OBVIOUS
  <2> QED
      BY <2>1, Finishes, Reaches DEF Sound, Create
<1>3. CASE Inserts
  <2>1. setting = NULL /\ scanned = {} /\ displayed = {}
      BY <1>3 DEF Inserts, Sound, ShownIsOfTheRow
  <2>2. setting' = [secret |-> secrets + 1, enabled |-> FALSE, codes |-> {}]
      BY <1>3 DEF Create
  <2>3. scanned' = {secrets + 1} /\ UNCHANGED <<displayed, batches, history>>
      BY <1>3, <2>1 DEF Create
  <2>4. [secret |-> secrets + 1, enabled |-> FALSE, codes |-> {}] \in UserTwoFactorAuth
      BY TwoFactorAssumption DEF Create, Sound, TypeOK, Secrets, UserTwoFactorAuth
  <2>5. setting' # NULL
      BY <2>2, <2>4, RowIsNotNull
  <2>6. setting'.secret = secrets + 1 /\ ~setting'.enabled /\ setting'.codes = {}
      BY <2>2
  <2>7. ShownIsOfTheRow'
      BY <2>1, <2>3, <2>5, <2>6 DEF ShownIsOfTheRow, Enrolling, Enabled
  <2>8. ReadListsAreStored'
      BY <1>2, <2>1 DEF Sound, ReadListsAreStored, At, Enabled
  <2>9. CodesAreOld'
      BY <1>2, <2>3, <2>6 DEF Sound, CodesAreOld, At, Old, history
  <2> QED
      BY <1>1, <2>7, <2>8, <2>9 DEF Sound
<1>4. CASE ~Inserts
  <2>1. batches' >= batches
      BY TwoFactorAssumption DEF Create, Sound, TypeOK
  <2> QED
      BY <1>1, <1>2, <1>4, <2>1, RequestsRest DEF Create
<1> QED
    BY <1>3, <1>4

LEMMA EnableKeeps ==
    ASSUME Sound, NEW r \in Requests, Enable(r)
    PROVE  Sound'
<1>1. TypeOK'
    BY TypeEnable DEF Sound
<1>2. \A q \in Requests : At(q, "recovering")' => requests'[q] = requests[q]
    BY Finishes DEF Sound, Enable
<1>3. batches \in Nat /\ batches' = batches + 1 /\ batches + 1 \in Batches
    BY NewBatch, TwoFactorAssumption DEF Sound, TypeOK, Enable
<1>4. CASE Enables
  <2> DEFINE row == [setting EXCEPT !.enabled = TRUE, !.codes = CodesOf(batches + 1)]
  <2>1. setting' = row /\ displayed' = {batches + 1} /\ UNCHANGED <<scanned, used>>
      BY <1>4 DEF Enable, Enables, Sound, ShownIsOfTheRow
  <2>2. setting # NULL /\ row.secret = setting.secret /\ row.enabled
        /\ row.codes = CodesOf(batches + 1)
      BY <1>4, SettingIsTyped DEF Enables, Enrolling, UserTwoFactorAuth, Sound
  <2>3. CodesOf(batches + 1) \subseteq Codes
      BY NewBatch DEF Enable, Sound
  <2>4. row \in UserTwoFactorAuth
      BY <2>2, <2>3, SettingIsTyped DEF UserTwoFactorAuth, Sound
  <2> HIDE DEF row
  <2>5. setting' # NULL /\ setting'.enabled /\ setting'.secret = setting.secret
        /\ setting'.codes = CodesOf(batches + 1)
      BY <2>1, <2>2, <2>4, RowIsNotNull
  <2>6. Enabled' /\ ~Enrolling'
      BY <2>5 DEF Enabled, Enrolling
  <2>7. scanned' \subseteq {setting'.secret}
      BY <2>1, <2>2, <2>5 DEF Sound, ShownIsOfTheRow
  \* A new list is free of used codes.
  <2>8. CodesOf(batches + 1) = CodesOf(batches + 1) \ used
    <3>1. \A code \in CodesOf(batches + 1) : code[1] = batches + 1
        BY DEF CodesOf
    <3> QED
        BY <1>3, <3>1 DEF Sound, CodesAreOld, Old
  <2>9. ShownIsOfTheRow'
    <3>1. setting'.codes = CodesOf(batches + 1) \ used'
        BY <2>1, <2>5, <2>8
    <3>2. \E batch \in Batches :
              displayed' = {batch} /\ setting'.codes = CodesOf(batch) \ used'
        BY <1>3, <2>1, <3>1
    <3> QED
        BY <2>5, <2>6, <2>7, <3>2 DEF ShownIsOfTheRow, CodesOf
  <2>10. ReadListsAreStored'
    <3>1. ~Enabled
        BY <1>4 DEF Enables, Enrolling, Enabled
    <3> QED
        BY <1>2, <3>1 DEF Sound, ReadListsAreStored, At
  <2>11. CodesAreOld'
    <3>1. \A code \in Codes : code[1] \in Nat
        BY TwoFactorAssumption DEF Codes, Batches
    <3>2. \A codes \in SUBSET Codes : Old(codes) => Old(codes)'
        BY <1>3, <3>1 DEF Old
    <3>3. Old(used)'
        BY <2>1, <3>2 DEF Sound, CodesAreOld, TypeOK, Old
    <3>4. Old(setting.codes)'
        BY <1>3, <2>5 DEF Old, CodesOf
    <3>5. ASSUME NEW q \in Requests, At(q, "recovering")' PROVE Old(requests[q].codes)'
      <4>1. At(q, "recovering") /\ requests'[q].codes = requests[q].codes
          BY <1>2, <3>5 DEF At
      <4> QED
          BY <3>2, <4>1, RecoveringIsTyped DEF Sound, CodesAreOld, Old
    <3> QED
        BY <3>3, <3>4, <3>5 DEF CodesAreOld
  <2> QED
      BY <1>1, <2>9, <2>10, <2>11 DEF Sound
<1>5. CASE ~Enables
    BY <1>1, <1>2, <1>3, <1>5, RequestsRest DEF Enable, history
<1> QED
    BY <1>4, <1>5

\* Who is overtaken still has the list it read.
LEMMA Overtakes ==
    ASSUME TypeOK, NEW r \in Requests, Overtake(r)
    PROVE  \A q \in Requests : At(q, "recovering")' =>
               /\ At(q, "recovering") /\ requests'[q].overtaken
               /\ requests'[q].codes = requests[q].codes /\ requests'[q].code = requests[q].code
<1> SUFFICES ASSUME NEW q \in Requests, At(q, "recovering")'
             PROVE  /\ At(q, "recovering") /\ requests'[q].overtaken
                    /\ requests'[q].codes = requests[q].codes
                    /\ requests'[q].code = requests[q].code
    OBVIOUS
<1>1. q # r /\ At(q, "recovering")
    BY DEF Overtake, At
<1>2. requests'[q] = [requests[q] EXCEPT !.overtaken = TRUE]
    BY <1>1 DEF Overtake
<1>3. requests[q] \in [stage : {"recovering"}, codes : SUBSET Codes, code : Codes,
                       overtaken : BOOLEAN]
    BY <1>1 DEF At, TypeOK, Request
<1> QED
    BY <1>1, <1>2, <1>3

LEMMA DisableKeeps ==
    ASSUME Sound, TypeOK', NEW r \in Requests, Disable(r)
    PROVE  Sound'
<1>1. \A q \in Requests : At(q, "recovering")' =>
          /\ At(q, "recovering") /\ requests'[q].overtaken
          /\ requests'[q].codes = requests[q].codes /\ requests'[q].code = requests[q].code
    BY Overtakes DEF Sound, Disable
<1>2. setting' = NULL /\ scanned' = {} /\ displayed' = {} /\ UNCHANGED <<batches, used>>
    BY DEF Disable
<1>3. ShownIsOfTheRow'
    BY <1>2 DEF ShownIsOfTheRow, Enrolling, Enabled
<1>4. ReadListsAreStored'
    BY <1>1 DEF Sound, ReadListsAreStored
<1>5. CodesAreOld'
    BY <1>1, <1>2 DEF Sound, CodesAreOld, Old
<1> QED
    BY <1>3, <1>4, <1>5 DEF Sound

LEMMA ConsumeKeeps ==
    ASSUME Sound, NEW r \in Requests, ConsumeAndCreateSession(r)
    PROVE  Sound'
<1>1. TypeOK'
    BY TypeConsume DEF Sound
<1>2. \A q \in Requests : At(q, "recovering")' =>
          /\ At(q, "recovering") /\ requests'[q].overtaken
          /\ requests'[q].codes = requests[q].codes /\ requests'[q].code = requests[q].code
    BY Overtakes DEF Sound, ConsumeAndCreateSession
<1>3. /\ At(r, "recovering") /\ UNCHANGED <<batches, scanned, displayed>>
      /\ used' = used \union {requests[r].code}
    BY DEF ConsumeAndCreateSession
<1>4. ReadListsAreStored'
    BY <1>2 DEF Sound, ReadListsAreStored
<1>5. setting # NULL =>
          /\ setting' # NULL /\ setting'.secret = setting.secret
          /\ setting'.enabled = setting.enabled /\ setting'.codes = Remaining(r)
  <2> SUFFICES ASSUME setting # NULL
               PROVE  /\ setting' # NULL /\ setting'.secret = setting.secret
                      /\ setting'.enabled = setting.enabled /\ setting'.codes = Remaining(r)
      OBVIOUS
  <2> DEFINE row == [setting EXCEPT !.codes = Remaining(r)]
  <2>1. setting' = row
      BY DEF ConsumeAndCreateSession
  <2>2. row.secret = setting.secret /\ row.enabled = setting.enabled /\ row.codes = Remaining(r)
      BY SettingIsTyped DEF UserTwoFactorAuth, Sound
  <2>3. row # NULL
      BY TypeConsumedRow, RowIsNotNull DEF Sound
  <2> HIDE DEF row
  <2> QED
      BY <2>1, <2>2, <2>3
<1>6. setting = NULL => setting' = NULL
    BY DEF ConsumeAndCreateSession
<1>7. CodesAreOld'
  <2>1. Old(requests[r].codes) /\ requests[r].code \in requests[r].codes /\ Old(used)
      BY <1>3 DEF Sound, CodesAreOld, ReadListsAreStored
  <2>2. Old(used)'
      BY <1>3, <2>1 DEF Old
  <2>3. setting' # NULL => Old(setting.codes)'
      BY <1>3, <1>5, <1>6, <2>1 DEF Old, Remaining
  <2> QED
      BY <1>2, <1>3, <2>2, <2>3 DEF Sound, CodesAreOld, Old
<1>8. ShownIsOfTheRow'
  <2>1. CASE setting = NULL
      BY <1>3, <1>6, <2>1 DEF Sound, ShownIsOfTheRow, Enrolling, Enabled
  <2>2. CASE setting # NULL /\ requests[r].overtaken
    <3>1. overwritten'
        BY <2>2, Zenon DEF ConsumeAndCreateSession
    <3>2. (Enabled' <=> Enabled) /\ (Enrolling' <=> Enrolling)
        BY <1>5, <2>2 DEF Enabled, Enrolling
    <3> QED
        BY <1>3, <1>5, <2>2, <3>1, <3>2 DEF Sound, ShownIsOfTheRow
  <2>3. CASE setting # NULL /\ ~requests[r].overtaken
    <3>1. Enabled /\ setting.codes = requests[r].codes
        BY <1>3, <2>3 DEF Sound, ReadListsAreStored
    <3>2. Enabled' /\ ~Enrolling'
        BY <1>5, <2>3, <3>1 DEF Enabled, Enrolling
    <3>3. PICK batch \in Batches : /\ displayed = {batch}
                                   /\ overwritten \/ setting.codes = CodesOf(batch) \ used
        BY <3>1 DEF Sound, ShownIsOfTheRow
    <3>4. overwritten' <=> overwritten
        BY <2>3, Zenon DEF ConsumeAndCreateSession
    <3>5. setting.codes = CodesOf(batch) \ used => setting'.codes = CodesOf(batch) \ used'
        BY <1>3, <1>5, <2>3, <3>1 DEF Remaining
    <3>6. displayed' = {batch} /\ (overwritten' \/ setting'.codes = CodesOf(batch) \ used')
        BY <1>3, <3>3, <3>4, <3>5
    <3>7. scanned' \subseteq {setting'.secret}
        BY <1>3, <1>5, <2>3 DEF Sound, ShownIsOfTheRow
    <3> QED
        BY <1>5, <2>3, <3>2, <3>6, <3>7 DEF ShownIsOfTheRow, CodesOf
  <2> QED
      BY <2>1, <2>2, <2>3
<1> QED
    BY <1>1, <1>4, <1>7, <1>8 DEF Sound

LEMMA RecoverKeeps ==
    ASSUME Sound, TypeOK', NEW r \in Requests, NEW code \in Codes, Recover(r, code)
    PROVE  Sound'
<1> DEFINE request == [stage |-> "recovering", codes |-> setting.codes, code |-> code,
                       overtaken |-> FALSE]
<1>1. \A q \in Requests : requests'[q] = IF q = r THEN request ELSE requests[q]
    BY DEF Recover, Reach, Sound, TypeOK
<1>2. /\ request.codes = setting.codes /\ request.code = code
      /\ Enabled /\ code \in setting.codes
      /\ UNCHANGED <<setting, batches, scanned, displayed, history>>
    BY DEF Recover
<1> HIDE DEF request
<1>3. ShownIsOfTheRow'
    BY <1>2 DEF Sound, ShownIsOfTheRow, Enrolling, Enabled, history
<1>4. ReadListsAreStored'
    BY <1>1, <1>2 DEF Sound, ReadListsAreStored, At, Enabled
<1>5. CodesAreOld'
    BY <1>1, <1>2 DEF Sound, CodesAreOld, At, Enabled, Old, history
<1> QED
    BY <1>3, <1>4, <1>5 DEF Sound

LEMMA SoundStep == Sound /\ [Next]_vars => Sound'
<1> SUFFICES ASSUME Sound, [Next]_vars PROVE Sound'
    OBVIOUS
<1>1. TypeOK' /\ batches >= batches
    BY TypeStep, TwoFactorAssumption DEF Sound, TypeOK
<1>2. ASSUME UNCHANGED <<setting, batches, scanned, displayed, history>>,
             \A r \in Requests : At(r, "recovering")' => requests'[r] = requests[r]
      PROVE  Sound'
    BY <1>1, <1>2, RequestsRest
<1>3. ASSUME UNCHANGED <<setting, batches, scanned, displayed, requests, history>> PROVE Sound'
    BY <1>2, <1>3 DEF At
<1>4. ASSUME NEW r \in Requests, Finish(r),
             UNCHANGED <<setting, batches, scanned, displayed, history>>
      PROVE  Sound'
    BY <1>2, <1>4, Finishes DEF Sound
<1>5. ASSUME NEW r \in Requests, NEW request, request.stage # "recovering", Reach(r, request),
             UNCHANGED <<setting, batches, scanned, displayed, history>>
      PROVE  Sound'
    BY <1>2, <1>5, Reaches DEF Sound
<1>6. CASE SettingStep
  <2>1. PICK r \in Requests :
            \/ PrepareExisting(r)
            \/ PrepareAbsent(r)
            \/ Create(r)
            \/ ResolveConflict(r)
            \/ Confirm(r)
            \/ Enable(r)
            \/ Reauthenticate(r)
            \/ Disable(r)
      BY <1>6 DEF SettingStep
  <2>2. CASE PrepareExisting(r)
      BY <1>1, <2>2, ShowingKeeps DEF PrepareExisting, At
  <2>3. CASE ResolveConflict(r)
      BY <1>1, <2>3, ShowingKeeps, Finishes DEF ResolveConflict, Sound
  <2>4. CASE PrepareAbsent(r)
      BY <1>5, <2>4 DEF PrepareAbsent
  <2>5. CASE Confirm(r)
      BY <1>5, <2>5 DEF Confirm
  <2>6. CASE Reauthenticate(r)
      BY <1>5, <2>6 DEF Reauthenticate
  <2> QED
      BY <1>1, <2>1, <2>2, <2>3, <2>4, <2>5, <2>6, CreateKeeps, EnableKeeps, DisableKeeps
<1>7. CASE SignInStep
  <2>1. ASSUME NEW r \in Requests, SignIn(r) PROVE Sound'
      BY <1>3, <1>5, <2>1 DEF SignIn
  <2>2. ASSUME NEW r \in Requests, Challenge(r) PROVE Sound'
      BY <1>5, <2>2 DEF Challenge
  <2>3. ASSUME NEW r \in Requests, CreateSession(r) \/ Fail(r) PROVE Sound'
      BY <1>4, <2>3 DEF CreateSession, Fail
  <2>4. CASE DropPending \/ SignOut
      BY <1>3, <2>4 DEF DropPending, SignOut
  <2> QED
      BY <1>1, <1>7, <2>1, <2>2, <2>3, <2>4, RecoverKeeps, ConsumeKeeps DEF SignInStep
<1>8. CASE UNCHANGED vars
    BY <1>3, <1>8 DEF vars
<1> QED
    BY <1>6, <1>7, <1>8 DEF Next

LEMMA SoundAlways == Spec => []Sound
    BY SoundInit, SoundStep, PTL DEF Spec

-----------------------------------------------------------------------------
\* What pages have shown since the setting was last deleted is what the row has: its secret, and
\* its recovery codes but those that signed in, unless an overtaken sign-in wrote back its list.
THEOREM ShownIsOfTheRowAlways == Spec => []ShownIsOfTheRow
<1>1. Sound => ShownIsOfTheRow
    BY DEF Sound
<1> QED
    BY <1>1, SoundAlways, PTL

\* A recovery code signs in once, unless a sign-in was overtaken.
THEOREM CodesSignInOnce == Spec => CodesSignInOnceUnlessOvertaken
<1> DEFINE Apart ==
        \A r \in Requests :
            (/\ At(r, "recovering") /\ requests'[r] = NULL /\ sessions' = sessions + 1
             /\ requests[r].code \in used)
                => requests[r].overtaken \/ overwritten
<1>1. ASSUME Sound PROVE Apart
  <2> SUFFICES ASSUME NEW r \in Requests, At(r, "recovering"), requests[r].code \in used,
                      ~requests[r].overtaken, ~overwritten
               PROVE  FALSE
      OBVIOUS
  <2>1. requests[r].code \in setting.codes /\ Enabled
      BY <1>1 DEF Sound, ReadListsAreStored
  <2> QED
      BY <1>1, <2>1 DEF Sound, ShownIsOfTheRow
<1>2. Sound => [Apart]_vars
    BY <1>1
<1>3. CodesSignInOnceUnlessOvertaken <=> [][Apart]_vars
    BY DEF CodesSignInOnceUnlessOvertaken
<1> HIDE DEF Apart
<1> QED
    BY <1>2, <1>3, SoundAlways, PTL

\* Whatever pages enroll at the same time, every secret shown since the setting was last
\* deleted is the secret of the row.
THEOREM EnrollmentsAlwaysConverge == Spec => []EnrollmentsConverge
<1>1. ShownIsOfTheRow => EnrollmentsConverge
    BY DEF ShownIsOfTheRow, EnrollmentsConverge
<1> QED
    BY <1>1, ShownIsOfTheRowAlways, PTL

\* No two lists of recovery codes are shown for one enrollment.
THEOREM OneListIsShownAlways == Spec => []OneListIsShown
<1>1. ASSUME ShownIsOfTheRow, setting # NULL PROVE Cardinality(displayed) <= 1
  <2>1. displayed = {} \/ \E batch \in Batches : displayed = {batch}
      BY <1>1 DEF ShownIsOfTheRow, Enrolling, Enabled
  <2>2. CASE displayed = {}
      BY <2>2, FS_EmptySet
  <2>3. CASE \E batch \in Batches : displayed = {batch}
      BY <2>3, FS_Singleton
  <2> QED
      BY <2>1, <2>2, <2>3
<1>2. ShownIsOfTheRow => OneListIsShown
    BY <1>1 DEF OneListIsShown
<1> QED
    BY <1>2, ShownIsOfTheRowAlways, PTL

=============================================================================
