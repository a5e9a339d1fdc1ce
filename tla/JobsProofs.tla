----------------------------- MODULE JobsProofs -----------------------------
(***************************************************************************)
(* The safety invariants of Jobs, for any number of requests, purges and   *)
(* accounts and any limits: types, what a stop loses, which mails follow   *)
(* which rows, and how attempts bound the mails.                           *)
(*                                                                         *)
(* Every step is of one of four kinds for the jobs and requests: it leaves *)
(* both alone, it moves one request, it works on one job, or it ends the   *)
(* process.                                                                *)
(***************************************************************************)
EXTENDS Jobs, TLAPS

States == {"none", "available", "running", "retryable", "completed", "discarded"}
Steps == {"idle", "accepted", "committed", "done", "refused", "cut"}
Progress == {"none", "busy", "succeeded", "failed"}

\* The types of what the invariants below are about.  The parts that have their own ranges
\* (uptime, users) are in no other invariant.
JobRows(j) == [state : States, attempt : 0..Attempts(j)]

LEMMA AttemptsAreCounted == \A j \in JobIds : Attempts(j) \in Nat \ {0}
    BY JobsAssumption DEF Attempts

\* A request is in one of the two sets of jobs only.
LEMMA MailAttemptsOf == \A r \in Requests : Attempts(r) = MailAttempts
    BY JobsAssumption DEF Attempts

\* A job that can be taken has an attempt left, and one that nobody worked on yet has used none.
AttemptsLeft ==
    \A j \in JobIds :
        /\ jobs[j].state \in {"available", "retryable"} => jobs[j].attempt < Attempts(j)
        /\ jobs[j].state = "none" => jobs[j].attempt = 0
        /\ jobs[j].state = "discarded" => jobs[j].attempt = Attempts(j)

\* Goroutines work on jobs that are marked as running.
WorkersRun == \A j \in JobIds : workers[j] # "none" => jobs[j].state = "running"

\* Mails taken so far, one for each attempt at most, and none yet for the one that is made.
MailsCounted ==
    \A r \in Requests :
        /\ sent[r] <= jobs[r].attempt
        /\ workers[r] = "busy" => sent[r] < jobs[r].attempt
        /\ (workers[r] = "succeeded" \/ jobs[r].state = "completed") => sent[r] > 0

\* How far a request has come, by its row and its mail.
RowsFirst ==
    \A r \in Requests :
        /\ requests[r].step \in {"committed", "done", "refused"} => r \in rows
        /\ jobs[r].state # "none" => requests[r].step = "done"
        /\ (requests[r].step = "done" /\ requests[r].kind \in Surfaced)
               => jobs[r].state # "none"

\* Which stages of the process have goroutines and requests.
StagesAreClean ==
    /\ stage \in {"down", "opened", "working"} => InFlight = {}
    /\ stage \in {"down", "opened", "closed"} => Busy = {}
    /\ (stage \in {"stopping", "closed"} /\ ~abrupt) => InFlight = {}
    /\ stage = "abandoned" => abrupt

-----------------------------------------------------------------------------
\* The rows of the queue.

Sound == TypeOK /\ AttemptsLeft /\ WorkersRun /\ MailsCounted

LEMMA SoundInit == Init => Sound
<1> SUFFICES ASSUME Init PROVE Sound
    OBVIOUS
<1> USE AttemptsAreCounted, JobsAssumption
<1>1. TypeOK
  <2>1. \A j \in JobIds : jobs[j] \in JobRows(j)
      BY DEF Init, JobRows, States
  <2>2. requests \in [Requests -> [kind : Kinds, step : Steps]]
      BY DEF Init, Steps
  <2>3. sent \in [Requests -> 0..MailAttempts] /\ uptime \in 0..Interval
      BY DEF Init
  <2>4. users \in [Users -> Ages \union {Member, Purged}] /\ workers \in [JobIds -> Progress]
      BY DEF Init, Progress
  <2> QED
      BY <2>1, <2>2, <2>3, <2>4 DEF Init, TypeOK, JobRows, States, Steps, Progress
<1>2. AttemptsLeft /\ WorkersRun
    BY DEF Init, AttemptsLeft, WorkersRun
<1>3. MailsCounted
    BY DEF Init, MailsCounted, JobIds
<1> QED
    BY <1>1, <1>2, <1>3 DEF Sound

\* Steps of the process and of requests in flight leave jobs alone, and goroutines as they
\* are or end all of them.
QueueRests ==
    /\ UNCHANGED <<jobs, sent>>
    /\ workers' = workers \/ workers' = [j \in JobIds |-> "none"]

LEMMA SoundRests ==
    ASSUME Sound, TypeOK', QueueRests
    PROVE  Sound'
<1>1. \A j \in JobIds : workers'[j] = workers[j] \/ workers'[j] = "none"
    BY DEF QueueRests
<1>2. AttemptsLeft'
    BY DEF Sound, AttemptsLeft, QueueRests
<1>3. WorkersRun'
    BY <1>1 DEF Sound, WorkersRun, QueueRests
<1>4. MailsCounted'
    BY <1>1 DEF Sound, MailsCounted, QueueRests, JobIds
<1> QED
    BY <1>2, <1>3, <1>4 DEF Sound

\* One job gets a row that fits it, and its goroutine comes as far as that row says.
JobMoves(j, row, worker, taken) ==
    /\ DOMAIN jobs' = DOMAIN jobs
    /\ \A i \in JobIds : jobs'[i] = IF i = j THEN row ELSE jobs[i]
    /\ workers' = [workers EXCEPT ![j] = worker]
    /\ \A r \in Requests : sent'[r] = IF r = j THEN taken ELSE sent[r]

RowFits(j, row, worker, taken) ==
    /\ row \in JobRows(j)
    /\ row.state \in {"available", "retryable"} => row.attempt < Attempts(j)
    /\ row.state = "none" => row.attempt = 0
    /\ row.state = "discarded" => row.attempt = Attempts(j)
    /\ worker # "none" => row.state = "running"
    /\ j \in Requests =>
        /\ taken <= row.attempt
        /\ worker = "busy" => taken < row.attempt
        /\ (worker = "succeeded" \/ row.state = "completed") => taken > 0

LEMMA SoundMoves ==
    ASSUME Sound, TypeOK', NEW j \in JobIds, NEW row, NEW worker, NEW taken,
           JobMoves(j, row, worker, taken), RowFits(j, row, worker, taken)
    PROVE  Sound'
<1>1. \A i \in JobIds : /\ jobs'[i] = IF i = j THEN row ELSE jobs[i]
                        /\ workers'[i] = IF i = j THEN worker ELSE workers[i]
    BY DEF JobMoves, Sound, TypeOK
<1>2. AttemptsLeft'
    BY <1>1 DEF Sound, AttemptsLeft, RowFits
<1>3. WorkersRun'
    BY <1>1 DEF Sound, WorkersRun, RowFits
<1>4. MailsCounted'
    BY <1>1 DEF Sound, MailsCounted, RowFits, JobMoves, JobIds
<1> QED
    BY <1>2, <1>3, <1>4 DEF Sound

-----------------------------------------------------------------------------
\* Types, action by action.

\* The types of the rows of jobs, apart from the rest.
LEMMA TypesOf ==
    ASSUME TypeOK
    PROVE  /\ DOMAIN jobs = JobIds
           /\ \A j \in JobIds : jobs[j] \in JobRows(j)
           /\ workers \in [JobIds -> Progress]
           /\ sent \in [Requests -> 0..MailAttempts]
           /\ requests \in [Requests -> [kind : Kinds, step : Steps]]
    BY DEF TypeOK, JobRows, States, Progress, Steps

LEMMA TypesFrom ==
    ASSUME stage' \in {"down", "opened", "working", "serving", "draining", "stopping", "closed",
                       "abandoned"},
           abrupt' \in BOOLEAN, uptime' \in 0..Interval, rows' \subseteq Requests,
           declined' \subseteq Requests,
           requests' \in [Requests -> [kind : Kinds, step : Steps]],
           DOMAIN jobs' = JobIds, \A j \in JobIds : jobs'[j] \in JobRows(j),
           workers' \in [JobIds -> Progress], sent' \in [Requests -> 0..MailAttempts],
           users' \in [Users -> Ages \union {Member, Purged}]
    PROVE  TypeOK'
    BY DEF TypeOK, JobRows, States, Progress, Steps

LEMMA LifecycleTypes ==
    ASSUME Sound, Lifecycle
    PROVE  TypeOK'
<1> USE TypesOf DEF Sound
<1>1. ASSUME LoseProcess, abrupt' \in BOOLEAN PROVE TypeOK'
  <2>1. requests' \in [Requests -> [kind : Kinds, step : Steps]]
      BY <1>1 DEF LoseProcess, Steps
  <2>2. workers' \in [JobIds -> Progress]
      BY <1>1 DEF LoseProcess, Progress
  <2> QED
      BY <1>1, <2>1, <2>2, TypesFrom DEF LoseProcess, TypeOK
<1>2. CASE StartFails \/ ListenFails \/ Exit \/ Crash
    BY <1>1, <1>2 DEF StartFails, ListenFails, Exit, Crash, TypeOK
<1>3. CASE Open \/ Listen \/ Signal \/ StopWorkers
    BY <1>3, TypesFrom DEF Open, Listen, Signal, StopWorkers, TypeOK
<1>4. CASE StartWorkers
    BY <1>4, TypesFrom, JobsAssumption DEF StartWorkers, TypeOK
<1>5. CASE Drain \/ DrainTimesOut \/ StopTimesOut
    BY <1>5, TypesFrom DEF Drain, DrainTimesOut, StopTimesOut, TypeOK
<1> QED
    BY <1>2, <1>3, <1>4, <1>5 DEF Lifecycle, Stop

LEMMA RequestTypes ==
    ASSUME Sound, NEW r \in Requests, Accept(r) \/ Commit(r) \/ Enqueue(r) \/ EnqueueFails(r)
    PROVE  TypeOK'
<1> USE TypesOf DEF Sound
<1>1. ASSUME NEW from, NEW to \in Steps, Step(r, from, to)
      PROVE  requests' \in [Requests -> [kind : Kinds, step : Steps]]
    BY <1>1 DEF Step
<1>2. CASE Accept(r) \/ Commit(r)
    BY <1>1, <1>2, TypesFrom DEF Accept, Commit, TypeOK, Steps
<1>3. CASE EnqueueFails(r)
    BY <1>1, <1>3, TypesFrom DEF EnqueueFails, TypeOK, Steps
<1>4. CASE Enqueue(r)
  <2>1. requests' \in [Requests -> [kind : Kinds, step : Steps]]
      BY <1>1, <1>4 DEF Enqueue, Steps
  <2>2. DOMAIN jobs' = JobIds
      BY <1>4 DEF Enqueue
  <2>3. r \in JobIds /\ [jobs[r] EXCEPT !.state = "available"] \in JobRows(r)
      BY DEF JobIds, JobRows, States
  <2>4. \A j \in JobIds : jobs'[j] \in JobRows(j)
      BY <1>4, <2>3 DEF Enqueue
  <2> QED
      BY <1>4, <2>1, <2>2, <2>4, TypesFrom DEF Enqueue, TypeOK
<1> QED
    BY <1>2, <1>3, <1>4

\* A job that moves to a row that fits it keeps the types of the queue.
LEMMA MovesTypes ==
    ASSUME Sound, NEW j \in JobIds, NEW row, NEW worker \in Progress, NEW taken \in Nat,
           JobMoves(j, row, worker, taken), RowFits(j, row, worker, taken),
           sent' = IF j \in Requests THEN [sent EXCEPT ![j] = taken] ELSE sent
    PROVE  /\ DOMAIN jobs' = JobIds
           /\ \A i \in JobIds : jobs'[i] \in JobRows(i)
           /\ workers' \in [JobIds -> Progress]
           /\ sent' \in [Requests -> 0..MailAttempts]
<1> USE TypesOf DEF Sound
<1>1. DOMAIN jobs' = JobIds /\ \A i \in JobIds : jobs'[i] \in JobRows(i)
    BY DEF JobMoves, RowFits
<1>2. workers' \in [JobIds -> Progress]
    BY DEF JobMoves
<1>3. ASSUME j \in Requests PROVE taken \in 0..MailAttempts
    BY <1>3, MailAttemptsOf, AttemptsAreCounted DEF RowFits, JobRows
<1>4. sent' \in [Requests -> 0..MailAttempts]
    BY <1>3
<1> QED
    BY <1>1, <1>2, <1>4

\* What an attempt that was lost or failed leaves.
LEMMA RetriedFits ==
    ASSUME Sound, NEW j \in JobIds, jobs[j].state = "running"
    PROVE  /\ Retried(j) \in JobRows(j)
           /\ Retried(j).state \in {"retryable", "discarded"}
           /\ Retried(j).attempt = jobs[j].attempt
           /\ Retried(j).state = "retryable" => jobs[j].attempt < Attempts(j)
           /\ Retried(j).state = "discarded" => jobs[j].attempt = Attempts(j)
<1>1. jobs[j] \in JobRows(j) /\ Attempts(j) \in Nat
    BY TypesOf, AttemptsAreCounted DEF Sound
<1>2. /\ Retried(j).state = IF Exhausted(j) THEN "discarded" ELSE "retryable"
      /\ Retried(j).attempt = jobs[j].attempt
      /\ Retried(j) \in JobRows(j)
    BY <1>1 DEF Retried, JobRows, States
<1> QED
    BY <1>1, <1>2 DEF Exhausted, JobRows

LEMMA WorkFits ==
    ASSUME Sound, NEW j \in JobIds, Work(j)
    PROVE  \E row \in JobRows(j), worker \in Progress, taken \in Nat :
               /\ JobMoves(j, row, worker, taken)
               /\ RowFits(j, row, worker, taken)
               /\ sent' = IF j \in Requests THEN [sent EXCEPT ![j] = taken] ELSE sent
<1> USE TypesOf, AttemptsAreCounted, MailAttemptsOf DEF Sound
<1>1. jobs[j] \in JobRows(j) /\ workers[j] \in Progress
    OBVIOUS
<1> DEFINE count == IF j \in Requests THEN sent[j] ELSE 0
<1>2. /\ count \in Nat
      /\ sent = IF j \in Requests THEN [sent EXCEPT ![j] = count] ELSE sent
      /\ \A r \in Requests : sent[r] = IF r = j THEN count ELSE sent[r]
    OBVIOUS
<1>3. /\ j \in Requests => count <= jobs[j].attempt
      /\ (j \in Requests /\ workers[j] = "busy") => count < jobs[j].attempt
      /\ (j \in Requests /\ workers[j] = "succeeded") => count > 0
    BY DEF MailsCounted
<1>4. workers[j] # "none" => jobs[j].state = "running"
    BY DEF WorkersRun
<1>5. CASE Fetch(j)
  <2> DEFINE row == [state |-> "running", attempt |-> jobs[j].attempt + 1]
  <2>1. row \in JobRows(j)
      BY <1>1, <1>5 DEF Fetch, AttemptsLeft, JobRows, States
  <2>2. JobMoves(j, row, "busy", count)
      BY <1>2, <1>5 DEF JobMoves, Fetch
  <2>3. RowFits(j, row, "busy", count)
      BY <1>1, <1>2, <1>3, <2>1 DEF RowFits, JobRows
  <2>4. UNCHANGED sent
      BY <1>5 DEF Fetch
  <2> QED
      BY <1>2, <2>1, <2>2, <2>3, <2>4 DEF Progress
<1>6. CASE Record(j)
  <2> DEFINE row == IF workers[j] = "succeeded" THEN [jobs[j] EXCEPT !.state = "completed"]
                    ELSE Retried(j)
  <2>1. jobs[j].state = "running"
      BY <1>4, <1>6 DEF Record
  <2>2. /\ row \in JobRows(j)
        /\ row.attempt = jobs[j].attempt
        /\ row.state \in {"completed", "retryable", "discarded"}
        /\ row.state = "completed" => workers[j] = "succeeded"
        /\ row.state = "retryable" => jobs[j].attempt < Attempts(j)
        /\ row.state = "discarded" => jobs[j].attempt = Attempts(j)
    <3>1. CASE workers[j] = "succeeded"
        BY <1>1, <3>1 DEF JobRows, States
    <3>2. CASE workers[j] # "succeeded"
        BY <2>1, <3>2, RetriedFits
    <3> QED
        BY <3>1, <3>2
  <2>3. JobMoves(j, row, "none", count)
      BY <1>2, <1>6 DEF JobMoves, Record
  <2> HIDE DEF row
  <2>4. RowFits(j, row, "none", count)
      BY <1>3, <2>2 DEF RowFits
  <2>5. UNCHANGED sent
      BY <1>6 DEF Record
  <2> QED
      BY <1>2, <2>2, <2>3, <2>4, <2>5 DEF Progress
<1>7. CASE Rescue(j)
  <2>1. jobs[j].state = "running" /\ workers[j] = "none" /\ UNCHANGED <<workers, sent>>
      BY <1>7 DEF Rescue
  <2>2. JobMoves(j, Retried(j), "none", count)
      BY <1>2, <1>7, <2>1 DEF JobMoves, Rescue
  <2>3. RowFits(j, Retried(j), "none", count)
      BY <1>3, <2>1, RetriedFits DEF RowFits
  <2> QED
      BY <1>2, <2>1, <2>2, <2>3, RetriedFits DEF Progress
<1>8. CASE j \in Requests /\ Send(j)
  <2>1. PICK delivery \in Deliveries :
            /\ workers' = [workers EXCEPT ![j] = delivery.outcome]
            /\ sent' = [sent EXCEPT ![j] = @ + delivery.taken]
      BY <1>8 DEF Send
  <2>2. workers[j] = "busy" /\ UNCHANGED jobs
      BY <1>8 DEF Send
  <2>3. /\ delivery.outcome \in {"succeeded", "failed"}
        /\ delivery.taken \in 0..1
        /\ delivery.outcome = "succeeded" => delivery.taken = 1
      BY DEF Deliveries
  <2>4. JobMoves(j, jobs[j], delivery.outcome, count + delivery.taken)
      BY <1>2, <1>8, <2>1, <2>2 DEF JobMoves
  <2>5. RowFits(j, jobs[j], delivery.outcome, count + delivery.taken)
      BY <1>1, <1>2, <1>3, <1>4, <2>2, <2>3 DEF RowFits, JobRows
  <2>6. sent' = [sent EXCEPT ![j] = count + delivery.taken] /\ count + delivery.taken \in Nat
      BY <1>2, <1>8, <2>1, <2>3
  <2> HIDE DEF count
  <2> QED
      BY <1>1, <1>8, <2>3, <2>4, <2>5, <2>6 DEF Progress
<1>9. CASE j \in Purges /\ (Purge(j) \/ PurgeFails(j))
  <2>1. PICK worker \in {"succeeded", "failed"} : workers' = [workers EXCEPT ![j] = worker]
      BY <1>9 DEF Purge, PurgeFails
  <2>2. workers[j] = "busy" /\ UNCHANGED <<jobs, sent>> /\ j \notin Requests
      BY <1>9, JobsAssumption DEF Purge, PurgeFails
  <2>3. JobMoves(j, jobs[j], worker, count)
      BY <1>2, <2>1, <2>2 DEF JobMoves
  <2>4. RowFits(j, jobs[j], worker, count)
      BY <1>1, <1>4, <2>2 DEF RowFits
  <2> QED
      BY <1>1, <1>2, <2>1, <2>2, <2>3, <2>4 DEF Progress
<1> QED
    BY <1>5, <1>6, <1>7, <1>8, <1>9 DEF Work

\* A request that queues its mail, and a schedule that comes round, give a job its first row.
LEMMA InsertFits ==
    ASSUME Sound, RowsFirst, NEW j \in JobIds,
           (j \in Requests /\ Enqueue(j)) \/ (j \in Purges /\ Schedule(j))
    PROVE  \E row \in JobRows(j), taken \in Nat :
               /\ JobMoves(j, row, "none", taken)
               /\ RowFits(j, row, "none", taken)
               /\ sent' = IF j \in Requests THEN [sent EXCEPT ![j] = taken] ELSE sent
<1> USE TypesOf, AttemptsAreCounted, MailAttemptsOf DEF Sound
<1> DEFINE row == [state |-> "available", attempt |-> 0]
<1>1. row \in JobRows(j)
    BY DEF JobRows, States
<1>2. ASSUME NEW taken \in Nat, j \in Requests => taken = 0 PROVE RowFits(j, row, "none", taken)
    BY <1>1, <1>2 DEF RowFits
<1>3. CASE j \in Requests /\ Enqueue(j)
  <2>1. requests[j].step = "committed" /\ jobs' = [jobs EXCEPT ![j].state = "available"]
      BY <1>3 DEF Enqueue, Step
  <2>2. jobs[j].state = "none"
      BY <1>3, <2>1 DEF RowsFirst
  <2>3. jobs[j].attempt = 0 /\ jobs[j] \in JobRows(j)
      BY <2>2 DEF AttemptsLeft
  <2>4. [jobs[j] EXCEPT !.state = "available"] = row
      BY <2>3 DEF JobRows
  <2>5. sent[j] = 0 /\ workers[j] = "none"
      BY <1>3, <2>2, <2>3 DEF MailsCounted, WorkersRun
  <2> HIDE DEF row
  <2>6. JobMoves(j, row, "none", 0)
      BY <1>3, <2>1, <2>4, <2>5 DEF JobMoves, Enqueue
  <2>7. sent' = [sent EXCEPT ![j] = 0]
      BY <1>3, <2>5 DEF Enqueue
  <2> QED
      BY <1>1, <1>2, <1>3, <2>6, <2>7
<1>4. CASE j \in Purges /\ Schedule(j)
  <2>1. j \notin Requests
      BY <1>4, JobsAssumption
  <2>2. /\ jobs' = [jobs EXCEPT ![j] = row]
        /\ UNCHANGED <<workers, sent>>
        /\ jobs[j].state # "running"
      BY <1>4 DEF Schedule, Settled
  <2>3. workers[j] = "none"
      BY <2>2 DEF WorkersRun
  <2> HIDE DEF row
  <2>4. JobMoves(j, row, "none", 0)
      BY <2>1, <2>2, <2>3 DEF JobMoves
  <2> QED
      BY <1>1, <1>2, <2>1, <2>2, <2>4
<1> QED
    BY <1>3, <1>4

\* What a job moves to is typed, for the steps that move nothing else of the process.
LEMMA MovesHold ==
    ASSUME Sound, NEW j \in JobIds,
           \E row \in JobRows(j), worker \in Progress, taken \in Nat :
               /\ JobMoves(j, row, worker, taken)
               /\ RowFits(j, row, worker, taken)
               /\ sent' = IF j \in Requests THEN [sent EXCEPT ![j] = taken] ELSE sent,
           stage' = stage, abrupt' = abrupt, uptime' \in 0..Interval, rows' = rows,
           declined' = declined,
           requests' \in [Requests -> [kind : Kinds, step : Steps]],
           users' \in [Users -> Ages \union {Member, Purged}]
    PROVE  Sound'
<1>1. PICK row \in JobRows(j), worker \in Progress, taken \in Nat :
               /\ JobMoves(j, row, worker, taken)
               /\ RowFits(j, row, worker, taken)
               /\ sent' = IF j \in Requests THEN [sent EXCEPT ![j] = taken] ELSE sent
    OBVIOUS
<1>2. /\ DOMAIN jobs' = JobIds
      /\ \A i \in JobIds : jobs'[i] \in JobRows(i)
      /\ workers' \in [JobIds -> Progress]
      /\ sent' \in [Requests -> 0..MailAttempts]
    BY <1>1, MovesTypes
<1>3. stage' \in {"down", "opened", "working", "serving", "draining", "stopping", "closed",
                  "abandoned"} /\ abrupt' \in BOOLEAN
      /\ rows' \subseteq Requests /\ declined' \subseteq Requests
    BY DEF Sound, TypeOK
<1>4. TypeOK'
    BY <1>2, <1>3, TypesFrom
<1> QED
    BY <1>1, <1>4, SoundMoves

LEMMA SoundStep ==
    ASSUME Sound, RowsFirst, [Next]_vars
    PROVE  Sound'
<1> USE TypesOf DEF Sound
<1>1. CASE Lifecycle
  <2>1. QueueRests
      BY <1>1 DEF Lifecycle, Stop, QueueRests, LoseProcess, Open, StartWorkers, StartFails, Listen,
         ListenFails, Signal, Drain, DrainTimesOut, StopWorkers, StopTimesOut, Exit, Crash
  <2> QED
      BY <1>1, <2>1, LifecycleTypes, SoundRests
<1>2. ASSUME NEW r \in Requests, Accept(r) \/ Commit(r) \/ EnqueueFails(r) PROVE Sound'
  <2>1. QueueRests
      BY <1>2 DEF QueueRests, Accept, Commit, EnqueueFails
  <2> QED
      BY <1>2, <2>1, RequestTypes, SoundRests
<1>3. ASSUME NEW r \in Requests, Enqueue(r) PROVE Sound'
  <2>1. r \in JobIds
      BY DEF JobIds
  <2>2. requests' \in [Requests -> [kind : Kinds, step : Steps]]
      BY <1>3 DEF Enqueue, Step, Steps
  <2> QED
      BY <1>3, <2>1, <2>2, InsertFits, MovesHold DEF Enqueue, TypeOK, Progress
<1>4. ASSUME NEW j \in JobIds, Work(j) PROVE Sound'
  <2>1. UNCHANGED <<stage, abrupt, uptime, requests, rows, declined>>
      BY <1>4 DEF Work, Fetch, Record, Rescue, Send, Purge, PurgeFails
  <2>2. users' \in [Users -> Ages \union {Member, Purged}]
      BY <1>4 DEF Work, Fetch, Record, Rescue, Send, Purge, PurgeFails, TypeOK
  <2> QED
      BY <1>4, <2>1, <2>2, WorkFits, MovesHold DEF TypeOK
<1>5. ASSUME NEW u \in Users, Withdraw(u) PROVE Sound'
  <2>1. users' \in [Users -> Ages \union {Member, Purged}]
      BY <1>5, JobsAssumption DEF Withdraw, TypeOK, Ages
  <2>2. TypeOK'
      BY <1>5, <2>1, TypesFrom DEF Withdraw, TypeOK
  <2> QED
      BY <1>5, <2>2, SoundRests DEF Withdraw, QueueRests
<1>6. ASSUME NEW p \in Purges, Schedule(p) PROVE Sound'
  <2>1. p \in JobIds /\ uptime' \in 0..Interval
      BY <1>6, JobsAssumption DEF JobIds, Schedule
  <2> QED
      BY <1>6, <2>1, InsertFits, MovesHold DEF Schedule, TypeOK, Progress
<1>7. CASE Tick
  <2>1. uptime' \in 0..Interval
    <3>1. Interval \in Nat /\ uptime \in 0..Interval
        BY JobsAssumption DEF TypeOK
    <3>2. CASE Started
        BY <1>7, <3>1, <3>2 DEF Tick
    <3>3. CASE ~Started
        BY <1>7, <3>1, <3>3 DEF Tick
    <3> QED
        BY <3>2, <3>3
  <2>2. users' \in [Users -> Ages \union {Member, Purged}]
      BY <1>7, JobsAssumption DEF Tick, TypeOK, Ages
  <2>3. TypeOK'
      BY <1>7, <2>1, <2>2, TypesFrom DEF Tick, TypeOK
  <2> QED
      BY <1>7, <2>3, SoundRests DEF Tick, QueueRests
<1>8. CASE UNCHANGED vars
  <2>1. TypeOK'
      BY <1>8 DEF vars, TypeOK, Attempts
  <2> QED
      BY <1>8, <2>1, SoundRests DEF vars, QueueRests
<1> QED
    BY <1>1, <1>2, <1>3, <1>4, <1>5, <1>6, <1>7, <1>8 DEF Next

-----------------------------------------------------------------------------
\* Requests and their rows.

LEMMA RowsInit == Init => RowsFirst
    BY DEF Init, RowsFirst, JobIds, Kinds

\* Steps that leave requests alone, or end the process, and give no request its first job row.
RequestsRest ==
    /\ requests' = requests
         \/ requests' = [r \in Requests |->
                IF r \in InFlight THEN [requests[r] EXCEPT !.step = "cut"] ELSE requests[r]]
    /\ UNCHANGED rows
    /\ \A r \in Requests : jobs'[r].state = "none" <=> jobs[r].state = "none"

LEMMA RowsRest ==
    ASSUME TypeOK, RowsFirst, RequestsRest
    PROVE  RowsFirst'
<1> SUFFICES ASSUME NEW r \in Requests
             PROVE  /\ requests'[r].step \in {"committed", "done", "refused"} => r \in rows'
                    /\ jobs'[r].state # "none" => requests'[r].step = "done"
                    /\ (requests'[r].step = "done" /\ requests'[r].kind \in Surfaced)
                           => jobs'[r].state # "none"
    BY DEF RowsFirst
<1>1. requests[r] \in [kind : Kinds, step : Steps]
    BY DEF TypeOK, Steps
<1>2. CASE requests'[r] = requests[r]
    BY <1>2 DEF RequestsRest, RowsFirst
<1>3. CASE requests'[r] # requests[r]
  <2>1. r \in InFlight /\ requests'[r] = [requests[r] EXCEPT !.step = "cut"]
      BY <1>3 DEF RequestsRest
  <2>2. requests'[r].step = "cut" /\ requests[r].step # "done"
      BY <1>1, <2>1 DEF InFlight
  <2> QED
      BY <2>2 DEF RequestsRest, RowsFirst
<1> QED
    BY <1>2, <1>3

\* Work on a job gives no request its first job row, and takes none away.
LEMMA WorkStarts ==
    ASSUME Sound, NEW j \in JobIds, Work(j)
    PROVE  \A r \in Requests : jobs'[r].state = "none" <=> jobs[r].state = "none"
<1> USE TypesOf DEF Sound
<1>1. jobs[j].state # "none" \/ jobs' = jobs
    BY DEF Work, Fetch, Record, Rescue, Send, Purge, PurgeFails, WorkersRun
<1>2. jobs' = jobs \/ /\ \A i \in JobIds \ {j} : jobs'[i] = jobs[i]
                      /\ jobs'[j].state # "none"
  <2>1. CASE Fetch(j)
      BY <2>1 DEF Fetch
  <2>2. CASE Record(j)
    <3>1. jobs[j].state = "running"
        BY <2>2 DEF Record, WorkersRun
    <3>2. Retried(j).state # "none" /\ [jobs[j] EXCEPT !.state = "completed"].state # "none"
        BY <3>1, RetriedFits DEF JobRows
    <3> QED
        BY <2>2, <3>2 DEF Record
  <2>3. CASE Rescue(j)
      BY <2>3, RetriedFits DEF Rescue
  <2>4. CASE (j \in Requests /\ Send(j)) \/ (j \in Purges /\ (Purge(j) \/ PurgeFails(j)))
      BY <2>4 DEF Send, Purge, PurgeFails
  <2> QED
      BY <2>1, <2>2, <2>3, <2>4 DEF Work
<1> QED
    BY <1>1, <1>2 DEF JobIds

LEMMA RowsStep ==
    ASSUME Sound, RowsFirst, [Next]_vars
    PROVE  RowsFirst'
<1> USE TypesOf DEF Sound
<1>1. CASE Lifecycle
    BY <1>1, RowsRest DEF Lifecycle, Stop, RequestsRest, LoseProcess, Open, StartWorkers,
       StartFails, Listen, ListenFails, Signal, Drain, DrainTimesOut, StopWorkers, StopTimesOut,
       Exit, Crash
<1>2. ASSUME NEW r \in Requests, NEW from, NEW to \in Steps, Step(r, from, to)
      PROVE  \A q \in Requests :
                 /\ requests'[q].step = IF q = r THEN to ELSE requests[q].step
                 /\ requests'[q].kind = requests[q].kind
    BY <1>2 DEF Step, Steps
<1>3. ASSUME NEW r \in Requests, Accept(r) \/ Commit(r) PROVE RowsFirst'
  <2>1. CASE Accept(r)
      BY <1>2, <2>1 DEF Accept, Step, RowsFirst, Steps
  <2>2. CASE Commit(r)
      BY <1>2, <2>2 DEF Commit, Step, RowsFirst, Steps
  <2> QED
      BY <1>3, <2>1, <2>2
<1>4. ASSUME NEW r \in Requests, Enqueue(r) PROVE RowsFirst'
  <2>1. \A q \in Requests :
            /\ requests'[q].step = IF q = r THEN "done" ELSE requests[q].step
            /\ requests'[q].kind = requests[q].kind
      BY <1>2, <1>4 DEF Enqueue, Steps
  <2>2. /\ requests[r].step = "committed" /\ UNCHANGED rows
        /\ jobs' = [jobs EXCEPT ![r].state = "available"]
      BY <1>4 DEF Enqueue, Step
  <2>3. \A q \in Requests : jobs'[q].state = IF q = r THEN "available" ELSE jobs[q].state
      BY <2>2 DEF JobIds, JobRows
  <2> QED
      BY <2>1, <2>2, <2>3 DEF RowsFirst
<1>5. ASSUME NEW r \in Requests, EnqueueFails(r) PROVE RowsFirst'
  <2> DEFINE to == IF requests[r].kind \in Surfaced THEN "refused" ELSE "done"
  <2>1. \A q \in Requests :
            /\ requests'[q].step = IF q = r THEN to ELSE requests[q].step
            /\ requests'[q].kind = requests[q].kind
      BY <1>2, <1>5 DEF EnqueueFails, Steps
  <2>2. requests[r].step = "committed" /\ UNCHANGED <<rows, jobs>>
      BY <1>5 DEF EnqueueFails, Step
  <2> QED
      BY <2>1, <2>2 DEF RowsFirst
<1>6. ASSUME NEW j \in JobIds, Work(j) PROVE RowsFirst'
  <2>1. UNCHANGED <<requests, rows>>
      BY <1>6 DEF Work, Fetch, Record, Rescue, Send, Purge, PurgeFails
  <2> QED
      BY <1>6, <2>1, WorkStarts, RowsRest DEF RequestsRest
<1>7. ASSUME NEW p \in Purges, Schedule(p) PROVE RowsFirst'
  <2>1. \A r \in Requests : jobs'[r] = jobs[r]
      BY <1>7, JobsAssumption DEF Schedule, JobIds
  <2> QED
      BY <1>7, <2>1, RowsRest DEF Schedule, RequestsRest
<1>8. CASE Tick \/ (\E u \in Users : Withdraw(u)) \/ UNCHANGED vars
    BY <1>8, RowsRest DEF Tick, Withdraw, vars, RequestsRest
<1> QED
    BY <1>1, <1>3, <1>4, <1>5, <1>6, <1>7, <1>8 DEF Next

\* The queue is sound and its mails follow rows: the two are inductive together.
LEMMA QueueInvariant == Spec => [](Sound /\ RowsFirst)
<1>1. Init => Sound /\ RowsFirst
    BY SoundInit, RowsInit
<1>2. Sound /\ RowsFirst /\ [Next]_vars => (Sound /\ RowsFirst)'
    BY SoundStep, RowsStep
<1> QED
    BY <1>1, <1>2, PTL DEF Spec

\* Every variable keeps its type, whatever the limits.
THEOREM JobsTypeCorrect == Spec => []TypeOK
<1>1. Sound => TypeOK
    BY DEF Sound
<1> QED
    BY <1>1, QueueInvariant, PTL

\* A mail in the queue is about a committed row, and a request that must have its mail queued
\* has it queued or is refused (create_sign_up.go, create_email_change.go).
THEOREM MailsFollowRowsAlways == Spec => []MailsFollowRows
<1>1. RowsFirst => MailsFollowRows
    BY DEF RowsFirst, MailsFollowRows
<1> QED
    BY <1>1, QueueInvariant, PTL

\* No mail is taken more often than its job has attempts, what is completed was sent, and what
\* is discarded has used every attempt, for any number of crashes (dispatcher.go).
THEOREM AttemptsBoundMails == Spec => []GivesUpOnlyAfterEveryAttempt
<1>1. Sound => GivesUpOnlyAfterEveryAttempt
    BY MailAttemptsOf DEF Sound, AttemptsLeft, MailsCounted, GivesUpOnlyAfterEveryAttempt, JobIds
<1> QED
    BY <1>1, QueueInvariant, PTL

-----------------------------------------------------------------------------
\* Stops.

Orderly == StagesAreClean /\ GracefulStopsLoseNothing

LEMMA OrderlyInit == Init => Orderly
    BY DEF Init, Orderly, StagesAreClean, GracefulStopsLoseNothing, InFlight, Busy, JobIds

\* What the end of the process leaves is in order, unless it was cut off.
LEMMA ExitIsOrderly ==
    ASSUME TypeOK, Orderly, LoseProcess, abrupt' \in BOOLEAN,
           ~abrupt' => ~abrupt /\ InFlight = {} /\ Busy = {}
    PROVE  Orderly'
<1>1. \A r \in Requests : requests'[r].step \notin {"accepted", "committed"}
  <2> TAKE r \in Requests
  <2>1. requests[r] \in [kind : Kinds, step : Steps]
      BY DEF TypeOK, Steps
  <2>2. CASE r \in InFlight
      BY <2>1, <2>2 DEF LoseProcess
  <2>3. CASE r \notin InFlight
      BY <2>3 DEF LoseProcess, InFlight
  <2> QED
      BY <2>2, <2>3
<1>2. InFlight' = {} /\ Busy' = {} /\ stage' = "down"
    BY <1>1 DEF InFlight, Busy, LoseProcess, JobIds
<1>3. StagesAreClean'
    BY <1>2 DEF StagesAreClean
<1>4. GracefulStopsLoseNothing'
  <2> SUFFICES ASSUME ~abrupt'
               PROVE  /\ \A r \in Requests :
                            /\ requests'[r].step # "cut"
                            /\ requests'[r].step \in {"done", "refused"} =>
                                   jobs'[r].state # "none" \/ r \in declined'
                      /\ \A j \in JobIds : jobs'[j].state = "running" => workers'[j] # "none"
      BY DEF GracefulStopsLoseNothing
  <2>1. \A r \in Requests : requests'[r] = requests[r]
      BY DEF LoseProcess
  <2>2. \A j \in JobIds : workers[j] = "none"
      BY DEF Busy
  <2> QED
      BY <2>1, <2>2 DEF Orderly, GracefulStopsLoseNothing, LoseProcess
<1> QED
    BY <1>3, <1>4 DEF Orderly

\* A step of the process that ends nothing.
LEMMA StageIsOrderly ==
    ASSUME Orderly, UNCHANGED <<requests, declined, jobs, workers>>, abrupt => abrupt',
           StagesAreClean'
    PROVE  Orderly'
    BY DEF Orderly, GracefulStopsLoseNothing

LEMMA LifecycleIsOrderly ==
    ASSUME TypeOK, Orderly, Lifecycle
    PROVE  Orderly'
<1> USE DEF Orderly
<1>1. ASSUME UNCHANGED <<requests, workers>> PROVE InFlight' = InFlight /\ Busy' = Busy
    BY <1>1 DEF InFlight, Busy
<1>2. CASE StartFails
  <2>1. InFlight = {} /\ Busy = {} /\ LoseProcess /\ UNCHANGED abrupt
      BY <1>2 DEF StartFails, StagesAreClean
  <2> QED
      BY <2>1, ExitIsOrderly DEF TypeOK
<1>3. CASE ListenFails \/ Crash
    BY <1>3, ExitIsOrderly DEF ListenFails, Crash
<1>4. CASE Exit
  <2>1. LoseProcess /\ UNCHANGED abrupt /\ stage \in {"closed", "abandoned"}
      BY <1>4 DEF Exit
  <2>2. ~abrupt => InFlight = {} /\ Busy = {}
      BY <2>1 DEF StagesAreClean
  <2> QED
      BY <2>1, <2>2, ExitIsOrderly DEF TypeOK
<1>5. CASE Open \/ StartWorkers \/ Listen \/ Signal
  <2>1. UNCHANGED <<abrupt, requests, declined, jobs, workers>>
      BY <1>5 DEF Open, StartWorkers, Listen, Signal
  <2>2. StagesAreClean'
      BY <1>1, <1>5, <2>1 DEF Open, StartWorkers, Listen, Signal, StagesAreClean
  <2> QED
      BY <2>1, <2>2, StageIsOrderly
<1>6. CASE Drain \/ DrainTimesOut
  <2>1. UNCHANGED <<requests, declined, jobs, workers>> /\ stage' = "stopping"
      BY <1>6 DEF Drain, DrainTimesOut
  <2>2. ((abrupt' <=> abrupt) /\ InFlight = {}) \/ abrupt'
      BY <1>6, Zenon DEF Drain, DrainTimesOut
  <2>3. StagesAreClean'
      BY <1>1, <2>1, <2>2 DEF StagesAreClean
  <2> QED
      BY <2>1, <2>2, <2>3, StageIsOrderly
<1>7. CASE StopWorkers \/ StopTimesOut
  <2>1. UNCHANGED <<requests, declined, jobs, workers>>
      BY <1>7 DEF StopWorkers, StopTimesOut
  <2>2. abrupt => abrupt'
      BY <1>7, Zenon DEF StopWorkers, StopTimesOut
  <2>3. StagesAreClean'
      BY <1>1, <1>7, <2>1 DEF StopWorkers, StopTimesOut, StagesAreClean
  <2> QED
      BY <2>1, <2>2, <2>3, StageIsOrderly
<1> QED
    BY <1>2, <1>3, <1>4, <1>5, <1>6, <1>7 DEF Lifecycle, Stop

\* A step of a request, of a job, of the schedule or of time: the process stays where it is, no
\* request is taken in but by the listener, or answered but by an open queue, no job is taken but
\* by a process that is started, none is deleted, and no running job loses its goroutine.
LEMMA StepIsOrderly ==
    ASSUME Orderly, UNCHANGED <<stage, abrupt>>,
           InFlight' \subseteq InFlight \/ Listening,
           Busy' \subseteq Busy \/ Started,
           \A r \in Requests : requests'[r].step = "cut" => requests[r].step = "cut",
           ~abrupt => \A r \in Requests : requests'[r].step \in {"done", "refused"} =>
               \/ requests[r].step \in {"done", "refused"}
               \/ jobs'[r].state # "none"
               \/ r \in declined',
           declined \subseteq declined',
           \A r \in Requests : jobs'[r].state = "none" => jobs[r].state = "none",
           \A j \in JobIds : (jobs'[j].state = "running" /\ workers'[j] = "none") =>
                                 (jobs[j].state = "running" /\ workers[j] = "none")
    PROVE  Orderly'
<1>1. StagesAreClean'
    BY DEF Orderly, StagesAreClean, Listening, Started
<1>2. GracefulStopsLoseNothing'
    BY DEF Orderly, GracefulStopsLoseNothing
<1> QED
    BY <1>1, <1>2 DEF Orderly

\* A mail that is queued has a job.
LEMMA EnqueueGivesAJob ==
    ASSUME TypeOK, NEW r \in Requests, Enqueue(r)
    PROVE  /\ jobs'[r].state = "available"
           /\ \A q \in Requests : jobs'[q].state = "none" => jobs[q].state = "none"
<1>1. r \in JobIds /\ [jobs[r] EXCEPT !.state = "available"].state = "available"
    BY TypesOf DEF JobIds, JobRows
<1>2. jobs' = [jobs EXCEPT ![r].state = "available"] /\ DOMAIN jobs = JobIds
    BY TypesOf DEF Enqueue
<1> QED
    BY <1>1, <1>2 DEF JobIds

LEMMA OrderlyStep ==
    ASSUME Sound, RowsFirst, Orderly, [Next]_vars
    PROVE  Orderly'
<1> USE TypesOf DEF Sound
<1>1. CASE Lifecycle
    BY <1>1, LifecycleIsOrderly
<1>2. ASSUME NEW r \in Requests, Accept(r) \/ Commit(r) \/ Enqueue(r) \/ EnqueueFails(r)
      PROVE  Orderly'
  <2>1. PICK to \in {"accepted", "committed", "done", "refused"} :
            /\ requests' = [requests EXCEPT ![r].step = to]
            /\ to \in {"accepted", "committed"} => r \in InFlight \/ Listening
      BY <1>2 DEF Accept, Commit, Enqueue, EnqueueFails, Step, InFlight
  <2>2. \A q \in Requests : requests'[q].step = IF q = r THEN to ELSE requests[q].step
      BY <2>1 DEF Steps
  <2>3. InFlight' \subseteq InFlight \/ Listening
      BY <2>1, <2>2 DEF InFlight
  <2>4. UNCHANGED <<stage, abrupt, workers>>
      BY <1>2 DEF Accept, Commit, Enqueue, EnqueueFails
  <2>5. \A j \in JobIds : jobs'[j].state = "running" => jobs[j].state = "running"
    <3>1. CASE Enqueue(r)
      <4>1. r \in JobIds /\ [jobs[r] EXCEPT !.state = "available"].state = "available"
          BY DEF JobIds, JobRows
      <4> QED
          BY <3>1, <4>1 DEF Enqueue
    <3>2. CASE ~Enqueue(r)
        BY <1>2, <3>2 DEF Accept, Commit, EnqueueFails
    <3> QED
        BY <3>1, <3>2
  <2>6. Busy' = Busy
      BY <2>4 DEF Busy
  <2>7. \A q \in Requests : requests'[q].step = "cut" => requests[q].step = "cut"
      BY <2>2
  <2>8. \A q \in Requests : jobs'[q].state = "none" => jobs[q].state = "none"
      BY <1>2, EnqueueGivesAJob DEF Accept, Commit, EnqueueFails
  <2>9. declined \subseteq declined'
      BY <1>2 DEF Accept, Commit, Enqueue, EnqueueFails
  <2>10. ASSUME ~abrupt, NEW q \in Requests, requests'[q].step \in {"done", "refused"}
         PROVE  \/ requests[q].step \in {"done", "refused"}
                \/ jobs'[q].state # "none"
                \/ q \in declined'
    <3>1. CASE q # r
        BY <2>2, <2>10, <3>1
    <3>2. CASE q = r /\ Enqueue(r)
        BY <3>2, EnqueueGivesAJob
    <3>3. CASE q = r /\ EnqueueFails(r)
      <4>1. r \in InFlight
          BY <3>3 DEF EnqueueFails, Step, InFlight
      <4>2. stage # "closed"
          BY <2>10, <4>1 DEF Orderly, StagesAreClean
      <4> QED
          BY <3>3, <4>2 DEF EnqueueFails
    <3>4. CASE q = r /\ (Accept(r) \/ Commit(r))
      <4>1. requests'[r].step \in {"accepted", "committed"}
          BY <3>4 DEF Accept, Commit, Step, Steps
      <4> QED
          BY <2>10, <3>4, <4>1
    <3> QED
        BY <1>2, <3>1, <3>2, <3>3, <3>4
  <2> QED
      BY <2>3, <2>4, <2>5, <2>6, <2>7, <2>8, <2>9, <2>10, StepIsOrderly
<1>3. ASSUME NEW j \in JobIds, Work(j) PROVE Orderly'
  <2>1. UNCHANGED <<stage, abrupt, requests, declined>>
      BY <1>3 DEF Work, Fetch, Record, Rescue, Send, Purge, PurgeFails
  <2>2. /\ InFlight' = InFlight
        /\ \A r \in Requests : jobs'[r].state = "none" => jobs[r].state = "none"
      BY <1>3, <2>1, WorkStarts DEF InFlight
  <2>3. PICK row \in JobRows(j), worker \in Progress, taken \in Nat :
               /\ JobMoves(j, row, worker, taken)
               /\ RowFits(j, row, worker, taken)
      BY <1>3, WorkFits
  <2>4. \A i \in JobIds : /\ jobs'[i] = IF i = j THEN row ELSE jobs[i]
                          /\ workers'[i] = IF i = j THEN worker ELSE workers[i]
      BY <2>3 DEF JobMoves
  <2>5. CASE Fetch(j)
    <3>1. workers'[j] # "none" /\ Started
        BY <2>5 DEF Fetch
    <3> QED
        BY <2>1, <2>2, <2>4, <3>1, StepIsOrderly
  <2>6. CASE Record(j) \/ Rescue(j)
    <3>1. jobs[j].state = "running"
        BY <2>6 DEF Record, Rescue, WorkersRun
    <3>2. jobs'[j].state # "running" /\ workers'[j] = "none"
      <4>1. CASE Record(j)
        <5>1. [jobs[j] EXCEPT !.state = "completed"].state = "completed"
            BY DEF JobRows
        <5> QED
            BY <3>1, <4>1, <5>1, RetriedFits DEF Record
      <4>2. CASE Rescue(j)
          BY <3>1, <4>2, RetriedFits DEF Rescue
      <4> QED
          BY <2>6, <4>1, <4>2
    <3>3. Busy' \subseteq Busy
        BY <2>4, <3>2 DEF Busy
    <3> QED
        BY <2>1, <2>2, <2>4, <3>2, <3>3, StepIsOrderly
  <2>7. CASE (j \in Requests /\ Send(j)) \/ (j \in Purges /\ (Purge(j) \/ PurgeFails(j)))
    <3>1. workers[j] = "busy" /\ UNCHANGED jobs
        BY <2>7 DEF Send, Purge, PurgeFails
    <3>2. workers'[j] # "none"
        BY <2>7 DEF Send, Purge, PurgeFails, Deliveries
    <3>3. Busy' \subseteq Busy
        BY <2>4, <3>1 DEF Busy
    <3> QED
        BY <2>1, <2>2, <2>4, <3>1, <3>2, <3>3, StepIsOrderly
  <2> QED
      BY <1>3, <2>5, <2>6, <2>7 DEF Work
<1>4. ASSUME NEW p \in Purges, Schedule(p) PROVE Orderly'
  <2>1. /\ UNCHANGED <<stage, abrupt, requests, declined, workers>>
        /\ jobs' = [jobs EXCEPT ![p] = [state |-> "available", attempt |-> 0]]
      BY <1>4 DEF Schedule
  <2>2. \A j \in JobIds : jobs'[j].state = "running" => jobs[j].state = "running"
      BY <2>1
  <2>3. InFlight' = InFlight /\ Busy' = Busy
      BY <2>1 DEF InFlight, Busy
  <2>4. \A r \in Requests : jobs'[r] = jobs[r]
      BY <2>1, JobsAssumption DEF JobIds
  <2> QED
      BY <2>1, <2>2, <2>3, <2>4, StepIsOrderly
<1>5. CASE Tick \/ (\E u \in Users : Withdraw(u)) \/ UNCHANGED vars
  <2>1. UNCHANGED <<stage, abrupt, requests, declined, jobs, workers>>
      BY <1>5 DEF Tick, Withdraw, vars
  <2>2. InFlight' = InFlight /\ Busy' = Busy
      BY <2>1 DEF InFlight, Busy
  <2> QED
      BY <2>1, <2>2, StepIsOrderly
<1> QED
    BY <1>1, <1>2, <1>3, <1>4, <1>5 DEF Next

\* A stop that keeps to its timeouts cuts off no request, answers none through a queue whose
\* connections are closed, and leaves no job behind as running, for any number of requests and
\* jobs (the order of the stops in serve.go).
THEOREM OrderlyStopsLoseNothing == Spec => []GracefulStopsLoseNothing
<1>1. Sound /\ RowsFirst /\ Orderly /\ [Next]_vars => Orderly'
    BY OrderlyStep
<1>2. Orderly => GracefulStopsLoseNothing
    BY DEF Orderly
<1> QED
    BY <1>1, <1>2, OrderlyInit, QueueInvariant, PTL DEF Spec

=============================================================================
