-------------------------------- MODULE Jobs --------------------------------
(***************************************************************************)
(* The process of `groobb serve` and its job queue: mails that requests    *)
(* queue after their rows are committed, the daily purge of withdrawn      *)
(* accounts, and the starts, stops and crashes between all of it.          *)
(*                                                                         *)
(* The rows of the queue outlive the process; the goroutines that work on  *)
(* jobs, the requests in flight and the schedule of the purge do not.  The *)
(* queue itself is a library (River): what it does with a job is modelled  *)
(* from how the code configures it.                                        *)
(***************************************************************************)
EXTENDS Integers, FiniteSets

CONSTANTS
    Requests,      \* requests that have a mail to send, one mail each
    Purges,        \* slots for purge jobs
    Users,         \* accounts that withdraw
    MaxWorkers,    \* goroutines that work on jobs at a time (10)
    MailAttempts,  \* MaxAttempts of the three mail jobs (5)
    PurgeAttempts, \* MaxAttempts of the purge job (3)
    Interval,      \* purgeWithdrawnUsersInterval, in ticks of the clock
    Retention      \* withdrawnUserRetention, in ticks of the clock

ASSUME JobsAssumption ==
    /\ Requests \intersect Purges = {}
    /\ IsFiniteSet(Requests \union Purges)
    /\ {MaxWorkers, MailAttempts, PurgeAttempts, Interval} \subseteq Nat \ {0}
    /\ Retention \in Nat

JobIds == Requests \union Purges

\* What requests queue a mail for.
Kinds == {"sign_up", "email_change", "password_reset", "change_notification"}

\* The kinds whose request fails when its mail cannot be queued; the others log it and
\* answer as if it had been.
Surfaced == {"sign_up", "email_change"}

\* A withdrawn account is as old as the ticks since its withdrawal, up to when age no
\* longer matters.
Ages == 0..(Retention + 1)
Member == -1
Purged == Retention + 2

VARIABLES
    stage,    \* how far runServe has come
    abrupt,   \* history: a crash, a failed start or a timeout has cut something off
    uptime,   \* ticks since the schedule of the purge was last set, at the start or a run
    requests, \* each request: its kind and its step
    rows,     \* history: the requests whose rows are committed
    declined, \* history: the requests whose mail the queue declined while it was open
    jobs,     \* river_job: the state of each job and how often it was attempted
    workers,  \* the goroutine that works on each job, as far as it has come
    sent,     \* history: how often the mail of each request was handed to the transport
    users     \* the age of each withdrawn account, or Member, or Purged

vars == <<stage, abrupt, uptime, requests, rows, declined, jobs, workers, sent, users>>

Attempts(j) == IF j \in Purges THEN PurgeAttempts ELSE MailAttempts

TypeOK ==
    /\ stage \in {"down", "opened", "working", "serving", "draining", "stopping", "closed",
                  "abandoned"}
    /\ abrupt \in BOOLEAN
    /\ uptime \in 0..Interval
    /\ requests \in [Requests -> [kind : Kinds,
            step : {"idle", "accepted", "committed", "done", "refused", "cut"}]]
    /\ rows \subseteq Requests
    /\ declined \subseteq Requests
    /\ DOMAIN jobs = JobIds
    /\ \A j \in JobIds : jobs[j] \in
           [state : {"none", "available", "running", "retryable", "completed", "discarded"},
            attempt : 0..Attempts(j)]
    /\ workers \in [JobIds -> {"none", "busy", "succeeded", "failed"}]
    /\ sent \in [Requests -> 0..MailAttempts]
    /\ users \in [Users -> Ages \union {Member, Purged}]

Init ==
    /\ stage = "down"
    /\ abrupt = FALSE
    /\ uptime = 0
    /\ requests \in [Requests -> [kind : Kinds, step : {"idle"}]]
    /\ rows = {}
    /\ declined = {}
    /\ jobs = [j \in JobIds |-> [state |-> "none", attempt |-> 0]]
    /\ workers = [j \in JobIds |-> "none"]
    /\ sent = [r \in Requests |-> 0]
    /\ users = [u \in Users |-> Member]

\* The HTTP server accepts requests.
Listening == stage = "serving"

\* River is started: it takes jobs, rescues jobs and keeps the schedule.
Started == stage \in {"working", "serving", "draining"}

\* Goroutines of the process run on until it exits.
Alive == stage # "down"

InFlight == {r \in Requests : requests[r].step \in {"accepted", "committed"}}
Busy == {j \in JobIds : workers[j] # "none"}
Settled(j) == jobs[j].state \in {"none", "completed", "discarded"}

-----------------------------------------------------------------------------
\* The process.

\* What an exit leaves of the requests and goroutines: nothing but the rows.
LoseProcess ==
    /\ stage' = "down"
    /\ requests' = [r \in Requests |->
            IF r \in InFlight THEN [requests[r] EXCEPT !.step = "cut"] ELSE requests[r]]
    /\ workers' = [j \in JobIds |-> "none"]
    /\ UNCHANGED <<uptime, rows, declined, jobs, sent, users>>

\* The configuration is loaded, the database opened and migrated.
Open ==
    /\ stage = "down"
    /\ stage' = "opened"
    /\ UNCHANGED <<abrupt, uptime, requests, rows, declined, jobs, workers, sent, users>>

\* The worker client is built on connections of its own and started, and its schedule with
\* it: RunOnStart is not set, so the first purge is a whole interval away.
StartWorkers ==
    /\ stage = "opened"
    /\ stage' = "working"
    /\ uptime' = 0
    /\ UNCHANGED <<abrupt, requests, rows, declined, jobs, workers, sent, users>>

\* A database that cannot be migrated or a mail provider that is refused ends the start.
StartFails ==
    /\ stage = "opened"
    /\ UNCHANGED abrupt
    /\ LoseProcess

\* The listener is the last thing to come up.
Listen ==
    /\ stage = "working"
    /\ stage' = "serving"
    /\ UNCHANGED <<abrupt, uptime, requests, rows, declined, jobs, workers, sent, users>>

\* When the port is taken, os.Exit runs none of the deferred stops.
ListenFails ==
    /\ stage = "working"
    /\ abrupt' = TRUE
    /\ LoseProcess

Signal ==
    /\ stage = "serving"
    /\ stage' = "draining"
    /\ UNCHANGED <<abrupt, uptime, requests, rows, declined, jobs, workers, sent, users>>

\* Mutant: runServe goes on to its deferred stops while Shutdown still waits.
DrainAtOnce ==
    /\ stage = "draining"
    /\ stage' = "stopping"
    /\ UNCHANGED <<abrupt, uptime, requests, rows, declined, jobs, workers, sent, users>>

\* runServe waits for Shutdown, and Shutdown for the requests in flight.
Drain ==
    /\ stage = "draining"
    /\ InFlight = {}
    /\ stage' = "stopping"
    /\ UNCHANGED <<abrupt, uptime, requests, rows, declined, jobs, workers, sent, users>>

\* After its thirty seconds Shutdown gives up; the worker client is stopped either way.
DrainTimesOut ==
    /\ stage = "draining"
    /\ InFlight # {}
    /\ stage' = "stopping"
    /\ abrupt' = TRUE
    /\ UNCHANGED <<uptime, requests, rows, declined, jobs, workers, sent, users>>

\* Mutant: the stop does not wait for the jobs that run.
StopWithoutWaiting ==
    /\ stage = "stopping"
    /\ stage' = "closed"
    /\ UNCHANGED <<abrupt, uptime, requests, rows, declined, jobs, workers, sent, users>>

\* Stop takes no further job, waits for the running ones and closes the connections jobs
\* are queued through.
StopWorkers ==
    /\ stage = "stopping"
    /\ Busy = {}
    /\ stage' = "closed"
    /\ UNCHANGED <<abrupt, uptime, requests, rows, declined, jobs, workers, sent, users>>

\* After its own thirty seconds Stop gives up, and closes nothing.
StopTimesOut ==
    /\ stage = "stopping"
    /\ Busy # {}
    /\ stage' = "abandoned"
    /\ abrupt' = TRUE
    /\ UNCHANGED <<uptime, requests, rows, declined, jobs, workers, sent, users>>

Exit ==
    /\ stage \in {"closed", "abandoned"}
    /\ UNCHANGED abrupt
    /\ LoseProcess

Crash ==
    /\ Alive
    /\ abrupt' = TRUE
    /\ LoseProcess

-----------------------------------------------------------------------------
\* Requests that have a mail to send.

Step(r, from, to) ==
    /\ Alive
    /\ requests[r].step = from
    /\ requests' = [requests EXCEPT ![r].step = to]

Accept(r) ==
    /\ Listening
    /\ Step(r, "idle", "accepted")
    /\ UNCHANGED <<stage, abrupt, uptime, rows, declined, jobs, workers, sent, users>>

\* The row the mail is about: a code, a link, or the change of an address.
Commit(r) ==
    /\ Step(r, "accepted", "committed")
    /\ rows' = rows \union {r}
    /\ UNCHANGED <<stage, abrupt, uptime, declined, jobs, workers, sent, users>>

\* The mail is queued in a transaction of its own, through the connections of the worker
\* client, after the row is committed.
Enqueue(r) ==
    /\ stage # "closed"
    /\ Step(r, "committed", "done")
    /\ jobs' = [jobs EXCEPT ![r].state = "available"]
    /\ UNCHANGED <<stage, abrupt, uptime, rows, declined, workers, sent, users>>

\* Mutant: every request answers as if its mail had been queued.
EnqueueFailsSilently(r) ==
    /\ Step(r, "committed", "done")
    /\ declined' = IF stage = "closed" THEN declined ELSE declined \union {r}
    /\ UNCHANGED <<stage, abrupt, uptime, rows, jobs, workers, sent, users>>

\* The queue can always decline: a lock that is held for five seconds, a full disk.  When its
\* connections are closed it can do nothing else.
EnqueueFails(r) ==
    /\ Step(r, "committed", IF requests[r].kind \in Surfaced THEN "refused" ELSE "done")
    /\ declined' = IF stage = "closed" THEN declined ELSE declined \union {r}
    /\ UNCHANGED <<stage, abrupt, uptime, rows, jobs, workers, sent, users>>

-----------------------------------------------------------------------------
\* The queue.  An attempt counts from the moment the job is taken.

\* Mutant: the last attempt is not made.
ExhaustedEarly(j) == jobs[j].attempt + 1 >= Attempts(j)

Exhausted(j) == jobs[j].attempt >= Attempts(j)

\* Mutant: jobs whose attempt failed are not taken again.
FetchOnce(j) ==
    /\ Started
    /\ jobs[j].state = "available"
    /\ Cardinality(Busy) < MaxWorkers
    /\ jobs' = [jobs EXCEPT ![j] = [state |-> "running", attempt |-> @.attempt + 1]]
    /\ workers' = [workers EXCEPT ![j] = "busy"]
    /\ UNCHANGED <<stage, abrupt, uptime, requests, rows, declined, sent, users>>

\* A retryable job waits for its backoff, which is shorter than a tick.
Fetch(j) ==
    /\ Started
    /\ jobs[j].state \in {"available", "retryable"}
    /\ Cardinality(Busy) < MaxWorkers
    /\ jobs' = [jobs EXCEPT ![j] = [state |-> "running", attempt |-> @.attempt + 1]]
    /\ workers' = [workers EXCEPT ![j] = "busy"]
    /\ UNCHANGED <<stage, abrupt, uptime, requests, rows, declined, sent, users>>

\* The transport takes the mail, refuses it, or takes it and fails to say so, all within
\* thirty seconds.
Deliveries == {[outcome |-> "succeeded", taken |-> 1], [outcome |-> "failed", taken |-> 0],
               [outcome |-> "failed", taken |-> 1]}

Send(r) ==
    /\ workers[r] = "busy"
    /\ \E delivery \in Deliveries :
        /\ workers' = [workers EXCEPT ![r] = delivery.outcome]
        /\ sent' = [sent EXCEPT ![r] = @ + delivery.taken]
    /\ UNCHANGED <<stage, abrupt, uptime, requests, rows, declined, jobs, users>>

\* Mutant: only the accounts of one day are deleted, not all that are past it.
DueThatDay == {u \in Users : users[u] = Retention}

\* Everyone who is past the retention is deleted by one statement.
Due == {u \in Users : users[u] \in Ages /\ users[u] > Retention}

Purge(j) ==
    /\ workers[j] = "busy"
    /\ workers' = [workers EXCEPT ![j] = "succeeded"]
    /\ users' = [u \in Users |-> IF u \in Due THEN Purged ELSE users[u]]
    /\ UNCHANGED <<stage, abrupt, uptime, requests, rows, declined, jobs, sent>>

PurgeFails(j) ==
    /\ workers[j] = "busy"
    /\ workers' = [workers EXCEPT ![j] = "failed"]
    /\ UNCHANGED <<stage, abrupt, uptime, requests, rows, declined, jobs, sent, users>>

\* What becomes of a job whose attempt was lost or failed.
Retried(j) == [jobs[j] EXCEPT !.state = IF Exhausted(j) THEN "discarded" ELSE "retryable"]

\* The outcome of an attempt is written after the attempt.
Record(j) ==
    /\ workers[j] \in {"succeeded", "failed"}
    /\ workers' = [workers EXCEPT ![j] = "none"]
    /\ jobs' = [jobs EXCEPT ![j] =
            IF workers[j] = "succeeded" THEN [@ EXCEPT !.state = "completed"] ELSE Retried(j)]
    /\ UNCHANGED <<stage, abrupt, uptime, requests, rows, declined, sent, users>>

\* A job that is marked as running for an hour, and that nobody works on, is rescued.
Rescue(j) ==
    /\ Started
    /\ jobs[j].state = "running"
    /\ workers[j] = "none"
    /\ jobs' = [jobs EXCEPT ![j] = Retried(j)]
    /\ UNCHANGED <<stage, abrupt, uptime, requests, rows, declined, workers, sent, users>>

-----------------------------------------------------------------------------
\* The purge of withdrawn accounts.

Withdraw(u) ==
    /\ Listening
    /\ users[u] = Member
    /\ users' = [users EXCEPT ![u] = 0]
    /\ UNCHANGED <<stage, abrupt, uptime, requests, rows, declined, jobs, workers, sent>>

\* The schedule is kept in memory: an interval that a restart cuts off begins again.
\* Settled jobs are cleaned up, so that their slot is free again.
Schedule(p) ==
    /\ Started
    /\ uptime = Interval
    /\ Settled(p)
    /\ uptime' = 0
    /\ jobs' = [jobs EXCEPT ![p] = [state |-> "available", attempt |-> 0]]
    /\ UNCHANGED <<stage, abrupt, requests, rows, declined, workers, sent, users>>

\* Time passes whether or not the process runs.  The schedule runs what is due before the
\* next tick.
Tick ==
    /\ ~(Started /\ uptime = Interval)
    /\ uptime' = IF Started THEN uptime + 1 ELSE uptime
    /\ users' = [u \in Users |->
            IF users[u] \in 0..Retention THEN users[u] + 1 ELSE users[u]]
    /\ UNCHANGED <<stage, abrupt, requests, rows, declined, jobs, workers, sent>>

-----------------------------------------------------------------------------
\* A stop that has begun: each part of it waits for at most thirty seconds.
Stop == Drain \/ DrainTimesOut \/ StopWorkers \/ StopTimesOut \/ Exit

Lifecycle == \/ Open \/ StartWorkers \/ StartFails \/ Listen \/ ListenFails
             \/ Signal \/ Stop \/ Crash

\* What the queue does with one job.
Work(j) ==
    \/ Fetch(j)
    \/ Record(j)
    \/ Rescue(j)
    \/ j \in Requests /\ Send(j)
    \/ j \in Purges /\ (Purge(j) \/ PurgeFails(j))

Next ==
    \/ Lifecycle
    \/ \E r \in Requests : Accept(r) \/ Commit(r) \/ Enqueue(r) \/ EnqueueFails(r)
    \/ \E j \in JobIds : Work(j)
    \/ \E u \in Users : Withdraw(u)
    \/ \E p \in Purges : Schedule(p)
    \/ Tick

Spec == Init /\ [][Next]_vars

\* An operator or a supervisor starts the process again, a stop that began goes on, time
\* passes, and the schedule runs what is due.  Crashes may cut the work on a job off as often as
\* they like, but not exactly whenever it could go on; and not every purge fails.
Fairness ==
    /\ WF_vars(Open)
    /\ SF_vars(StartWorkers)
    /\ WF_vars(Stop)
    /\ WF_vars(Tick)
    /\ \A p \in Purges : WF_vars(Schedule(p))
    /\ \A j \in JobIds : SF_vars(Work(j))
    /\ SF_vars(\E p \in Purges : Purge(p))

FairSpec == Spec /\ Fairness

-----------------------------------------------------------------------------
\* A stop by signal that keeps to its timeouts cuts nothing off: no request meets a queue whose
\* connections are closed, so each that is answered has its mail queued unless the queue itself
\* declined it, and no job is left behind as running.  So the order of the stops in serve.go:
\* the listener, the requests, the jobs, the connections.
GracefulStopsLoseNothing ==
    ~abrupt =>
        /\ \A r \in Requests :
            /\ requests[r].step # "cut"
            /\ requests[r].step \in {"done", "refused"} => jobs[r].state # "none" \/ r \in declined
        /\ \A j \in JobIds : jobs[j].state = "running" => workers[j] # "none"

\* Whatever is cut off between the commit of a row and the queueing of its mail: a mail in
\* the queue is about a row that is committed, and a sign-up or a change of address that is
\* not refused has its mail in the queue (create_sign_up.go, create_email_change.go).
MailsFollowRows ==
    \A r \in Requests :
        /\ jobs[r].state # "none" => r \in rows
        /\ (requests[r].step = "done" /\ requests[r].kind \in Surfaced)
               => jobs[r].state # "none"

\* Crashes between the sending of a mail and the record of it send it again, but never more
\* often than the job has attempts; what the queue calls sent was taken by the transport, and
\* it gives up only when every attempt is used (InsertOpts of the mail jobs).
GivesUpOnlyAfterEveryAttempt ==
    \A r \in Requests :
        /\ sent[r] <= jobs[r].attempt
        /\ jobs[r].state = "completed" => sent[r] > 0
        /\ jobs[r].state = "discarded" => jobs[r].attempt = MailAttempts

\* No job stays in the queue, however often the process is stopped or crashes while the job
\* is worked on: it is done or given up in the end.
EveryJobSettles ==
    \A j \in JobIds : jobs[j].state = "available" ~> Settled(j)

\* As long as the schedule keeps coming round, every withdrawn account is deleted in the end,
\* whatever attempts and whole jobs fail on the way (dispatcher.go: what one run leaves, a
\* later one deletes).
PurgedWhileTheScheduleRuns ==
    []<><<\E p \in Purges : Schedule(p)>>_vars =>
        \A u \in Users : users[u] \in Ages ~> users[u] = Purged

\* worker/client.go says of the interval of the purge that it decides how long a row remains
\* at most, and not whether it is deleted in the end.
WithdrawnIsPurged ==
    \A u \in Users : users[u] \in Ages ~> users[u] = Purged
=============================================================================
