---------------------------- MODULE WebhookQueue ----------------------------
(***************************************************************************)
(* Webhook delivery: src/src/services/merchantWebhookQueue.service.ts.     *)
(*                                                                         *)
(* A delivery is a job of a Bull queue in Redis and a row of               *)
(* merchant_webhook_events in the database.  Nothing ties the two          *)
(* together: the producer writes first one then the other, the processor   *)
(* and the "failed" listener update the row at their awaits and swallow    *)
(* database errors, and an administrator may retry a failed job.           *)
(*                                                                         *)
(* What Bull does (hand out a job under a lock, count failed attempts,     *)
(* delay, fail, detect stalled jobs) is external and modelled as the code  *)
(* uses it.                                                                *)
(***************************************************************************)
EXTENDS Naturals, FiniteSets

CONSTANTS
    Jobs,         \* deliveries the application may enqueue
    Workers,      \* server processes, each with one queue processor
    Admins,       \* POST /retry/:jobId requests that may be in progress
    MaxAttempts,  \* jobOptions.attempts (5)
    MaxStalls,    \* Bull's maxStalledCount (1)
    MaxManual,    \* bound: manual retries of one job
    Faults        \* which of "db", "stall", "crash" the environment does

None == "none"

ASSUME QueueAssumption ==
    /\ IsFiniteSet(Workers)
    /\ None \notin Workers
    /\ MaxAttempts \in Nat \ {0}
    /\ MaxStalls \in Nat
    /\ MaxManual \in Nat
    /\ Faults \subseteq {"db", "stall", "crash"}

VARIABLES
    job,        \* Bull: the list or set each job is in
    attempts,   \* Bull: job.attemptsMade
    lock,       \* Bull: the worker that holds the job's lock
    row,        \* table merchant_webhook_events, a function on the jobs with a row
    adding,     \* jobs whose addToQueue has not saved the row yet
    work,       \* what each processor does
    listeners,  \* "failed" listeners of final attempts, still to be run
    request,    \* what each retry request does
    sent,       \* calls of notifyPaymentUpdate
    acked,      \* calls that returned true: the merchant accepted the webhook
    alerts,     \* in-app notifications "Webhook Delivery Failed"
    stalls,     \* times Bull took the job away from a worker
    retries     \* manual retries

queue == <<job, attempts, lock, stalls>>
merchant == <<sent, acked>>
vars == <<queue, row, adding, work, listeners, request, merchant, alerts, retries>>

Idle == [step |-> "idle"]
JobStates == {"absent", "waiting", "delayed", "active", "completed", "failed"}
EventStatus == {"pending", "completed", "failed"}
WorkSteps == {"begin", "send", "succeed", "fail", "return", "throw"}
Task == [step: WorkSteps, job: Jobs, n: Nat]
Listener == [step: {"notify", "mark"}, job: Jobs, n: Nat]
Request == [step: {"retry", "update"}, job: Jobs]

------------------------------------------------------------------------------
\* Pure parts of the service.

\* Variant for testing the properties: the attempt before the last one counts as
\* the last.
LastAttemptTooSoon(n) == n + 2 >= MaxAttempts

\* isLastAttempt: attemptsMade is what it was before this attempt.
IsLastAttempt(n) == n + 1 >= MaxAttempts

StatusAfterFailure(n) == IF IsLastAttempt(n) THEN "failed" ELSE "pending"

\* updateWebhookEventStatus: UPDATE ... WHERE jobId, which may find no row; a
\* database error is logged and forgotten.
UpdateEvent(j, status, n) ==
    \/ row' = [k \in DOMAIN row |->
                  IF k = j THEN [status |-> status, attempts |-> n] ELSE row[k]]
    \/ "db" \in Faults /\ UNCHANGED row

Work(w, t) == work' = [work EXCEPT ![w] = t]
At(w, step) == work[w].step = step
Holds(w) == lock[work[w].job] = w

------------------------------------------------------------------------------
Init ==
    /\ job = [j \in Jobs |-> "absent"]
    /\ attempts = [j \in Jobs |-> 0]
    /\ lock = [j \in Jobs |-> None]
    /\ row = [j \in {} |-> Idle]          \* the table is empty
    /\ adding = {}
    /\ work = [w \in Workers |-> Idle]
    /\ listeners = {}
    /\ request = [q \in Admins |-> Idle]
    /\ sent = [j \in Jobs |-> 0]
    /\ acked = [j \in Jobs |-> 0]
    /\ alerts = [j \in Jobs |-> 0]
    /\ stalls = [j \in Jobs |-> 0]
    /\ retries = [j \in Jobs |-> 0]

------------------------------------------------------------------------------
\* addToQueue: the job is in the queue, and may be taken, before its row is
\* saved.
AddToQueue(j) ==
    /\ job[j] = "absent"
    /\ job' = [job EXCEPT ![j] = "waiting"]
    /\ adding' = adding \cup {j}
    /\ UNCHANGED <<attempts, lock, stalls, row, work, listeners, request,
                   merchant, alerts, retries>>

SaveEvent(j) ==
    /\ j \in adding
    /\ adding' = adding \ {j}
    /\ \/ row' = [k \in DOMAIN row \cup {j} |->
                     IF k = j THEN [status |-> "pending", attempts |-> 0]
                              ELSE row[k]]
       \/ "db" \in Faults /\ UNCHANGED row
    /\ UNCHANGED <<queue, work, listeners, request, merchant, alerts, retries>>

------------------------------------------------------------------------------
\* Bull hands a waiting job to a worker that has none.
TakeJob(w) ==
    /\ At(w, "idle")
    /\ \E j \in Jobs :
          /\ job[j] = "waiting"
          /\ job' = [job EXCEPT ![j] = "active"]
          /\ lock' = [lock EXCEPT ![j] = w]
          /\ Work(w, [step |-> "begin", job |-> j, n |-> attempts[j]])
    /\ UNCHANGED <<attempts, stalls, row, adding, listeners, request, merchant,
                   alerts, retries>>

\* The backoff of a failed attempt is over.
BackoffOver(j) ==
    /\ job[j] = "delayed"
    /\ job' = [job EXCEPT ![j] = "waiting"]
    /\ UNCHANGED <<attempts, lock, stalls, row, adding, work, listeners, request,
                   merchant, alerts, retries>>

\* The processor: "Update event record to indicate attempt is in progress".
BeginAttempt(w) ==
    /\ At(w, "begin")
    /\ UpdateEvent(work[w].job, "pending", work[w].n)
    /\ Work(w, [work[w] EXCEPT !.step = "send"])
    /\ UNCHANGED <<queue, adding, listeners, request, merchant, alerts, retries>>

\* notifyPaymentUpdate returns true.
Deliver(w) ==
    /\ At(w, "send")
    /\ sent' = [sent EXCEPT ![work[w].job] = @ + 1]
    /\ acked' = [acked EXCEPT ![work[w].job] = @ + 1]
    /\ Work(w, [work[w] EXCEPT !.step = "succeed"])
    /\ UNCHANGED <<queue, row, adding, listeners, request, alerts, retries>>

\* Variant for testing the properties: a result of false is not an error.
DeliveryFailsUnnoticed(w) ==
    /\ At(w, "send")
    /\ sent' = [sent EXCEPT ![work[w].job] = @ + 1]
    /\ Work(w, [work[w] EXCEPT !.step = "succeed"])
    /\ UNCHANGED <<queue, row, adding, listeners, request, acked, alerts, retries>>

\* Variant for testing the properties: the HTTP call has no time-out.
DeliveryHangs(w) ==
    /\ At(w, "send")
    /\ sent' = [sent EXCEPT ![work[w].job] = @ + 1]
    /\ Work(w, [work[w] EXCEPT !.step = "hang"])
    /\ UNCHANGED <<queue, row, adding, listeners, request, acked, alerts, retries>>

\* notifyPaymentUpdate returns false or throws; the merchant may have received
\* the webhook all the same.
DeliveryFails(w) ==
    /\ At(w, "send")
    /\ sent' = [sent EXCEPT ![work[w].job] = @ + 1]
    /\ Work(w, [work[w] EXCEPT !.step = "fail"])
    /\ UNCHANGED <<queue, row, adding, listeners, request, acked, alerts, retries>>

\* Variant for testing the properties: the record shows the attempt's number
\* counted from zero.
RecordSuccessFromZero(w) ==
    /\ At(w, "succeed")
    /\ UpdateEvent(work[w].job, "completed", 0)
    /\ Work(w, [work[w] EXCEPT !.step = "return"])
    /\ UNCHANGED <<queue, adding, listeners, request, merchant, alerts, retries>>

RecordSuccess(w) ==
    /\ At(w, "succeed")
    /\ UpdateEvent(work[w].job, "completed", work[w].n + 1)
    /\ Work(w, [work[w] EXCEPT !.step = "return"])
    /\ UNCHANGED <<queue, adding, listeners, request, merchant, alerts, retries>>

\* The catch of the processor.
RecordFailure(w) ==
    /\ At(w, "fail")
    /\ UpdateEvent(work[w].job, StatusAfterFailure(work[w].n), work[w].n + 1)
    /\ Work(w, [work[w] EXCEPT !.step = "throw"])
    /\ UNCHANGED <<queue, adding, listeners, request, merchant, alerts, retries>>

\* The processor returned: Bull completes the job if the worker has its lock.
JobCompletes(w) ==
    /\ At(w, "return")
    /\ IF Holds(w)
       THEN /\ job' = [job EXCEPT ![work[w].job] = "completed"]
            /\ lock' = [lock EXCEPT ![work[w].job] = None]
       ELSE UNCHANGED <<job, lock>>
    /\ Work(w, Idle)
    /\ UNCHANGED <<attempts, stalls, row, adding, listeners, request, merchant,
                   alerts, retries>>

\* The "failed" listener: it only acts on attempt number maxAttempts or later.
FinalFailure(j, n) ==
    listeners' = IF n >= MaxAttempts
                 THEN listeners \cup {[step |-> "notify", job |-> j, n |-> n]}
                 ELSE listeners

\* The processor threw: if the worker has the lock, Bull counts the attempt,
\* delays the job or fails it, and emits "failed".
JobFails(w) ==
    /\ At(w, "throw")
    /\ IF Holds(w)
       THEN LET j == work[w].job
                n == attempts[j] + 1
            IN  /\ attempts' = [attempts EXCEPT ![j] = n]
                /\ job' = [job EXCEPT ![j] = IF n < MaxAttempts THEN "delayed"
                                                                ELSE "failed"]
                /\ lock' = [lock EXCEPT ![j] = None]
                /\ FinalFailure(j, n)
       ELSE UNCHANGED <<attempts, job, lock, listeners>>
    /\ Work(w, Idle)
    /\ UNCHANGED <<stalls, row, adding, request, merchant, alerts, retries>>

\* The listener of a final failure alerts the administrators, if it can ...
Alert(l) ==
    /\ l.step = "notify"
    /\ \/ alerts' = [alerts EXCEPT ![l.job] = @ + 1]
       \/ "db" \in Faults /\ UNCHANGED alerts
    /\ listeners' = (listeners \ {l}) \cup {[l EXCEPT !.step = "mark"]}
    /\ UNCHANGED <<queue, row, adding, work, request, merchant, retries>>

\* ... and marks the row.
MarkFailed(l) ==
    /\ l.step = "mark"
    /\ UpdateEvent(l.job, "failed", l.n)
    /\ listeners' = listeners \ {l}
    /\ UNCHANGED <<queue, adding, work, request, merchant, alerts, retries>>

------------------------------------------------------------------------------
\* retryWebhook finds the job and its row ...
RetryWebhook(q) ==
    /\ request[q] = Idle
    /\ \E j \in DOMAIN row :
          /\ retries[j] < MaxManual
          /\ request' = [request EXCEPT ![q] = [step |-> "retry", job |-> j]]
    /\ UNCHANGED <<queue, row, adding, work, listeners, merchant, alerts, retries>>

\* Variant for testing the properties: the attempts of a retried job are counted anew.
RetryJobAnew(q) ==
    /\ request[q].step = "retry"
    /\ LET j == request[q].job
       IN  /\ job[j] = "failed"
           /\ retries[j] < MaxManual
           /\ job' = [job EXCEPT ![j] = "waiting"]
           /\ attempts' = [attempts EXCEPT ![j] = 0]
           /\ retries' = [retries EXCEPT ![j] = @ + 1]
           /\ request' = [request EXCEPT ![q].step = "update"]
    /\ UNCHANGED <<lock, stalls, row, adding, work, listeners, merchant, alerts>>

\* ... calls job.retry(), which throws unless the job is failed and does not
\* reset attemptsMade ...
RetryJob(q) ==
    /\ request[q].step = "retry"
    /\ LET j == request[q].job
       IN  IF job[j] = "failed" /\ retries[j] < MaxManual
           THEN /\ job' = [job EXCEPT ![j] = "waiting"]
                /\ retries' = [retries EXCEPT ![j] = @ + 1]
                /\ request' = [request EXCEPT ![q].step = "update"]
           ELSE /\ request' = [request EXCEPT ![q] = Idle]
                /\ UNCHANGED <<job, retries>>
    /\ UNCHANGED <<attempts, lock, stalls, row, adding, work, listeners, merchant,
                   alerts>>

\* ... and sets the row to PENDING, leaving its attempts; an error is answered.
RecordRetry(q) ==
    /\ request[q].step = "update"
    /\ UpdateEvent(request[q].job, "pending", row[request[q].job].attempts)
    /\ request' = [request EXCEPT ![q] = Idle]
    /\ UNCHANGED <<queue, adding, work, listeners, merchant, alerts, retries>>

------------------------------------------------------------------------------
\* Failures of the environment.

\* Bull finds that the lock of an active job was not renewed and lets another
\* worker take it; the first one may still be running.
Stall(j) ==
    /\ "stall" \in Faults
    /\ job[j] = "active"
    /\ stalls[j] < MaxStalls
    /\ stalls' = [stalls EXCEPT ![j] = @ + 1]
    /\ job' = [job EXCEPT ![j] = "waiting"]
    /\ lock' = [lock EXCEPT ![j] = None]
    /\ UNCHANGED <<attempts, row, adding, work, listeners, request, merchant,
                   alerts, retries>>

\* A job that stalls once too often is failed, without counting an attempt.
StallTooOften(j) ==
    /\ "stall" \in Faults
    /\ job[j] = "active"
    /\ stalls[j] >= MaxStalls
    /\ job' = [job EXCEPT ![j] = "failed"]
    /\ lock' = [lock EXCEPT ![j] = None]
    /\ FinalFailure(j, attempts[j])
    /\ UNCHANGED <<attempts, stalls, row, adding, work, request, merchant, alerts,
                   retries>>

\* The server processes restart: Redis and the database keep their state.
Crash ==
    /\ "crash" \in Faults
    /\ work' = [w \in Workers |-> Idle]
    /\ listeners' = {}
    /\ request' = [q \in Admins |-> Idle]
    /\ adding' = {}
    /\ UNCHANGED <<queue, row, merchant, alerts, retries>>

------------------------------------------------------------------------------
WorkerStep(w) ==
    \/ TakeJob(w) \/ BeginAttempt(w) \/ Deliver(w) \/ DeliveryFails(w)
    \/ RecordSuccess(w) \/ RecordFailure(w) \/ JobCompletes(w) \/ JobFails(w)

Next ==
    \/ \E j \in Jobs : AddToQueue(j) \/ SaveEvent(j) \/ BackoffOver(j)
                       \/ Stall(j) \/ StallTooOften(j)
    \/ \E w \in Workers : WorkerStep(w)
    \/ \E l \in listeners : Alert(l) \/ MarkFailed(l)
    \/ \E q \in Admins : RetryWebhook(q) \/ RetryJob(q) \/ RecordRetry(q)
    \/ Crash

Spec == Init /\ [][Next]_vars

\* Bull polls Redis for waiting and delayed jobs, and every await of the
\* processor and of the listener completes: the HTTP call has a time-out of 5
\* seconds.  Nobody need enqueue or retry anything.
Fairness ==
    /\ \A w \in Workers : WF_vars(WorkerStep(w))
    /\ \A j \in Jobs : WF_vars(BackoffOver(j)) /\ WF_vars(SaveEvent(j))
    /\ WF_vars(\E l \in listeners : Alert(l) \/ MarkFailed(l))

FairSpec == Spec /\ Fairness
------------------------------------------------------------------------------
(***************************************************************************)
(* Properties.                                                             *)
(***************************************************************************)
WorksOn(w, j, step) == At(w, step) /\ work[w].job = j

QueueTypes ==
    /\ job \in [Jobs -> JobStates]
    /\ attempts \in [Jobs -> Nat]
    /\ stalls \in [Jobs -> Nat]
    /\ lock \in [Jobs -> Workers \cup {None}]
    /\ \A j \in Jobs : job[j] = "active" <=> lock[j] # None

RecordTypes ==
    /\ DOMAIN row \subseteq Jobs
    /\ \A j \in DOMAIN row : row[j] \in [status: EventStatus, attempts: Nat]
    /\ adding \subseteq Jobs

ProcessTypes ==
    /\ work \in [Workers -> Task \cup {Idle}]
    /\ listeners \subseteq Listener
    /\ request \in [Admins -> Request \cup {Idle}]
    /\ \A q \in Admins : request[q] # Idle => request[q].job \in DOMAIN row

HistoryTypes ==
    /\ sent \in [Jobs -> Nat]
    /\ acked \in [Jobs -> Nat]
    /\ alerts \in [Jobs -> Nat]
    /\ retries \in [Jobs -> Nat]

\* Queue, table and processes hold values of their type, a job is locked exactly
\* while it is active, and a retry request works on a delivery with a record.
TypeOK == QueueTypes /\ RecordTypes /\ ProcessTypes /\ HistoryTypes

\* Whatever is retried, stalls, crashes or is lost by the database, a delivery is
\* shown as COMPLETED, or its job completed, only if the merchant accepted it.
CompletedWasAccepted ==
    \A j \in Jobs :
        job[j] = "completed" \/ (j \in DOMAIN row /\ row[j].status = "completed")
            => acked[j] > 0

\* The merchant is called at most MaxAttempts times, plus once for every manual
\* retry and every time a worker lost the job.
AttemptBudget ==
    \A j \in Jobs : sent[j] <= MaxAttempts + retries[j] + stalls[j]

\* Without manual retries, stalls and restarts a final status of the record is
\* right, also when some of its updates are lost: it is (or is about to be) that
\* of the job, and a delivery shown as FAILED was never accepted.
FinalStatusIsRight ==
    \A j \in DOMAIN row :
        /\ row[j].status = "completed" =>
              job[j] = "completed" \/ \E w \in Workers : WorksOn(w, j, "return")
        /\ row[j].status = "failed" =>
              /\ job[j] = "failed" \/ \E w \in Workers : WorksOn(w, j, "throw")
              /\ acked[j] = 0

\* Without manual retries, stalls and restarts the administrators are alerted at
\* most once for a delivery, after all its attempts failed.
AlarmIsTrue ==
    \A j \in Jobs :
        /\ alerts[j] <= 1
        /\ alerts[j] = 1 =>
              job[j] = "failed" /\ sent[j] = MaxAttempts /\ acked[j] = 0

\* What the merchant and the administrators are told of a delivery in the end.
OutcomeIsTrue == FinalStatusIsRight /\ AlarmIsTrue

\* Without manual retries, stalls and restarts the record only moves forward: the
\* attempts shown never decrease and a final status is never taken back.
RecordMovesForward ==
    [][\A j \in DOMAIN row :
          /\ row'[j].attempts >= row[j].attempts
          /\ row[j].status # "pending" => row'[j].status = row[j].status]_vars

\* Without stalls and restarts every delivery ends: it is completed, or failed
\* after its last attempt.
DeliveryEnds ==
    \A j \in Jobs : job[j] = "waiting" ~> job[j] \in {"completed", "failed"}

\* What addToQueue documents ("Creates a database record to track the webhook
\* status"): when a delivery is over and nobody works on it, its record shows how
\* it ended.
RecordTracksJob ==
    \A j \in DOMAIN row :
        /\ job[j] \in {"completed", "failed"}
        /\ \A w \in Workers : work[w] = Idle
        /\ listeners = {}
        /\ \A q \in Admins : request[q] = Idle
        => row[j].status = job[j]
==============================================================================
