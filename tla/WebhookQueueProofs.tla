------------------------- MODULE WebhookQueueProofs -------------------------
(***************************************************************************)
(* Theorems about WebhookQueue for any number of deliveries, workers,      *)
(* attempts, manual retries and stalls, and all faults.                    *)
(***************************************************************************)
EXTENDS WebhookQueue, FiniteSetTheorems, TLAPS

\* An update of the record leaves the set of records and their type alone, and
\* changes one record at most.
LEMMA UpdateEventTypes ==
    ASSUME RecordTypes, NEW j, NEW status \in EventStatus, NEW n \in Nat,
           UpdateEvent(j, status, n)
    PROVE  /\ DOMAIN row' = DOMAIN row
           /\ \A k \in DOMAIN row : row'[k] = row[k] \/ row'[k].status = status
           /\ \A k \in DOMAIN row : row'[k] \in [status: EventStatus, attempts: Nat]
  BY DEF UpdateEvent, RecordTypes

\* A processor in the middle of an attempt has a task.
LEMMA WorkTypes ==
    ASSUME ProcessTypes, NEW w \in Workers, work[w].step # "idle"
    PROVE  /\ work[w] \in Task
           /\ work[w].job \in Jobs
           /\ work[w].n \in Nat
           /\ \A step \in WorkSteps : [work[w] EXCEPT !.step = step] \in Task
  BY DEF ProcessTypes, Task, Idle

------------------------------------------------------------------------------
\* TypeOK is inductive.

LEMMA InitTypeOK == Init => TypeOK
  BY QueueAssumption
     DEF QueueAssumption, Init, TypeOK, QueueTypes, RecordTypes, ProcessTypes,
         HistoryTypes, JobStates

\* The steps of a processor.
LEMMA WorkerStepTypeOK ==
    ASSUME TypeOK, NEW w \in Workers, WorkerStep(w)
    PROVE  TypeOK'
  <1> USE DEF TypeOK
  <1>1. CASE TakeJob(w)
    <2>1. PICK j \in Jobs :
            /\ job[j] = "waiting"
            /\ job' = [job EXCEPT ![j] = "active"]
            /\ lock' = [lock EXCEPT ![j] = w]
            /\ Work(w, [step |-> "begin", job |-> j, n |-> attempts[j]])
      BY <1>1 DEF TakeJob
    <2>2. QueueTypes'
      BY <1>1, <2>1, QueueAssumption
         DEF QueueAssumption, TakeJob, QueueTypes, JobStates
    <2>3. [step |-> "begin", job |-> j, n |-> attempts[j]] \in Task
      BY DEF QueueTypes, Task, WorkSteps
    <2>4. ProcessTypes'
      BY <1>1, <2>1, <2>3 DEF TakeJob, ProcessTypes, Work
    <2> QED
      BY <1>1, <2>2, <2>4 DEF TakeJob, RecordTypes, HistoryTypes, merchant
  <1>2. ASSUME NEW step \in WorkSteps, work[w].step # "idle",
               Work(w, [work[w] EXCEPT !.step = step]),
               DOMAIN row' = DOMAIN row, UNCHANGED <<listeners, request>>
        PROVE  ProcessTypes'
    BY <1>2, WorkTypes DEF Work, ProcessTypes
  <1>3. ASSUME NEW status \in EventStatus, NEW n \in Nat, NEW j,
               UpdateEvent(j, status, n), UNCHANGED adding
        PROVE  RecordTypes' /\ DOMAIN row' = DOMAIN row
    BY <1>3, UpdateEventTypes DEF RecordTypes
  <1>4. CASE BeginAttempt(w)
    <2>1. work[w].n \in Nat /\ work[w].step # "idle"
      BY <1>4, WorkTypes DEF BeginAttempt, At
    <2>2. RecordTypes' /\ DOMAIN row' = DOMAIN row
      BY <1>3, <1>4, <2>1 DEF BeginAttempt, EventStatus
    <2>3. ProcessTypes'
      BY <1>2, <1>4, <2>1, <2>2 DEF BeginAttempt, WorkSteps
    <2> QED
      BY <1>4, <2>2, <2>3 DEF BeginAttempt, QueueTypes, queue, HistoryTypes, merchant
  <1>5. CASE Deliver(w) \/ DeliveryFails(w)
    <2>1. work[w].job \in Jobs /\ work[w].step # "idle"
      BY <1>5, WorkTypes DEF Deliver, DeliveryFails, At
    <2>2. HistoryTypes'
      BY <1>5, <2>1 DEF Deliver, DeliveryFails, HistoryTypes
    <2>3. ProcessTypes'
      BY <1>2, <1>5, <2>1 DEF Deliver, DeliveryFails, WorkSteps
    <2> QED
      BY <1>5, <2>2, <2>3 DEF Deliver, DeliveryFails, QueueTypes, queue, RecordTypes
  <1>6. CASE RecordSuccess(w)
    <2>1. work[w].n + 1 \in Nat /\ work[w].step # "idle"
      BY <1>6, WorkTypes DEF RecordSuccess, At
    <2>2. RecordTypes' /\ DOMAIN row' = DOMAIN row
      BY <1>3, <1>6, <2>1 DEF RecordSuccess, EventStatus
    <2>3. ProcessTypes'
      BY <1>2, <1>6, <2>1, <2>2 DEF RecordSuccess, WorkSteps
    <2> QED
      BY <1>6, <2>2, <2>3 DEF RecordSuccess, QueueTypes, queue, HistoryTypes, merchant
  <1>7. CASE RecordFailure(w)
    <2>1. work[w].n + 1 \in Nat /\ work[w].step # "idle"
      BY <1>7, WorkTypes DEF RecordFailure, At
    <2>2. StatusAfterFailure(work[w].n) \in EventStatus
      BY DEF StatusAfterFailure, EventStatus
    <2>3. RecordTypes' /\ DOMAIN row' = DOMAIN row
      BY <1>3, <1>7, <2>1, <2>2 DEF RecordFailure
    <2>4. ProcessTypes'
      BY <1>2, <1>7, <2>1, <2>3 DEF RecordFailure, WorkSteps
    <2> QED
      BY <1>7, <2>3, <2>4 DEF RecordFailure, QueueTypes, queue, HistoryTypes, merchant
  <1>8. CASE JobCompletes(w)
    <2>1. work[w].job \in Jobs
      BY <1>8, WorkTypes DEF JobCompletes, At
    <2>2. QueueTypes'
      BY <1>8, <2>1, QueueAssumption
         DEF QueueAssumption, JobCompletes, QueueTypes, JobStates
    <2>3. ProcessTypes'
      BY <1>8 DEF JobCompletes, ProcessTypes, Work
    <2> QED
      BY <1>8, <2>2, <2>3 DEF JobCompletes, RecordTypes, HistoryTypes, merchant
  <1>9. CASE JobFails(w)
    <2> DEFINE j == work[w].job
    <2>1. j \in Jobs
      BY <1>9, WorkTypes DEF JobFails, At
    <2>2. attempts[j] + 1 \in Nat
      BY <2>1 DEF QueueTypes
    <2> HIDE DEF j
    <2>3. QueueTypes'
      BY <1>9, <2>1, <2>2, QueueAssumption
         DEF QueueAssumption, JobFails, QueueTypes, JobStates, j
    <2>4. listeners' \subseteq Listener
      BY <1>9, <2>1, <2>2
         DEF JobFails, FinalFailure, ProcessTypes, Listener, j
    <2>5. ProcessTypes'
      BY <1>9, <2>4 DEF JobFails, ProcessTypes, Work
    <2> QED
      BY <1>9, <2>3, <2>5 DEF JobFails, RecordTypes, HistoryTypes, merchant
  <1> QED
    BY <1>1, <1>4, <1>5, <1>6, <1>7, <1>8, <1>9 DEF WorkerStep

\* The producer, the delay of a job and the failures of its lock.
LEMMA JobStepTypeOK ==
    ASSUME TypeOK, NEW j \in Jobs,
           \/ AddToQueue(j) \/ SaveEvent(j) \/ BackoffOver(j)
           \/ Stall(j) \/ StallTooOften(j)
    PROVE  TypeOK'
  <1> USE DEF TypeOK
  <1>1. CASE AddToQueue(j)
    <2>1. QueueTypes'
      BY <1>1, QueueAssumption
         DEF QueueAssumption, AddToQueue, QueueTypes, JobStates
    <2> QED
      BY <1>1, <2>1
         DEF AddToQueue, RecordTypes, ProcessTypes, HistoryTypes, merchant
  <1>2. CASE SaveEvent(j)
    <2>1. RecordTypes' /\ DOMAIN row \subseteq DOMAIN row'
      BY <1>2 DEF SaveEvent, RecordTypes, EventStatus
    <2> QED
      BY <1>2, <2>1
         DEF SaveEvent, QueueTypes, queue, ProcessTypes, HistoryTypes, merchant
  <1>3. CASE BackoffOver(j)
    <2>1. QueueTypes'
      BY <1>3, QueueAssumption
         DEF QueueAssumption, BackoffOver, QueueTypes, JobStates
    <2> QED
      BY <1>3, <2>1
         DEF BackoffOver, RecordTypes, ProcessTypes, HistoryTypes, merchant
  <1>4. CASE Stall(j)
    <2>1. QueueTypes'
      BY <1>4, QueueAssumption DEF QueueAssumption, Stall, QueueTypes, JobStates
    <2> QED
      BY <1>4, <2>1 DEF Stall, RecordTypes, ProcessTypes, HistoryTypes, merchant
  <1>5. CASE StallTooOften(j)
    <2>1. QueueTypes'
      BY <1>5, QueueAssumption
         DEF QueueAssumption, StallTooOften, QueueTypes, JobStates
    <2>2. listeners' \subseteq Listener
      BY <1>5 DEF StallTooOften, FinalFailure, QueueTypes, ProcessTypes, Listener
    <2> QED
      BY <1>5, <2>1, <2>2
         DEF StallTooOften, RecordTypes, ProcessTypes, HistoryTypes, merchant
  <1> QED
    BY <1>1, <1>2, <1>3, <1>4, <1>5

\* The "failed" listener and the manual retry.
LEMMA ListenerStepTypeOK ==
    ASSUME TypeOK, NEW l \in listeners, Alert(l) \/ MarkFailed(l)
    PROVE  TypeOK'
  <1> USE DEF TypeOK
  <1>1. l \in Listener /\ l.job \in Jobs /\ l.n \in Nat
        /\ [l EXCEPT !.step = "mark"] \in Listener
    BY DEF ProcessTypes, Listener
  <1>2. CASE Alert(l)
    <2>1. HistoryTypes'
      BY <1>1, <1>2 DEF Alert, HistoryTypes, merchant
    <2>2. ProcessTypes'
      BY <1>1, <1>2 DEF Alert, ProcessTypes
    <2> QED
      BY <1>2, <2>1, <2>2 DEF Alert, QueueTypes, queue, RecordTypes
  <1>3. CASE MarkFailed(l)
    <2>1. RecordTypes' /\ DOMAIN row' = DOMAIN row
      BY <1>1, <1>3, UpdateEventTypes DEF MarkFailed, RecordTypes, EventStatus
    <2>2. ProcessTypes'
      BY <1>3, <2>1 DEF MarkFailed, ProcessTypes
    <2> QED
      BY <1>3, <2>1, <2>2 DEF MarkFailed, QueueTypes, queue, HistoryTypes, merchant
  <1> QED
    BY <1>2, <1>3

LEMMA RequestStepTypeOK ==
    ASSUME TypeOK, NEW q \in Admins, RetryWebhook(q) \/ RetryJob(q) \/ RecordRetry(q)
    PROVE  TypeOK'
  <1> USE DEF TypeOK
  <1>1. request[q] # Idle =>
           /\ request[q].job \in Jobs /\ request[q].job \in DOMAIN row
           /\ [request[q] EXCEPT !.step = "update"] \in Request
    BY DEF ProcessTypes, RecordTypes, Request
  <1>2. CASE RetryWebhook(q)
    <2>1. ProcessTypes'
      BY <1>2 DEF RetryWebhook, ProcessTypes, RecordTypes, Request
    <2> QED
      BY <1>2, <2>1
         DEF RetryWebhook, QueueTypes, queue, RecordTypes, HistoryTypes, merchant
  <1>3. CASE RetryJob(q)
    <2>1. request[q] # Idle
      BY <1>3 DEF RetryJob, Idle
    <2>2. QueueTypes'
      BY <1>1, <1>3, <2>1, QueueAssumption
         DEF QueueAssumption, RetryJob, QueueTypes, JobStates
    <2>3. HistoryTypes'
      BY <1>1, <1>3, <2>1 DEF RetryJob, HistoryTypes, merchant
    <2>4. \/ request' = [request EXCEPT ![q] = [request[q] EXCEPT !.step = "update"]]
          \/ request' = [request EXCEPT ![q] = Idle]
      BY <1>3, Zenon DEF RetryJob
    <2>5. [request[q] EXCEPT !.step = "update"].job = request[q].job
      BY <1>1, <2>1 DEF ProcessTypes, Request
    <2>6. ProcessTypes'
      BY <1>1, <1>3, <2>1, <2>4, <2>5 DEF RetryJob, ProcessTypes
    <2> QED
      BY <1>3, <2>2, <2>3, <2>6 DEF RetryJob, RecordTypes
  <1>4. CASE RecordRetry(q)
    <2>1. request[q] # Idle
      BY <1>4 DEF RecordRetry, Idle
    <2>2. row[request[q].job].attempts \in Nat
      BY <1>1, <2>1 DEF RecordTypes
    <2>3. RecordTypes' /\ DOMAIN row' = DOMAIN row
      BY <1>4, <2>2, UpdateEventTypes DEF RecordRetry, RecordTypes, EventStatus
    <2>4. ProcessTypes'
      BY <1>4, <2>3 DEF RecordRetry, ProcessTypes
    <2> QED
      BY <1>4, <2>3, <2>4 DEF RecordRetry, QueueTypes, queue, HistoryTypes, merchant
  <1> QED
    BY <1>2, <1>3, <1>4

LEMMA StepTypeOK == TypeOK /\ [Next]_vars => TypeOK'
  <1> SUFFICES ASSUME TypeOK, [Next]_vars PROVE TypeOK'
    OBVIOUS
  <1>1. CASE Crash
    BY <1>1 DEF Crash, TypeOK, QueueTypes, queue, RecordTypes, ProcessTypes,
                HistoryTypes, merchant
  <1>2. CASE UNCHANGED vars
    BY <1>2 DEF vars, TypeOK, QueueTypes, queue, RecordTypes, ProcessTypes,
                HistoryTypes, merchant
  <1> QED
    BY <1>1, <1>2, WorkerStepTypeOK, JobStepTypeOK, ListenerStepTypeOK,
       RequestStepTypeOK DEF Next

\* Queue, table and processes keep their types, and a job is locked exactly while
\* it is active, under every fault.
THEOREM TypesCorrect == Spec => []TypeOK
  BY InitTypeOK, StepTypeOK, PTL DEF Spec

------------------------------------------------------------------------------
\* CompletedWasAccepted.  The processor only records success after a call that
\* returned true, and a job is only completed by such a processor.

AcceptedInv ==
    /\ TypeOK
    /\ CompletedWasAccepted
    /\ \A w \in Workers : work[w].step \in {"succeed", "return"} =>
                              acked[work[w].job] > 0

LEMMA InitAcceptedInv == Init => AcceptedInv
  BY InitTypeOK DEF AcceptedInv, CompletedWasAccepted, Init, Idle

\* Steps that complete no job, record no success and forget no accepted call.
LEMMA AcceptedStays ==
    ASSUME AcceptedInv, TypeOK',
           \A j \in Jobs : acked'[j] >= acked[j],
           \A j \in Jobs : job'[j] = "completed" => job[j] = "completed" \/ acked[j] > 0,
           \A j \in DOMAIN row' : row'[j].status = "completed" =>
              (j \in DOMAIN row /\ row[j].status = "completed") \/ acked[j] > 0,
           \A w \in Workers : work'[w].step \in {"succeed", "return"} =>
              \/ acked'[work'[w].job] > 0
              \/ /\ work[w].step \in {"succeed", "return"}
                 /\ work'[w].job = work[w].job
    PROVE  AcceptedInv'
  <1>1. acked \in [Jobs -> Nat] /\ acked' \in [Jobs -> Nat]
    BY DEF AcceptedInv, TypeOK, HistoryTypes
  <1>2. \A j \in Jobs : acked[j] > 0 => acked'[j] > 0
    BY <1>1
  <1>3. CompletedWasAccepted'
    BY <1>2 DEF AcceptedInv, CompletedWasAccepted
  <1>4. \A w \in Workers : work[w].step \in {"succeed", "return"} => work[w].job \in Jobs
    BY WorkTypes DEF AcceptedInv, TypeOK
  <1>5. \A w \in Workers : work'[w].step \in {"succeed", "return"} =>
           acked'[work'[w].job] > 0
    BY <1>2, <1>4 DEF AcceptedInv
  <1> QED
    BY <1>3, <1>5 DEF AcceptedInv

LEMMA WorkerStepAccepted ==
    ASSUME AcceptedInv, NEW w \in Workers, WorkerStep(w)
    PROVE  AcceptedInv'
  <1>0. TypeOK /\ TypeOK' /\ acked \in [Jobs -> Nat] /\ job \in [Jobs -> JobStates]
    BY WorkerStepTypeOK DEF AcceptedInv, TypeOK, HistoryTypes, QueueTypes
  <1>1. \A v \in Workers : work \in [Workers -> Task \cup {Idle}]
    BY <1>0 DEF TypeOK, ProcessTypes
  <1>2. CASE TakeJob(w)
    BY <1>0, <1>1, <1>2, AcceptedStays DEF TakeJob, Work, merchant
  <1>3. ASSUME work[w].step # "idle"
        PROVE  work[w] \in Task /\ work[w].job \in Jobs /\ work[w].n \in Nat
    BY <1>0, <1>3, WorkTypes DEF TypeOK
  <1>4. CASE BeginAttempt(w)
    <2>1. work[w] \in Task
      BY <1>3, <1>4 DEF BeginAttempt, At
    <2>2. DOMAIN row' = DOMAIN row /\ \A j \in DOMAIN row :
             row'[j] = row[j] \/ row'[j].status = "pending"
      BY <1>0, <1>3, <1>4, UpdateEventTypes DEF BeginAttempt, At, TypeOK, EventStatus
    <2>3. [work[w] EXCEPT !.step = "send"].step = "send"
      BY <2>1 DEF Task
    <2> QED
      BY <1>0, <1>1, <1>4, <2>2, <2>3, AcceptedStays
         DEF BeginAttempt, Work, merchant, queue
  <1>5. CASE Deliver(w)
    <2>1. work[w] \in Task /\ work[w].job \in Jobs
      BY <1>3, <1>5 DEF Deliver, At
    <2>2. [work[w] EXCEPT !.step = "succeed"].job = work[w].job
      BY <2>1 DEF Task
    <2>3. /\ \A j \in Jobs : acked'[j] >= acked[j]
          /\ acked'[work[w].job] > 0
      BY <1>0, <1>5, <2>1 DEF Deliver
    <2> QED
      BY <1>0, <1>1, <1>5, <2>2, <2>3, AcceptedStays DEF Deliver, Work, queue
  <1>6. CASE DeliveryFails(w)
    <2>1. work[w] \in Task
      BY <1>3, <1>6 DEF DeliveryFails, At
    <2>2. [work[w] EXCEPT !.step = "fail"].step = "fail"
      BY <2>1 DEF Task
    <2> QED
      BY <1>0, <1>1, <1>6, <2>2, AcceptedStays DEF DeliveryFails, Work, queue
  <1>7. CASE RecordSuccess(w)
    <2>1. work[w] \in Task /\ work[w].job \in Jobs /\ acked[work[w].job] > 0
      BY <1>3, <1>7 DEF RecordSuccess, At, AcceptedInv
    <2>2. [work[w] EXCEPT !.step = "return"].job = work[w].job
      BY <2>1 DEF Task
    <2>3. DOMAIN row' = DOMAIN row /\ \A j \in DOMAIN row :
             row'[j] = row[j] \/ j = work[w].job
      BY <1>7 DEF RecordSuccess, UpdateEvent, TypeOK, RecordTypes, AcceptedInv
    <2> QED
      BY <1>0, <1>1, <1>7, <2>1, <2>2, <2>3, AcceptedStays
         DEF RecordSuccess, Work, merchant, queue
  <1>8. CASE RecordFailure(w)
    <2>1. work[w] \in Task /\ work[w].n + 1 \in Nat
      BY <1>3, <1>8 DEF RecordFailure, At
    <2>2. /\ StatusAfterFailure(work[w].n) \in EventStatus
          /\ StatusAfterFailure(work[w].n) # "completed"
      BY DEF StatusAfterFailure, EventStatus
    <2>3. DOMAIN row' = DOMAIN row /\ \A j \in DOMAIN row :
             row'[j] = row[j] \/ row'[j].status # "completed"
      BY <1>0, <1>8, <2>1, <2>2, UpdateEventTypes DEF RecordFailure, TypeOK
    <2>4. [work[w] EXCEPT !.step = "throw"].step = "throw"
      BY <2>1 DEF Task
    <2> QED
      BY <1>0, <1>1, <1>8, <2>3, <2>4, AcceptedStays
         DEF RecordFailure, Work, merchant, queue
  <1>9. CASE JobCompletes(w)
    <2>1. acked[work[w].job] > 0 /\ work[w].job \in Jobs
      BY <1>3, <1>9 DEF JobCompletes, At, AcceptedInv
    <2>2. \A j \in Jobs : job'[j] = job[j] \/ j = work[w].job
      BY <1>0, <1>9 DEF JobCompletes
    <2> QED
      BY <1>0, <1>1, <1>9, <2>1, <2>2, AcceptedStays
         DEF JobCompletes, Work, merchant, Idle
  <1>10. CASE JobFails(w)
    <2>1. \A j \in Jobs : job'[j] = job[j] \/ job'[j] # "completed"
      BY <1>0, <1>10 DEF JobFails
    <2> QED
      BY <1>0, <1>1, <1>10, <2>1, AcceptedStays DEF JobFails, Work, merchant, Idle
  <1> QED
    BY <1>2, <1>4, <1>5, <1>6, <1>7, <1>8, <1>9, <1>10 DEF WorkerStep

\* The other steps put no job among the completed ones and leave the processors
\* alone or stop them.
LEMMA OtherStepAccepted ==
    ASSUME AcceptedInv, [Next]_vars, ~ \E w \in Workers : WorkerStep(w)
    PROVE  AcceptedInv'
  <1>0. TypeOK /\ TypeOK' /\ acked \in [Jobs -> Nat] /\ job \in [Jobs -> JobStates]
    BY StepTypeOK DEF AcceptedInv, TypeOK, HistoryTypes, QueueTypes
  <1>1. UNCHANGED acked /\ (UNCHANGED work \/ \A w \in Workers : work'[w] = Idle)
    BY DEF Next, vars, merchant, AddToQueue, SaveEvent, BackoffOver, Stall,
           StallTooOften, Alert, MarkFailed, RetryWebhook, RetryJob, RecordRetry,
           Crash
  <1>2. \A j \in Jobs : job'[j] = job[j] \/ job'[j] # "completed"
    BY <1>0 DEF Next, vars, queue, AddToQueue, SaveEvent, BackoffOver, Stall,
           StallTooOften, Alert, MarkFailed, RetryWebhook, RetryJob, RecordRetry,
           Crash
  <1>3. ASSUME NEW j \in DOMAIN row', row'[j].status = "completed"
        PROVE  j \in DOMAIN row /\ row[j].status = "completed"
    <2>1. CASE UNCHANGED row
      BY <1>3, <2>1
    <2>2. CASE \E k \in Jobs : SaveEvent(k)
      BY <1>3, <2>2 DEF SaveEvent
    <2>3. ASSUME NEW l \in listeners, MarkFailed(l)
          PROVE  j \in DOMAIN row /\ row[j].status = "completed"
      BY <1>3, <2>3 DEF MarkFailed, UpdateEvent
    <2>4. ASSUME NEW q \in Admins, RecordRetry(q)
          PROVE  j \in DOMAIN row /\ row[j].status = "completed"
      BY <1>3, <2>4 DEF RecordRetry, UpdateEvent
    <2> QED
      BY <2>1, <2>2, <2>3, <2>4
         DEF Next, vars, AddToQueue, BackoffOver, Stall, StallTooOften, Alert,
             RetryWebhook, RetryJob, Crash
  <1> QED
    BY <1>0, <1>1, <1>2, <1>3, AcceptedStays DEF Idle

LEMMA StepAccepted == AcceptedInv /\ [Next]_vars => AcceptedInv'
  BY WorkerStepAccepted, OtherStepAccepted

\* Whatever is retried, stalls, crashes or is lost by the database, and with any
\* number of workers, what is shown as completed was accepted by the merchant.
THEOREM CompletedIsAccepted == Spec => []CompletedWasAccepted
  <1>1. AcceptedInv => CompletedWasAccepted
    BY DEF AcceptedInv
  <1> QED
    BY <1>1, InitAcceptedInv, StepAccepted, PTL DEF Spec

------------------------------------------------------------------------------
\* AttemptBudget.  A worker calls the merchant once for each time it is given the
\* job, so the calls made and those about to be made are counted by the attempts
\* Bull counted, the manual retries and the stalls.

Unsent(j) == {w \in Workers : work[w].step \in {"begin", "send"} /\ work[w].job = j}
CallsOf(j) == sent[j] + Cardinality(Unsent(j))

\* c calls of a job in state st that was attempted a times and retried or taken
\* away x times.
Within(st, c, a, x) ==
    /\ c <= MaxAttempts + x
    /\ st = "absent" => c = 0
    /\ st \in {"waiting", "delayed"} => c <= a + x /\ c + 1 <= MaxAttempts + x
    /\ st \in {"active", "failed"} => c <= a + 1 + x

BudgetInv ==
    /\ TypeOK
    /\ \A j \in Jobs : Within(job[j], CallsOf(j), attempts[j], retries[j] + stalls[j])

LEMMA Counts ==
    ASSUME TypeOK, NEW j \in Jobs
    PROVE  /\ IsFiniteSet(Unsent(j)) /\ Cardinality(Unsent(j)) \in Nat
           /\ sent[j] \in Nat /\ attempts[j] \in Nat
           /\ retries[j] \in Nat /\ stalls[j] \in Nat
           /\ CallsOf(j) \in Nat /\ sent[j] <= CallsOf(j)
           /\ job[j] \in JobStates
           /\ MaxAttempts \in Nat \ {0}
  <1>1. IsFiniteSet(Unsent(j)) /\ Cardinality(Unsent(j)) \in Nat
    BY QueueAssumption, FS_Subset, FS_CardinalityType DEF QueueAssumption, Unsent
  <1>2. /\ sent[j] \in Nat /\ attempts[j] \in Nat
        /\ retries[j] \in Nat /\ stalls[j] \in Nat /\ job[j] \in JobStates
    BY DEF TypeOK, QueueTypes, HistoryTypes
  <1> QED
    BY <1>1, <1>2, QueueAssumption DEF QueueAssumption, CallsOf

LEMMA InitBudgetInv == Init => BudgetInv
  <1> SUFFICES ASSUME Init PROVE BudgetInv
    OBVIOUS
  <1>1. \A j \in Jobs : Unsent(j) = {} /\ sent[j] = 0 /\ retries[j] + stalls[j] = 0
    BY DEF Init, Unsent, Idle
  <1>2. \A j \in Jobs : CallsOf(j) = 0 /\ job[j] = "absent"
    BY <1>1, FS_EmptySet DEF CallsOf, Init
  <1> QED
    BY <1>1, <1>2, InitTypeOK, QueueAssumption DEF QueueAssumption, BudgetInv, Within

\* Steps that neither move a job, nor count for it, nor add a call.
LEMMA BudgetStays ==
    ASSUME BudgetInv, TypeOK', NEW j \in Jobs,
           job'[j] = job[j], attempts'[j] = attempts[j],
           retries'[j] = retries[j], stalls'[j] = stalls[j],
           CallsOf(j)' <= CallsOf(j)
    PROVE  Within(job[j], CallsOf(j), attempts[j], retries[j] + stalls[j])'
  <1>1. CallsOf(j) \in Nat
    BY Counts DEF BudgetInv
  <1>2. CallsOf(j)' \in Nat
    <2>1. Unsent(j)' \in SUBSET Workers
      BY DEF Unsent
    <2>2. Cardinality(Unsent(j)') \in Nat
      BY <2>1, QueueAssumption, FS_Subset, FS_CardinalityType DEF QueueAssumption
    <2>3. sent'[j] \in Nat
      BY DEF TypeOK, HistoryTypes
    <2> QED
      BY <2>2, <2>3 DEF CallsOf
  <1>3. /\ attempts[j] \in Nat /\ retries[j] \in Nat /\ stalls[j] \in Nat
        /\ MaxAttempts \in Nat
    BY Counts DEF BudgetInv
  <1>4. Within(job[j], CallsOf(j), attempts[j], retries[j] + stalls[j])
    BY DEF BudgetInv
  <1> QED
    BY <1>1, <1>2, <1>3, <1>4 DEF Within

LEMMA SameCalls ==
    ASSUME NEW j \in Jobs, sent'[j] = sent[j], Unsent(j)' = Unsent(j)
    PROVE  CallsOf(j)' = CallsOf(j)
  BY DEF CallsOf

\* A processor that goes on without calling leaves the counts alone.
LEMMA QuietWorker ==
    ASSUME TypeOK, NEW w \in Workers, NEW t, Work(w, t),
           UNCHANGED sent, work[w].step \notin {"begin", "send"},
           t.step \notin {"begin", "send"}
    PROVE  \A j \in Jobs : CallsOf(j)' = CallsOf(j)
  <1>1. work' = [work EXCEPT ![w] = t] /\ DOMAIN work = Workers
    BY DEF Work, TypeOK, ProcessTypes
  <1>2. \A j \in Jobs : Unsent(j)' = Unsent(j)
    BY <1>1 DEF Unsent
  <1> QED
    BY <1>2 DEF CallsOf

LEMMA TakeJobBudget ==
    ASSUME BudgetInv, NEW w \in Workers, TakeJob(w)
    PROVE  BudgetInv'
  <1>0. TypeOK /\ TypeOK' /\ DOMAIN work = Workers /\ DOMAIN job = Jobs
    BY WorkerStepTypeOK DEF WorkerStep, BudgetInv, TypeOK, ProcessTypes, QueueTypes
  <1>1. PICK j \in Jobs :
          /\ job[j] = "waiting"
          /\ job' = [job EXCEPT ![j] = "active"]
          /\ Work(w, [step |-> "begin", job |-> j, n |-> attempts[j]])
    BY DEF TakeJob
  <1>2. /\ w \notin Unsent(j) /\ Unsent(j)' = Unsent(j) \cup {w}
        /\ \A k \in Jobs \ {j} : Unsent(k)' = Unsent(k)
    BY <1>0, <1>1 DEF TakeJob, At, Work, Unsent
  <1>3. CallsOf(j)' = CallsOf(j) + 1
    <2>1. Cardinality(Unsent(j)') = Cardinality(Unsent(j)) + 1
      BY <1>0, <1>2, Counts, FS_AddElement
    <2>2. sent'[j] = sent[j] /\ sent[j] \in Nat /\ Cardinality(Unsent(j)) \in Nat
      BY <1>0, Counts DEF TakeJob, merchant
    <2> QED
      BY <2>1, <2>2 DEF CallsOf
  <1>4. Within(job[j], CallsOf(j), attempts[j], retries[j] + stalls[j])'
    <2>1. /\ job'[j] = "active" /\ attempts'[j] = attempts[j]
          /\ retries'[j] = retries[j] /\ stalls'[j] = stalls[j]
      BY <1>0, <1>1 DEF TakeJob
    <2>2. Within("waiting", CallsOf(j), attempts[j], retries[j] + stalls[j])
      BY <1>1 DEF BudgetInv
    <2>3. /\ CallsOf(j) \in Nat /\ attempts[j] \in Nat /\ retries[j] \in Nat
          /\ stalls[j] \in Nat /\ MaxAttempts \in Nat
      BY <1>0, Counts
    <2> QED
      BY <1>3, <2>1, <2>2, <2>3 DEF Within
  <1>5. ASSUME NEW k \in Jobs \ {j}
        PROVE  Within(job[k], CallsOf(k), attempts[k], retries[k] + stalls[k])'
    <2>1. CallsOf(k)' = CallsOf(k) /\ CallsOf(k) \in Nat
      BY <1>0, <1>2, Counts, SameCalls DEF TakeJob, merchant
    <2>2. CallsOf(k)' <= CallsOf(k)
      BY <2>1
    <2> QED
      BY <1>0, <1>1, <2>2, BudgetStays DEF TakeJob
  <1> QED
    BY <1>0, <1>4, <1>5 DEF BudgetInv

LEMMA CallBudget ==
    ASSUME BudgetInv, NEW w \in Workers, Deliver(w) \/ DeliveryFails(w)
    PROVE  BudgetInv'
  <1>0. TypeOK /\ TypeOK' /\ DOMAIN work = Workers /\ DOMAIN sent = Jobs
    BY WorkerStepTypeOK
       DEF WorkerStep, BudgetInv, TypeOK, ProcessTypes, HistoryTypes
  <1>1. PICK j \in Jobs :
          j = work[w].job /\ work[w].step = "send" /\ work[w] \in Task
    BY <1>0, WorkTypes DEF Deliver, DeliveryFails, At, TypeOK
  <1>2. /\ sent' = [sent EXCEPT ![j] = @ + 1]
        /\ work'[w].step \notin {"begin", "send"}
        /\ \A v \in Workers \ {w} : work'[v] = work[v]
    BY <1>0, <1>1 DEF Deliver, DeliveryFails, Work, Task
  <1>3. /\ w \in Unsent(j) /\ Unsent(j)' = Unsent(j) \ {w}
        /\ \A k \in Jobs \ {j} : Unsent(k)' = Unsent(k)
    BY <1>0, <1>1, <1>2 DEF Unsent
  <1>4. CallsOf(j)' = CallsOf(j)
    <2>1. Cardinality(Unsent(j)') = Cardinality(Unsent(j)) - 1
      BY <1>0, <1>1, <1>3, Counts, FS_RemoveElement
    <2>2. sent'[j] = sent[j] + 1 /\ sent[j] \in Nat /\ Cardinality(Unsent(j)) \in Nat
      BY <1>0, <1>1, <1>2, Counts
    <2>3. CallsOf(j)' = sent'[j] + Cardinality(Unsent(j)')
      BY DEF CallsOf
    <2> QED
      BY <2>1, <2>2, <2>3 DEF CallsOf
  <1>5. \A k \in Jobs \ {j} : CallsOf(k)' = CallsOf(k)
    BY <1>0, <1>2, <1>3, SameCalls
  <1>6. ASSUME NEW k \in Jobs
        PROVE  Within(job[k], CallsOf(k), attempts[k], retries[k] + stalls[k])'
    <2>1. CallsOf(k)' <= CallsOf(k)
      <3>1. CallsOf(k)' = CallsOf(k) /\ CallsOf(k) \in Nat
        BY <1>0, <1>4, <1>5, Counts
      <3> QED
        BY <3>1
    <2> QED
      BY <1>0, <2>1, BudgetStays DEF Deliver, DeliveryFails, queue
  <1> QED
    BY <1>0, <1>6 DEF BudgetInv

\* A step that only changes the queue's view of job j, and the retries, keeps the
\* budget of every job if it keeps that of j.
LEMMA BudgetOfOneJob ==
    ASSUME BudgetInv, TypeOK', NEW j \in Jobs,
           \A k \in Jobs : CallsOf(k)' = CallsOf(k),
           \A k \in Jobs \ {j} :
              /\ job'[k] = job[k] /\ attempts'[k] = attempts[k]
              /\ retries'[k] = retries[k] /\ stalls'[k] = stalls[k],
           Within(job[j], CallsOf(j), attempts[j], retries[j] + stalls[j])
              => Within(job'[j], CallsOf(j), attempts'[j], retries'[j] + stalls'[j])
    PROVE  BudgetInv'
  <1>1. ASSUME NEW k \in Jobs \ {j}
        PROVE  Within(job[k], CallsOf(k), attempts[k], retries[k] + stalls[k])'
    <2>1. CallsOf(k)' = CallsOf(k) /\ CallsOf(k) \in Nat
      BY Counts DEF BudgetInv
    <2>2. CallsOf(k)' <= CallsOf(k)
      BY <2>1
    <2> QED
      BY <2>2, BudgetStays
  <1>2. Within(job[j], CallsOf(j), attempts[j], retries[j] + stalls[j])'
    BY DEF BudgetInv
  <1> QED
    BY <1>1, <1>2 DEF BudgetInv

LEMMA JobEndsBudget ==
    ASSUME BudgetInv, NEW w \in Workers, JobCompletes(w) \/ JobFails(w)
    PROVE  BudgetInv'
  <1>0. /\ TypeOK /\ TypeOK' /\ job \in [Jobs -> JobStates]
        /\ attempts \in [Jobs -> Nat]
        /\ \A k \in Jobs : job[k] = "active" <=> lock[k] # None
    BY WorkerStepTypeOK DEF WorkerStep, BudgetInv, TypeOK, QueueTypes
  <1>1. PICK j \in Jobs : j = work[w].job
    BY <1>0, WorkTypes DEF JobCompletes, JobFails, At, TypeOK
  <1>2. Work(w, Idle) /\ UNCHANGED <<sent, retries, stalls>>
    BY DEF JobCompletes, JobFails, merchant
  <1>3. work[w].step \notin {"begin", "send"}
    BY DEF JobCompletes, JobFails, At
  <1>4. \A k \in Jobs : CallsOf(k)' = CallsOf(k)
    BY <1>0, <1>2, <1>3, QuietWorker DEF Idle
  <1>5. \A k \in Jobs \ {j} : job'[k] = job[k] /\ attempts'[k] = attempts[k]
    BY <1>0, <1>1 DEF JobCompletes, JobFails
  <1>6. \/ job'[j] = job[j] /\ attempts'[j] = attempts[j]
        \/ job'[j] = "completed" /\ attempts'[j] = attempts[j]
        \/ /\ job[j] = "active" /\ attempts'[j] = attempts[j] + 1
           /\ job'[j] = IF attempts[j] + 1 < MaxAttempts THEN "delayed" ELSE "failed"
    BY <1>0, <1>1, QueueAssumption
       DEF QueueAssumption, JobCompletes, JobFails, Holds
  <1>7. Within(job[j], CallsOf(j), attempts[j], retries[j] + stalls[j])
          => Within(job'[j], CallsOf(j), attempts'[j], retries'[j] + stalls'[j])
    BY <1>0, <1>2, <1>6, Counts DEF Within
  <1> QED
    BY <1>0, <1>2, <1>4, <1>5, <1>7, BudgetOfOneJob

LEMMA WorkerStepBudget ==
    ASSUME BudgetInv, NEW w \in Workers, WorkerStep(w)
    PROVE  BudgetInv'
  <1>0. TypeOK /\ TypeOK' /\ DOMAIN work = Workers
    BY WorkerStepTypeOK DEF BudgetInv, TypeOK, ProcessTypes
  <1>1. CASE BeginAttempt(w) \/ RecordSuccess(w) \/ RecordFailure(w)
    <2>1. work[w] \in Task
      BY <1>0, <1>1, WorkTypes DEF BeginAttempt, RecordSuccess, RecordFailure, At, TypeOK
    <2>2. \A k \in Jobs : Unsent(k)' = Unsent(k)
      BY <1>0, <1>1, <2>1
         DEF BeginAttempt, RecordSuccess, RecordFailure, At, Work, Unsent, Task
    <2>3. ASSUME NEW k \in Jobs
          PROVE  Within(job[k], CallsOf(k), attempts[k], retries[k] + stalls[k])'
      <3>1. CallsOf(k)' = CallsOf(k) /\ CallsOf(k) \in Nat
        BY <1>0, <1>1, <2>2, SameCalls, Counts
           DEF BeginAttempt, RecordSuccess, RecordFailure, merchant
      <3>2. CallsOf(k)' <= CallsOf(k)
        BY <3>1
      <3> QED
        BY <1>0, <1>1, <3>2, BudgetStays
           DEF BeginAttempt, RecordSuccess, RecordFailure, queue
    <2> QED
      BY <1>0, <2>3 DEF BudgetInv
  <1> QED
    BY <1>1, TakeJobBudget, CallBudget, JobEndsBudget DEF WorkerStep

LEMMA JobStepBudget ==
    ASSUME BudgetInv, NEW j \in Jobs,
           \/ AddToQueue(j) \/ BackoffOver(j) \/ Stall(j) \/ StallTooOften(j)
           \/ \E q \in Admins : RetryJob(q) /\ request[q].job = j
    PROVE  BudgetInv'
  <1>0. /\ TypeOK /\ TypeOK' /\ job \in [Jobs -> JobStates]
        /\ attempts \in [Jobs -> Nat] /\ stalls \in [Jobs -> Nat]
        /\ retries \in [Jobs -> Nat]
    BY JobStepTypeOK, RequestStepTypeOK
       DEF BudgetInv, TypeOK, QueueTypes, HistoryTypes
  <1>1. /\ UNCHANGED <<work, sent, attempts>>
        /\ \A k \in Jobs \ {j} :
              /\ job'[k] = job[k] /\ retries'[k] = retries[k] /\ stalls'[k] = stalls[k]
    BY <1>0 DEF AddToQueue, BackoffOver, Stall, StallTooOften, RetryJob, merchant
  <1>2. \A k \in Jobs : CallsOf(k)' = CallsOf(k)
    BY <1>1 DEF CallsOf, Unsent
  <1>3. \/ /\ job[j] \in {"absent", "delayed"} /\ job'[j] = "waiting"
           /\ retries'[j] = retries[j] /\ stalls'[j] = stalls[j]
        \/ /\ job[j] = "active" /\ job'[j] = "failed"
           /\ retries'[j] = retries[j] /\ stalls'[j] = stalls[j]
        \/ /\ job[j] = "active" /\ job'[j] = "waiting"
           /\ retries'[j] = retries[j] /\ stalls'[j] = stalls[j] + 1
        \/ /\ job[j] = "failed" /\ job'[j] = "waiting"
           /\ retries'[j] = retries[j] + 1 /\ stalls'[j] = stalls[j]
        \/ job'[j] = job[j] /\ retries'[j] = retries[j] /\ stalls'[j] = stalls[j]
    BY <1>0 DEF AddToQueue, BackoffOver, Stall, StallTooOften, RetryJob
  <1>4. Within(job[j], CallsOf(j), attempts[j], retries[j] + stalls[j])
          => Within(job'[j], CallsOf(j), attempts'[j], retries'[j] + stalls'[j])
    BY <1>0, <1>1, <1>3, Counts DEF Within
  <1> QED
    BY <1>0, <1>1, <1>2, <1>4, BudgetOfOneJob

\* The remaining steps do not count: they leave queue and calls alone and at most
\* stop the processors.
LEMMA StepBudget == BudgetInv /\ [Next]_vars => BudgetInv'
  <1> SUFFICES ASSUME BudgetInv, [Next]_vars PROVE BudgetInv'
    OBVIOUS
  <1>0. TypeOK /\ TypeOK'
    BY StepTypeOK DEF BudgetInv
  <1>1. ASSUME UNCHANGED <<queue, retries, sent>>,
               \A k \in Jobs : Unsent(k)' \subseteq Unsent(k)
        PROVE  BudgetInv'
    <2>1. ASSUME NEW k \in Jobs
          PROVE  Within(job[k], CallsOf(k), attempts[k], retries[k] + stalls[k])'
      <3>1. Unsent(k)' \in SUBSET Unsent(k) /\ IsFiniteSet(Unsent(k))
        BY <1>0, <1>1, Counts
      <3>2. /\ Cardinality(Unsent(k)') <= Cardinality(Unsent(k))
            /\ Cardinality(Unsent(k)') \in Nat
        BY <3>1, FS_Subset, FS_CardinalityType
      <3>3. /\ sent'[k] = sent[k] /\ sent[k] \in Nat
            /\ Cardinality(Unsent(k)) \in Nat
        BY <1>0, <1>1, Counts
      <3>4. CallsOf(k)' <= CallsOf(k)
        BY <3>2, <3>3 DEF CallsOf
      <3> QED
        BY <1>0, <1>1, <3>4, BudgetStays DEF queue
    <2> QED
      BY <1>0, <2>1 DEF BudgetInv
  <1>2. CASE Crash \/ UNCHANGED vars
    BY <1>1, <1>2 DEF Crash, vars, merchant, Unsent, Idle
  <1>3. CASE \/ \E j \in Jobs : SaveEvent(j)
             \/ \E l \in listeners : Alert(l) \/ MarkFailed(l)
             \/ \E q \in Admins : RetryWebhook(q) \/ RecordRetry(q)
    BY <1>1, <1>3
       DEF SaveEvent, Alert, MarkFailed, RetryWebhook, RecordRetry, merchant, Unsent
  <1>4. CASE \E q \in Admins : RetryJob(q)
    <2>1. PICK q \in Admins : RetryJob(q)
      BY <1>4
    <2>2. request[q] # Idle
      BY <2>1 DEF RetryJob, Idle
    <2>3. request[q].job \in Jobs
      BY <1>0, <2>2 DEF TypeOK, ProcessTypes, Request
    <2> QED
      BY <2>1, <2>3, JobStepBudget
  <1> QED
    BY <1>2, <1>3, <1>4, WorkerStepBudget, JobStepBudget DEF Next

\* The merchant is called at most MaxAttempts times for a delivery, plus once for
\* every manual retry and every time a worker lost the job, under every fault.
THEOREM AttemptsBounded == Spec => []AttemptBudget
  <1>1. ASSUME BudgetInv PROVE AttemptBudget
    <2> SUFFICES ASSUME NEW j \in Jobs
                 PROVE  sent[j] <= MaxAttempts + retries[j] + stalls[j]
      BY DEF AttemptBudget
    <2>1. CallsOf(j) <= MaxAttempts + (retries[j] + stalls[j])
      BY <1>1 DEF BudgetInv, Within
    <2> QED
      BY <1>1, <2>1, Counts DEF BudgetInv
  <1> QED
    BY <1>1, InitBudgetInv, StepBudget, PTL DEF Spec

------------------------------------------------------------------------------
\* OutcomeIsTrue and RecordMovesForward, without manual retries, stalls and
\* restarts; the database may lose updates.  A job is worked on by the worker that
\* has its lock only, so each count and each status is known from the worker's step.

Undisturbed == Admins = {} /\ Faults \subseteq {"db"}

HeldOnce ==
    \A w \in Workers : ~ At(w, "idle") =>
        /\ job[work[w].job] = "active" /\ lock[work[w].job] = w
        /\ work[w].n = attempts[work[w].job]

CallsMade ==
    /\ \A j \in Jobs :
          /\ job[j] \in {"absent", "waiting", "delayed"} =>
                sent[j] = attempts[j] /\ acked[j] = 0 /\ attempts[j] < MaxAttempts
          /\ job[j] = "failed" =>
                sent[j] = MaxAttempts /\ acked[j] = 0 /\ attempts[j] = MaxAttempts
    /\ \A w \in Workers :
          /\ work[w].step \in {"begin", "send"} =>
                sent[work[w].job] = work[w].n /\ acked[work[w].job] = 0
          /\ work[w].step \in {"fail", "throw"} =>
                sent[work[w].job] = work[w].n + 1 /\ acked[work[w].job] = 0
          /\ ~ At(w, "idle") => work[w].n < MaxAttempts

Recorded(j) ==
    \/ job[j] = "completed"
    \/ \E w \in Workers : WorksOn(w, j, "throw") \/ WorksOn(w, j, "return")

RecordFollowsWork ==
    \A j \in DOMAIN row :
        /\ row[j].status = "completed" =>
              job[j] = "completed" \/ \E w \in Workers : WorksOn(w, j, "return")
        /\ row[j].status = "failed" =>
              \/ job[j] = "failed"
              \/ \E w \in Workers : WorksOn(w, j, "throw") /\ IsLastAttempt(work[w].n)
        /\ row[j].attempts <= attempts[j] + (IF Recorded(j) THEN 1 ELSE 0)

AddedOnce ==
    /\ \A j \in adding : j \notin DOMAIN row /\ job[j] # "absent"
    /\ \A j \in DOMAIN row : job[j] # "absent"

AlarmsFollowWork ==
    /\ \A l \in listeners :
          /\ job[l.job] = "failed" /\ l.n = MaxAttempts
          /\ l.step = "notify" => alerts[l.job] = 0
          /\ \A m \in listeners : m.job = l.job => m = l
    /\ \A j \in Jobs : alerts[j] <= 1 /\ (alerts[j] = 1 => job[j] = "failed")

OutcomeInv ==
    /\ TypeOK
    /\ HeldOnce
    /\ CallsMade
    /\ RecordFollowsWork
    /\ AddedOnce
    /\ AlarmsFollowWork

LEMMA OutcomeFacts ==
    ASSUME OutcomeInv
    PROVE  /\ work \in [Workers -> Task \cup {Idle}]
           /\ job \in [Jobs -> JobStates] /\ attempts \in [Jobs -> Nat]
           /\ lock \in [Jobs -> Workers \cup {None}]
           /\ sent \in [Jobs -> Nat] /\ acked \in [Jobs -> Nat]
           /\ alerts \in [Jobs -> Nat] /\ listeners \subseteq Listener
           /\ DOMAIN row \subseteq Jobs
           /\ \A j \in DOMAIN row : row[j].attempts \in Nat
           /\ MaxAttempts \in Nat /\ MaxAttempts >= 1
           /\ \A w \in Workers : ~ At(w, "idle") =>
                 /\ work[w] \in Task /\ work[w].job \in Jobs /\ work[w].n \in Nat
                 /\ \A v \in Workers : ~ At(v, "idle") /\ work[v].job = work[w].job => v = w
  <1>1. /\ work \in [Workers -> Task \cup {Idle}]
        /\ job \in [Jobs -> JobStates] /\ attempts \in [Jobs -> Nat]
        /\ lock \in [Jobs -> Workers \cup {None}]
        /\ sent \in [Jobs -> Nat] /\ acked \in [Jobs -> Nat]
        /\ alerts \in [Jobs -> Nat] /\ listeners \subseteq Listener
        /\ DOMAIN row \subseteq Jobs
        /\ \A j \in DOMAIN row : row[j].attempts \in Nat
        /\ MaxAttempts \in Nat /\ MaxAttempts >= 1
    BY QueueAssumption
       DEF QueueAssumption, OutcomeInv, TypeOK, QueueTypes, RecordTypes, ProcessTypes,
           HistoryTypes
  <1>2. \A w \in Workers : ~ At(w, "idle") =>
          work[w] \in Task /\ work[w].job \in Jobs /\ work[w].n \in Nat
    BY <1>1 DEF At, Task, Idle
  <1>3. \A w, v \in Workers :
          ~ At(v, "idle") /\ ~ At(w, "idle") /\ work[v].job = work[w].job => v = w
    BY DEF OutcomeInv, HeldOnce
  <1> QED
    BY <1>1, <1>2, <1>3

LEMMA InitOutcomeInv == Init => OutcomeInv
  BY InitTypeOK, QueueAssumption
     DEF QueueAssumption, Init, OutcomeInv, HeldOnce, CallsMade, RecordFollowsWork,
         AddedOnce, AlarmsFollowWork, At, Idle

LEMMA OutcomeInvProperty == OutcomeInv => OutcomeIsTrue
  <1> SUFFICES ASSUME OutcomeInv PROVE OutcomeIsTrue
    OBVIOUS
  <1>0. DOMAIN row \subseteq Jobs
    BY OutcomeFacts
  <1>1. FinalStatusIsRight
    BY <1>0 DEF OutcomeInv, CallsMade, RecordFollowsWork, FinalStatusIsRight, WorksOn, At
  <1>2. AlarmIsTrue
    BY DEF OutcomeInv, CallsMade, AlarmsFollowWork, AlarmIsTrue
  <1> QED
    BY <1>1, <1>2 DEF OutcomeIsTrue

\* Bull hands out a job.
LEMMA TakeJobOutcome ==
    ASSUME OutcomeInv, NEW w \in Workers, TakeJob(w)
    PROVE  OutcomeInv'
  <1>0. /\ TypeOK /\ TypeOK'
        /\ work \in [Workers -> Task \cup {Idle}]
        /\ job \in [Jobs -> JobStates] /\ attempts \in [Jobs -> Nat]
        /\ lock \in [Jobs -> Workers \cup {None}]
        /\ DOMAIN row \subseteq Jobs /\ listeners \subseteq Listener
    BY OutcomeFacts, WorkerStepTypeOK DEF WorkerStep, OutcomeInv
  <1>1. PICK j \in Jobs :
          /\ job[j] = "waiting" /\ At(w, "idle")
          /\ job' = [job EXCEPT ![j] = "active"]
          /\ lock' = [lock EXCEPT ![j] = w]
          /\ work' = [work EXCEPT ![w] = [step |-> "begin", job |-> j, n |-> attempts[j]]]
    BY DEF TakeJob, Work
  <1>2. UNCHANGED <<attempts, row, adding, listeners, sent, acked, alerts>>
    BY DEF TakeJob, merchant
  <1>3. /\ work'[w].step = "begin" /\ work'[w].job = j /\ work'[w].n = attempts[j]
        /\ \A v \in Workers \ {w} : work'[v] = work[v]
        /\ \A k \in Jobs \ {j} : job'[k] = job[k] /\ lock'[k] = lock[k]
        /\ job'[j] = "active" /\ lock'[j] = w
    BY <1>0, <1>1
  <1>4. \A v \in Workers \ {w} : ~ At(v, "idle") => work[v].job # j /\ work[v].job \in Jobs
    BY <1>1, OutcomeFacts DEF OutcomeInv, HeldOnce
  <1>5. HeldOnce'
    BY <1>2, <1>3, <1>4 DEF OutcomeInv, HeldOnce, At
  <1>6. CallsMade'
    BY <1>1, <1>2, <1>3, <1>4 DEF OutcomeInv, CallsMade, At
  <1>7. RecordFollowsWork'
    <2>1. \A v \in Workers : \A k :
            /\ WorksOn(v, k, "return")' <=> WorksOn(v, k, "return")
            /\ WorksOn(v, k, "throw")' <=> WorksOn(v, k, "throw")
            /\ WorksOn(v, k, "throw") => work'[v] = work[v]
      BY <1>1, <1>3 DEF WorksOn, At
    <2>2. \A k \in Jobs : Recorded(k)' <=> Recorded(k)
      BY <1>1, <1>3, <2>1 DEF Recorded
    <2> QED
      BY <1>0, <1>1, <1>2, <1>3, <2>1, <2>2 DEF OutcomeInv, RecordFollowsWork
  <1>8. AddedOnce'
    BY <1>0, <1>1, <1>2, <1>3 DEF OutcomeInv, AddedOnce, TypeOK, RecordTypes
  <1>9. AlarmsFollowWork'
    BY <1>0, <1>1, <1>2, <1>3 DEF OutcomeInv, AlarmsFollowWork, Listener
  <1> QED
    BY <1>0, <1>5, <1>6, <1>7, <1>8, <1>9 DEF OutcomeInv

\* A worker goes on with its job: the queue, the producers and the listeners are
\* left alone.
WorkOn(w, step) ==
    /\ Work(w, [work[w] EXCEPT !.step = step])
    /\ UNCHANGED <<queue, adding, listeners, alerts>>

LEMMA WorkOnFacts ==
    ASSUME OutcomeInv, NEW w \in Workers, ~ At(w, "idle"), NEW step \in WorkSteps,
           WorkOn(w, step)
    PROVE  /\ work'[w].step = step /\ work'[w].job = work[w].job /\ work'[w].n = work[w].n
           /\ \A v \in Workers \ {w} : work'[v] = work[v]
           /\ \A v \in Workers \ {w} : ~ At(v, "idle") => work[v].job # work[w].job
           /\ HeldOnce'
  <1>1. work \in [Workers -> Task \cup {Idle}] /\ work[w] \in Task
    BY OutcomeFacts
  <1>2. /\ work'[w].step = step /\ work'[w].job = work[w].job /\ work'[w].n = work[w].n
        /\ \A v \in Workers \ {w} : work'[v] = work[v]
    BY <1>1 DEF WorkOn, Work, Task
  <1>3. \A v \in Workers \ {w} : ~ At(v, "idle") => work[v].job # work[w].job
    BY OutcomeFacts
  <1>4. HeldOnce'
    BY <1>2 DEF WorkOn, queue, OutcomeInv, HeldOnce, At
  <1> QED
    BY <1>2, <1>3, <1>4

\* The merchant is called.
LEMMA CallOutcome ==
    ASSUME OutcomeInv, NEW w \in Workers, Deliver(w) \/ DeliveryFails(w)
    PROVE  OutcomeInv'
  <1>0. /\ TypeOK' /\ ~ At(w, "idle") /\ work[w].step = "send"
        /\ sent \in [Jobs -> Nat] /\ acked \in [Jobs -> Nat] /\ DOMAIN row \subseteq Jobs
        /\ work[w].job \in Jobs
    BY OutcomeFacts, WorkerStepTypeOK DEF WorkerStep, OutcomeInv, Deliver, DeliveryFails, At
  <1>1. /\ \/ WorkOn(w, "succeed")
           \/ WorkOn(w, "fail") /\ acked' = acked
        /\ UNCHANGED <<queue, adding, listeners, alerts, row>>
        /\ sent' = [sent EXCEPT ![work[w].job] = @ + 1]
        /\ \A j \in Jobs : j # work[w].job => acked'[j] = acked[j]
    BY <1>0 DEF Deliver, DeliveryFails, WorkOn
  <1>2. PICK step \in {"succeed", "fail"} :
          WorkOn(w, step) /\ (step = "fail" => acked' = acked)
    BY <1>1
  <1>3. /\ work'[w].step = step /\ work'[w].job = work[w].job /\ work'[w].n = work[w].n
        /\ \A v \in Workers \ {w} : work'[v] = work[v]
        /\ \A v \in Workers \ {w} : ~ At(v, "idle") => work[v].job # work[w].job
        /\ HeldOnce'
    BY <1>0, <1>2, WorkOnFacts DEF WorkSteps
  <1>4. CallsMade'
    <2>1. CallsMade /\ HeldOnce
      BY DEF OutcomeInv
    <2>2. sent'[work[w].job] = sent[work[w].job] + 1
          /\ \A j \in Jobs : j # work[w].job => sent'[j] = sent[j]
      BY <1>0, <1>1
    <2>3. \A j \in Jobs : job[j] # "active" => sent'[j] = sent[j] /\ acked'[j] = acked[j]
      BY <1>0, <1>1, <2>1, <2>2 DEF HeldOnce
    <2>4. \A v \in Workers \ {w} : ~ At(v, "idle") =>
            sent'[work[v].job] = sent[work[v].job] /\ acked'[work[v].job] = acked[work[v].job]
      BY <1>1, <1>3, <2>2, OutcomeFacts
    <2> QED
      BY <1>0, <1>1, <1>2, <1>3, <2>1, <2>2, <2>3, <2>4 DEF CallsMade, At, queue
  <1>5. RecordFollowsWork'
    <2>1. \A v \in Workers : \A k :
            /\ WorksOn(v, k, "return")' <=> WorksOn(v, k, "return")
            /\ WorksOn(v, k, "throw")' <=> WorksOn(v, k, "throw")
            /\ WorksOn(v, k, "throw") => work'[v] = work[v]
      BY <1>0, <1>3 DEF WorksOn, At
    <2>2. \A k : Recorded(k)' <=> Recorded(k)
      BY <1>1, <2>1 DEF Recorded, queue
    <2> QED
      BY <1>1, <2>1, <2>2 DEF OutcomeInv, RecordFollowsWork, queue
  <1>6. AddedOnce' /\ AlarmsFollowWork'
    BY <1>1 DEF OutcomeInv, AddedOnce, AlarmsFollowWork, queue
  <1> QED
    BY <1>0, <1>3, <1>4, <1>5, <1>6 DEF OutcomeInv

\* The processor writes the row before and after the call.
LEMMA RecordOutcome ==
    ASSUME OutcomeInv, NEW w \in Workers,
           BeginAttempt(w) \/ RecordSuccess(w) \/ RecordFailure(w)
    PROVE  OutcomeInv' /\ \A j \in DOMAIN row :
                             /\ row'[j].attempts >= row[j].attempts
                             /\ row[j].status # "pending" => row'[j].status = row[j].status
  <1>0. /\ TypeOK' /\ ~ At(w, "idle") /\ work[w].step \in {"begin", "succeed", "fail"}
        /\ attempts \in [Jobs -> Nat] /\ DOMAIN row \subseteq Jobs
        /\ work[w].job \in Jobs /\ work[w].n \in Nat
        /\ \A k \in DOMAIN row : row[k].attempts \in Nat
    BY OutcomeFacts, WorkerStepTypeOK
       DEF WorkerStep, OutcomeInv, BeginAttempt, RecordSuccess, RecordFailure, At
  <1>1. PICK j : j = work[w].job
    OBVIOUS
  <1> USE <1>1
  <1>2. /\ UNCHANGED <<queue, adding, listeners, alerts, sent, acked>>
        /\ \/ /\ work[w].step = "begin" /\ WorkOn(w, "send")
              /\ UpdateEvent(j, "pending", work[w].n)
           \/ /\ work[w].step = "succeed" /\ WorkOn(w, "return")
              /\ UpdateEvent(j, "completed", work[w].n + 1)
           \/ /\ work[w].step = "fail" /\ WorkOn(w, "throw")
              /\ UpdateEvent(j, StatusAfterFailure(work[w].n), work[w].n + 1)
    BY DEF BeginAttempt, RecordSuccess, RecordFailure, WorkOn, At, merchant
  <1>3. PICK step \in {"send", "return", "throw"} :
          /\ WorkOn(w, step)
          /\ step = "send" <=> work[w].step = "begin"
          /\ step = "return" <=> work[w].step = "succeed"
          /\ step = "throw" <=> work[w].step = "fail"
    BY <1>0, <1>2
  <1>4. /\ work'[w].step = step /\ work'[w].job = j /\ work'[w].n = work[w].n
        /\ \A v \in Workers \ {w} : work'[v] = work[v]
        /\ \A v \in Workers \ {w} : ~ At(v, "idle") => work[v].job # j
        /\ HeldOnce'
    BY <1>0, <1>3, WorkOnFacts DEF WorkSteps
  <1>5. CallsMade'
    BY <1>2, <1>3, <1>4 DEF OutcomeInv, CallsMade, At, queue
  <1>6. /\ DOMAIN row' = DOMAIN row
        /\ \A k \in DOMAIN row : k # j => row'[k] = row[k]
        /\ j \in DOMAIN row =>
             \/ row'[j] = row[j]
             \/ /\ step = "send" /\ row'[j].status = "pending" /\ row'[j].attempts = work[w].n
             \/ /\ step = "return" /\ row'[j].status = "completed"
                /\ row'[j].attempts = work[w].n + 1
             \/ /\ step = "throw" /\ row'[j].attempts = work[w].n + 1
                /\ row'[j].status = IF IsLastAttempt(work[w].n) THEN "failed" ELSE "pending"
    BY <1>2, <1>3 DEF UpdateEvent, StatusAfterFailure
  <1>7. /\ job[j] = "active" /\ work[w].n = attempts[j]
        /\ \A v \in Workers : ~ WorksOn(v, j, "return") /\ ~ WorksOn(v, j, "throw")
    BY <1>0, <1>4 DEF OutcomeInv, HeldOnce, WorksOn, At
  <1>8. j \in DOMAIN row => row[j].status = "pending" /\ row[j].attempts <= attempts[j]
    <2>1. ~ Recorded(j)
      BY <1>7 DEF Recorded
    <2>2. ASSUME j \in DOMAIN row PROVE row[j].status \in EventStatus
      BY <2>2 DEF OutcomeInv, TypeOK, RecordTypes
    <2>3. j \in DOMAIN row => row[j].attempts <= attempts[j] + 0
      BY <2>1 DEF OutcomeInv, RecordFollowsWork
    <2> QED
      BY <1>0, <1>7, <2>2, <2>3 DEF OutcomeInv, RecordFollowsWork, EventStatus
  <1>9. \A v \in Workers : \A k : k # j =>
            /\ WorksOn(v, k, "return")' <=> WorksOn(v, k, "return")
            /\ WorksOn(v, k, "throw")' <=> WorksOn(v, k, "throw")
            /\ WorksOn(v, k, "throw") => work'[v] = work[v]
    BY <1>4 DEF WorksOn, At
  <1>10. \A k : k # j => (Recorded(k)' <=> Recorded(k))
    BY <1>2, <1>9 DEF Recorded, queue
  <1>11. /\ step = "return" => WorksOn(w, j, "return")' /\ Recorded(j)'
         /\ step = "throw" => WorksOn(w, j, "throw")' /\ Recorded(j)'
    BY <1>4 DEF WorksOn, At, Recorded
  <1>12. RecordFollowsWork'
    <2> SUFFICES ASSUME NEW k \in DOMAIN row
                 PROVE  /\ row'[k].status = "completed" =>
                             job'[k] = "completed" \/ \E v \in Workers : WorksOn(v, k, "return")'
                        /\ row'[k].status = "failed" =>
                             \/ job'[k] = "failed"
                             \/ \E v \in Workers : WorksOn(v, k, "throw")' /\ IsLastAttempt(work'[v].n)
                        /\ row'[k].attempts <= attempts'[k] + (IF Recorded(k)' THEN 1 ELSE 0)
      BY <1>6 DEF RecordFollowsWork, IsLastAttempt
    <2>1. CASE k # j
      BY <1>2, <1>6, <1>9, <1>10, <2>1 DEF OutcomeInv, RecordFollowsWork, queue
    <2>2. CASE k = j
      <3>1. attempts'[j] = attempts[j] /\ attempts[j] \in Nat
        BY <1>0, <1>2 DEF queue
      <3>2. row'[j].attempts <= attempts'[j] + (IF Recorded(j)' THEN 1 ELSE 0)
        <4>1. CASE row'[j].attempts <= attempts[j]
          <5>1. row'[j].attempts \in Nat
            BY <1>0, <1>6, <2>2
          <5> QED
            BY <3>1, <4>1, <5>1
        <4>2. CASE ~ (row'[j].attempts <= attempts[j])
          BY <1>0, <1>6, <1>7, <1>8, <1>11, <2>2, <3>1, <4>2
        <4> QED
          BY <4>1, <4>2
      <3>3. row'[j].status = "completed" => \E v \in Workers : WorksOn(v, j, "return")'
        BY <1>6, <1>8, <1>11, <2>2
      <3>4. row'[j].status = "failed" =>
              \E v \in Workers : WorksOn(v, j, "throw")' /\ IsLastAttempt(work'[v].n)
        BY <1>4, <1>6, <1>8, <1>11, <2>2
      <3> QED
        BY <2>2, <3>2, <3>3, <3>4
    <2> QED
      BY <2>1, <2>2
  <1>13. AddedOnce' /\ AlarmsFollowWork'
    BY <1>2, <1>6 DEF OutcomeInv, AddedOnce, AlarmsFollowWork, queue
  <1>14. ASSUME NEW k \in DOMAIN row
         PROVE  /\ row'[k].attempts >= row[k].attempts
                /\ row[k].status # "pending" => row'[k].status = row[k].status
    BY <1>0, <1>6, <1>7, <1>8, <1>14
  <1> QED
    BY <1>0, <1>4, <1>5, <1>12, <1>13, <1>14 DEF OutcomeInv

\* Bull learns how the attempt ended.
LEMMA JobEndsOutcome ==
    ASSUME OutcomeInv, NEW w \in Workers, JobCompletes(w) \/ JobFails(w)
    PROVE  OutcomeInv'
  <1>0. /\ TypeOK' /\ ~ At(w, "idle") /\ work[w].step \in {"return", "throw"}
        /\ work \in [Workers -> Task \cup {Idle}]
        /\ job \in [Jobs -> JobStates] /\ attempts \in [Jobs -> Nat]
        /\ lock \in [Jobs -> Workers \cup {None}]
        /\ sent \in [Jobs -> Nat] /\ acked \in [Jobs -> Nat] /\ alerts \in [Jobs -> Nat]
        /\ DOMAIN row \subseteq Jobs /\ listeners \subseteq Listener
        /\ work[w].job \in Jobs /\ work[w].n \in Nat
        /\ \A k \in DOMAIN row : row[k].attempts \in Nat
        /\ MaxAttempts \in Nat
    BY OutcomeFacts, WorkerStepTypeOK
       DEF WorkerStep, OutcomeInv, JobCompletes, JobFails, At
  <1>1. PICK j, n : j = work[w].job /\ n = work[w].n
    OBVIOUS
  <1> USE <1>1
  <1>2. /\ job[j] = "active" /\ lock[j] = w /\ n = attempts[j] /\ n < MaxAttempts
        /\ work[w].step = "throw" => sent[j] = n + 1 /\ acked[j] = 0
    BY <1>0 DEF OutcomeInv, HeldOnce, CallsMade
  <1>3. \A v \in Workers \ {w} : ~ At(v, "idle") => work[v].job # j
    BY <1>0, OutcomeFacts
  <1>4. /\ work' = [work EXCEPT ![w] = Idle]
        /\ UNCHANGED <<row, adding, sent, acked, alerts>>
        /\ lock' = [lock EXCEPT ![j] = None]
        /\ \A k \in Jobs \ {j} : job'[k] = job[k] /\ attempts'[k] = attempts[k]
        /\ \/ /\ work[w].step = "return" /\ job'[j] = "completed"
              /\ attempts'[j] = n /\ listeners' = listeners
           \/ /\ work[w].step = "throw" /\ n + 1 < MaxAttempts /\ job'[j] = "delayed"
              /\ attempts'[j] = n + 1 /\ listeners' = listeners
           \/ /\ work[w].step = "throw" /\ n + 1 = MaxAttempts /\ job'[j] = "failed"
              /\ attempts'[j] = n + 1
              /\ listeners' = listeners \cup {[step |-> "notify", job |-> j, n |-> n + 1]}
    <2>1. CASE JobCompletes(w)
      BY <1>0, <1>2, <2>1 DEF JobCompletes, Holds, Work, At, merchant
    <2>2. CASE JobFails(w)
      <3>1. Holds(w)
        BY <1>2 DEF Holds
      <3>2. /\ work[w].step = "throw" /\ Work(w, Idle)
            /\ UNCHANGED <<row, adding, sent, acked, alerts>>
            /\ lock' = [lock EXCEPT ![j] = None]
            /\ attempts' = [attempts EXCEPT ![j] = n + 1]
            /\ job' = [job EXCEPT ![j] = IF n + 1 < MaxAttempts THEN "delayed" ELSE "failed"]
            /\ FinalFailure(j, n + 1)
        BY <1>2, <2>2, <3>1 DEF JobFails, At, merchant
      <3>3. /\ attempts'[j] = n + 1
            /\ job'[j] = IF n + 1 < MaxAttempts THEN "delayed" ELSE "failed"
            /\ \A k \in Jobs \ {j} : job'[k] = job[k] /\ attempts'[k] = attempts[k]
        BY <1>0, <3>2
      <3>4. n + 1 < MaxAttempts \/ n + 1 = MaxAttempts
        BY <1>0, <1>2
      <3> QED
        BY <1>0, <3>2, <3>3, <3>4 DEF FinalFailure, Work
    <2> QED
      BY <2>1, <2>2
  <1>5. /\ At(w, "idle")' /\ \A v \in Workers \ {w} : work'[v] = work[v]
        /\ \A k \in Jobs \ {j} : lock'[k] = lock[k]
    BY <1>0, <1>4 DEF At, Idle
  <1>6. HeldOnce'
    <2>1. \A v \in Workers \ {w} : ~ At(v, "idle") => work[v].job \in Jobs
      BY OutcomeFacts
    <2> QED
      BY <1>3, <1>4, <1>5, <2>1 DEF OutcomeInv, HeldOnce, At
  <1>7. CallsMade'
    <2>1. /\ job'[j] \in {"absent", "waiting", "delayed"} =>
                sent'[j] = attempts'[j] /\ acked'[j] = 0 /\ attempts'[j] < MaxAttempts
          /\ job'[j] = "failed" =>
                sent'[j] = MaxAttempts /\ acked'[j] = 0 /\ attempts'[j] = MaxAttempts
      BY <1>0, <1>2, <1>4
    <2>2. \A k \in Jobs \ {j} :
          /\ job'[k] \in {"absent", "waiting", "delayed"} =>
                sent'[k] = attempts'[k] /\ acked'[k] = 0 /\ attempts'[k] < MaxAttempts
          /\ job'[k] = "failed" =>
                sent'[k] = MaxAttempts /\ acked'[k] = 0 /\ attempts'[k] = MaxAttempts
      BY <1>4 DEF OutcomeInv, CallsMade
    <2>3. \A v \in Workers :
          /\ work'[v].step \in {"begin", "send"} =>
                sent'[work'[v].job] = work'[v].n /\ acked'[work'[v].job] = 0
          /\ work'[v].step \in {"fail", "throw"} =>
                sent'[work'[v].job] = work'[v].n + 1 /\ acked'[work'[v].job] = 0
          /\ ~ At(v, "idle")' => work'[v].n < MaxAttempts
      BY <1>4, <1>5 DEF OutcomeInv, CallsMade, At
    <2> QED
      BY <2>1, <2>2, <2>3 DEF CallsMade
  <1>8. \A v \in Workers : \A k : k # j =>
            /\ WorksOn(v, k, "return")' <=> WorksOn(v, k, "return")
            /\ WorksOn(v, k, "throw")' <=> WorksOn(v, k, "throw")
            /\ WorksOn(v, k, "throw") => work'[v] = work[v]
    BY <1>5 DEF WorksOn, At
  <1>9. RecordFollowsWork'
    <2> SUFFICES ASSUME NEW k \in DOMAIN row
                 PROVE  /\ row[k].status = "completed" =>
                             job'[k] = "completed" \/ \E v \in Workers : WorksOn(v, k, "return")'
                        /\ row[k].status = "failed" =>
                             \/ job'[k] = "failed"
                             \/ \E v \in Workers : WorksOn(v, k, "throw")' /\ IsLastAttempt(work'[v].n)
                        /\ row[k].attempts <= attempts'[k] + (IF Recorded(k)' THEN 1 ELSE 0)
      BY <1>4 DEF RecordFollowsWork, IsLastAttempt
    <2>1. CASE k # j
      <3>1. Recorded(k)' <=> Recorded(k)
        BY <1>0, <1>4, <1>8, <2>1 DEF Recorded
      <3>2. k \in Jobs \ {j}
        BY <1>0, <2>1
      <3> QED
        BY <1>4, <1>8, <2>1, <3>1, <3>2 DEF OutcomeInv, RecordFollowsWork
    <2>2. CASE k = j
      <3>1. \A v \in Workers : WorksOn(v, j, "return") \/ WorksOn(v, j, "throw") => v = w
        BY <1>3 DEF WorksOn, At
      <3>2. /\ row[j].status = "completed" => work[w].step = "return"
            /\ row[j].status = "failed" => work[w].step = "throw" /\ IsLastAttempt(n)
        <4>1. ASSUME row[j].status = "completed" PROVE work[w].step = "return"
          <5>1. PICK v \in Workers : WorksOn(v, j, "return")
            BY <1>2, <2>2, <4>1 DEF OutcomeInv, RecordFollowsWork
          <5>2. v = w
            BY <3>1, <5>1
          <5> QED
            BY <5>1, <5>2 DEF WorksOn, At
        <4>2. ASSUME row[j].status = "failed"
              PROVE  work[w].step = "throw" /\ IsLastAttempt(n)
          <5>1. PICK v \in Workers : WorksOn(v, j, "throw") /\ IsLastAttempt(work[v].n)
            BY <1>2, <2>2, <4>2 DEF OutcomeInv, RecordFollowsWork
          <5>2. v = w
            BY <3>1, <5>1
          <5> QED
            BY <5>1, <5>2 DEF WorksOn, At
        <4> QED
          BY <4>1, <4>2
      <3>3. row[j].attempts <= n + 1 /\ row[j].attempts \in Nat
        <4>1. row[j].attempts <= attempts[j] + (IF Recorded(j) THEN 1 ELSE 0)
          BY <2>2 DEF OutcomeInv, RecordFollowsWork
        <4>2. row[j].attempts \in Nat
          BY <1>0, <2>2
        <4> QED
          BY <1>0, <1>2, <4>1, <4>2
      <3>4. row[j].attempts <= attempts'[j] + (IF Recorded(j)' THEN 1 ELSE 0)
        <4>1. CASE attempts'[j] = n + 1
          BY <1>0, <3>3, <4>1
        <4>2. CASE attempts'[j] # n + 1
          <5>1. attempts'[j] = n /\ Recorded(j)'
            BY <1>4, <4>2 DEF Recorded
          <5> QED
            BY <3>3, <5>1
        <4> QED
          BY <4>1, <4>2
      <3>5. /\ row[j].status = "completed" => job'[j] = "completed"
            /\ row[j].status = "failed" => job'[j] = "failed"
        BY <1>0, <1>2, <1>4, <3>2 DEF IsLastAttempt
      <3> QED
        BY <2>2, <3>4, <3>5
    <2> QED
      BY <2>1, <2>2
  <1>10. AddedOnce'
    <2>1. \A k \in Jobs : job'[k] = "absent" => job[k] = "absent"
      BY <1>4
    <2>2. adding \subseteq Jobs
      BY DEF OutcomeInv, TypeOK, RecordTypes
    <2> QED
      BY <1>0, <1>4, <2>1, <2>2 DEF OutcomeInv, AddedOnce
  <1>11. AlarmsFollowWork'
    <2>1. \A l \in listeners : l.job \in Jobs /\ l.job # j
      BY <1>0, <1>2 DEF OutcomeInv, AlarmsFollowWork, Listener
    <2>2. \A k \in Jobs : alerts'[k] <= 1 /\ (alerts'[k] = 1 => job'[k] = "failed")
      BY <1>2, <1>4 DEF OutcomeInv, AlarmsFollowWork
    <2>3. \A l \in listeners :
          /\ job'[l.job] = "failed" /\ l.n = MaxAttempts
          /\ l.step = "notify" => alerts'[l.job] = 0
      BY <1>4, <2>1 DEF OutcomeInv, AlarmsFollowWork
    <2>4. CASE listeners' = listeners
      BY <2>2, <2>3, <2>4 DEF OutcomeInv, AlarmsFollowWork
    <2>5. CASE listeners' # listeners
      <3>1. PICK l : /\ listeners' = listeners \cup {l}
                     /\ l.job = j /\ l.n = MaxAttempts /\ job'[j] = "failed"
        BY <1>4, <2>5
      <3>2. alerts[j] = 0
        BY <1>0, <1>2 DEF OutcomeInv, AlarmsFollowWork
      <3>3. \A m, k \in listeners' : m.job = k.job => m = k
        BY <2>1, <3>1 DEF OutcomeInv, AlarmsFollowWork
      <3> QED
        BY <1>4, <2>2, <2>3, <3>1, <3>2, <3>3 DEF AlarmsFollowWork
    <2> QED
      BY <2>4, <2>5
  <1> QED
    BY <1>0, <1>6, <1>7, <1>9, <1>10, <1>11 DEF OutcomeInv

\* What a step that leaves the workers alone keeps of the record's facts.
LEMMA WorkersKept ==
    ASSUME work' = work, NEW k, job'[k] = "completed" <=> job[k] = "completed"
    PROVE  /\ \A v \in Workers : \A step : WorksOn(v, k, step)' <=> WorksOn(v, k, step)
           /\ Recorded(k)' <=> Recorded(k)
  BY DEF Recorded, WorksOn, At

\* The application adds a job, and saves its row later; a backoff ends.
LEMMA QueueStepOutcome ==
    ASSUME OutcomeInv, NEW j \in Jobs, AddToQueue(j) \/ BackoffOver(j)
    PROVE  OutcomeInv'
  <1>0. /\ TypeOK' /\ DOMAIN row \subseteq Jobs /\ listeners \subseteq Listener
        /\ job \in [Jobs -> JobStates]
        /\ \A w \in Workers : ~ At(w, "idle") => work[w].job \in Jobs
    BY OutcomeFacts, JobStepTypeOK DEF OutcomeInv
  <1>1. /\ \/ job[j] = "absent" /\ adding' = adding \cup {j}
           \/ job[j] = "delayed" /\ adding' = adding
        /\ job' = [job EXCEPT ![j] = "waiting"]
        /\ UNCHANGED <<attempts, lock, row, work, listeners, sent, acked, alerts>>
    BY DEF AddToQueue, BackoffOver, merchant
  <1>2. job'[j] = "waiting" /\ \A k \in Jobs \ {j} : job'[k] = job[k]
    BY <1>0, <1>1
  <1>3. HeldOnce'
    BY <1>0, <1>1, <1>2 DEF OutcomeInv, HeldOnce, At
  <1>4. CallsMade'
    BY <1>1, <1>2 DEF OutcomeInv, CallsMade, At
  <1>5. RecordFollowsWork'
    <2> SUFFICES ASSUME NEW k \in DOMAIN row
                 PROVE  /\ row[k].status = "completed" =>
                             job'[k] = "completed" \/ \E v \in Workers : WorksOn(v, k, "return")'
                        /\ row[k].status = "failed" =>
                             \/ job'[k] = "failed"
                             \/ \E v \in Workers : WorksOn(v, k, "throw")' /\ IsLastAttempt(work'[v].n)
                        /\ row[k].attempts <= attempts'[k] + (IF Recorded(k)' THEN 1 ELSE 0)
      BY <1>1 DEF RecordFollowsWork, IsLastAttempt
    <2>1. /\ job[k] \in {"completed", "failed"} => job'[k] = job[k]
          /\ job'[k] = "completed" <=> job[k] = "completed"
      BY <1>0, <1>1, <1>2
    <2> QED
      BY <1>1, <2>1, WorkersKept DEF OutcomeInv, RecordFollowsWork
  <1>6. AddedOnce'
    BY <1>0, <1>1, <1>2 DEF OutcomeInv, AddedOnce, TypeOK, RecordTypes
  <1>7. AlarmsFollowWork'
    <2>1. \A k \in Jobs : job[k] = "failed" => job'[k] = "failed"
      BY <1>1, <1>2
    <2> QED
      BY <1>0, <1>1, <2>1 DEF OutcomeInv, AlarmsFollowWork, Listener
  <1> QED
    BY <1>0, <1>3, <1>4, <1>5, <1>6, <1>7 DEF OutcomeInv

LEMMA SaveEventOutcome ==
    ASSUME OutcomeInv, NEW j \in Jobs, SaveEvent(j)
    PROVE  /\ OutcomeInv'
           /\ \A k \in DOMAIN row : k \in DOMAIN row' /\ row'[k] = row[k]
  <1>0. /\ TypeOK' /\ DOMAIN row \subseteq Jobs
        /\ attempts \in [Jobs -> Nat] /\ j \notin DOMAIN row
    BY OutcomeFacts, JobStepTypeOK DEF OutcomeInv, AddedOnce, SaveEvent
  <1>1. /\ j \in adding /\ adding' = adding \ {j}
        /\ UNCHANGED <<job, attempts, lock, work, listeners, sent, acked, alerts>>
        /\ \/ row' = row
           \/ /\ DOMAIN row' = DOMAIN row \cup {j}
              /\ \A k \in DOMAIN row : row'[k] = row[k]
              /\ row'[j].status = "pending" /\ row'[j].attempts = 0
    BY <1>0 DEF SaveEvent, queue, merchant
  <1>2. HeldOnce' /\ CallsMade' /\ AlarmsFollowWork'
    BY <1>1 DEF OutcomeInv, HeldOnce, CallsMade, AlarmsFollowWork, At
  <1>3. AddedOnce'
    BY <1>1 DEF OutcomeInv, AddedOnce
  <1>4. \A k : (Recorded(k)' <=> Recorded(k))
               /\ \A v \in Workers : \A step : WorksOn(v, k, step)' <=> WorksOn(v, k, step)
    BY <1>1, WorkersKept
  <1>5. RecordFollowsWork'
    <2> SUFFICES ASSUME NEW k \in DOMAIN row'
                 PROVE  /\ row'[k].status = "completed" =>
                             job[k] = "completed" \/ \E v \in Workers : WorksOn(v, k, "return")
                        /\ row'[k].status = "failed" =>
                             \/ job[k] = "failed"
                             \/ \E v \in Workers : WorksOn(v, k, "throw") /\ IsLastAttempt(work[v].n)
                        /\ row'[k].attempts <= attempts[k] + (IF Recorded(k) THEN 1 ELSE 0)
      BY <1>1, <1>4 DEF RecordFollowsWork, IsLastAttempt
    <2>1. CASE k \in DOMAIN row
      BY <1>1, <2>1 DEF OutcomeInv, RecordFollowsWork
    <2>2. CASE k \notin DOMAIN row
      <3>1. row'[k].status = "pending" /\ row'[k].attempts = 0 /\ attempts[k] \in Nat
        BY <1>0, <1>1, <2>2
      <3> QED
        BY <3>1
    <2> QED
      BY <2>1, <2>2
  <1>6. \A k \in DOMAIN row : k \in DOMAIN row' /\ row'[k] = row[k]
    BY <1>1
  <1> QED
    BY <1>0, <1>2, <1>3, <1>5, <1>6 DEF OutcomeInv

\* The listener of a final failure.
LEMMA AlertOutcome ==
    ASSUME OutcomeInv, NEW l \in listeners, Alert(l)
    PROVE  OutcomeInv'
  <1>0. /\ TypeOK' /\ l \in Listener /\ l.job \in Jobs /\ listeners \subseteq Listener
        /\ alerts \in [Jobs -> Nat]
    BY OutcomeFacts, ListenerStepTypeOK DEF OutcomeInv, Listener
  <1>1. PICK m : /\ m = [l EXCEPT !.step = "mark"]
                 /\ listeners' = (listeners \ {l}) \cup {m}
    BY DEF Alert
  <1>2. /\ m.step = "mark" /\ m.job = l.job /\ m.n = l.n /\ l.step = "notify"
        /\ UNCHANGED <<job, attempts, lock, row, adding, work, sent, acked>>
        /\ \A k \in Jobs : k # l.job => alerts'[k] = alerts[k]
        /\ alerts'[l.job] \in {alerts[l.job], alerts[l.job] + 1}
    BY <1>0, <1>1 DEF Alert, Listener, queue, merchant
  <1>3. /\ job[l.job] = "failed" /\ l.n = MaxAttempts /\ alerts[l.job] = 0
        /\ \A k \in listeners : k.job = l.job => k = l
    BY <1>2 DEF OutcomeInv, AlarmsFollowWork
  <1>4. HeldOnce' /\ CallsMade' /\ AddedOnce'
    BY <1>2 DEF OutcomeInv, HeldOnce, CallsMade, AddedOnce, At
  <1>5. RecordFollowsWork'
    <2>1. \A k : (Recorded(k)' <=> Recorded(k))
               /\ \A v \in Workers : \A step : WorksOn(v, k, step)' <=> WorksOn(v, k, step)
      BY <1>2, WorkersKept
    <2> QED
      BY <1>2, <2>1 DEF OutcomeInv, RecordFollowsWork
  <1>6. AlarmsFollowWork'
    <2>1. ASSUME NEW k \in listeners'
          PROVE  /\ job[k.job] = "failed" /\ k.n = MaxAttempts
                 /\ k.step = "notify" => alerts'[k.job] = 0
      <3>1. CASE k = m
        BY <1>2, <1>3, <3>1
      <3>2. CASE k # m
        <4>1. k \in listeners /\ k.job # l.job /\ k.job \in Jobs
          BY <1>0, <1>1, <1>3, <2>1, <3>2 DEF Listener
        <4> QED
          BY <1>2, <4>1 DEF OutcomeInv, AlarmsFollowWork
      <3> QED
        BY <3>1, <3>2
    <2>2. ASSUME NEW k \in listeners', NEW i \in listeners', i.job = k.job
          PROVE  i = k
      <3>1. /\ k = m \/ (k \in listeners /\ k # l)
            /\ i = m \/ (i \in listeners /\ i # l)
        BY <1>1, <2>2
      <3>2. \A e \in listeners : e # l => e.job # m.job
        BY <1>2, <1>3
      <3>3. \A e, f \in listeners : e.job = f.job => e = f
        BY DEF OutcomeInv, AlarmsFollowWork
      <3> QED
        BY <2>2, <3>1, <3>2, <3>3
    <2>3. \A k \in Jobs : alerts'[k] <= 1 /\ (alerts'[k] = 1 => job[k] = "failed")
      <3>1. alerts'[l.job] <= 1
        BY <1>2, <1>3
      <3> QED
        BY <1>2, <1>3, <3>1 DEF OutcomeInv, AlarmsFollowWork
    <2>4. job' = job
      BY <1>2
    <2>5. /\ \A k \in listeners' :
              /\ job'[k.job] = "failed" /\ k.n = MaxAttempts
              /\ k.step = "notify" => alerts'[k.job] = 0
              /\ \A i \in listeners' : i.job = k.job => i = k
          /\ \A k \in Jobs : alerts'[k] <= 1 /\ (alerts'[k] = 1 => job'[k] = "failed")
      BY <2>1, <2>2, <2>3, <2>4
    <2> QED
      BY <2>5 DEF AlarmsFollowWork
  <1> QED
    BY <1>0, <1>4, <1>5, <1>6 DEF OutcomeInv

LEMMA MarkFailedOutcome ==
    ASSUME OutcomeInv, NEW l \in listeners, MarkFailed(l)
    PROVE  OutcomeInv' /\ \A j \in DOMAIN row :
                             /\ row'[j].attempts >= row[j].attempts
                             /\ row[j].status # "pending" => row'[j].status = row[j].status
  <1>0. /\ TypeOK' /\ l.job \in Jobs /\ DOMAIN row \subseteq Jobs
        /\ listeners \subseteq Listener /\ MaxAttempts \in Nat
        /\ \A k \in DOMAIN row : row[k].attempts \in Nat
    BY OutcomeFacts, ListenerStepTypeOK DEF OutcomeInv, Listener
  <1>1. PICK j : j = l.job
    OBVIOUS
  <1> USE <1>1
  <1>2. /\ UNCHANGED <<job, attempts, lock, adding, work, sent, acked, alerts>>
        /\ listeners' = listeners \ {l}
        /\ DOMAIN row' = DOMAIN row
        /\ \A k \in DOMAIN row : k # j => row'[k] = row[k]
        /\ j \in DOMAIN row =>
             \/ row'[j] = row[j]
             \/ row'[j].status = "failed" /\ row'[j].attempts = l.n
    BY DEF MarkFailed, UpdateEvent, queue, merchant
  <1>3. /\ job[j] = "failed" /\ l.n = MaxAttempts /\ attempts[j] = MaxAttempts
    BY <1>0 DEF OutcomeInv, AlarmsFollowWork, CallsMade
  <1>4. \A v \in Workers : ~ WorksOn(v, j, "return") /\ ~ WorksOn(v, j, "throw")
    BY <1>3 DEF OutcomeInv, HeldOnce, WorksOn, At
  <1>5. j \in DOMAIN row =>
          row[j].attempts <= MaxAttempts /\ row[j].status \in {"pending", "failed"}
    <2>1. ~ Recorded(j)
      BY <1>3, <1>4 DEF Recorded
    <2>2. ASSUME j \in DOMAIN row PROVE row[j].status \in EventStatus
      BY <2>2 DEF OutcomeInv, TypeOK, RecordTypes
    <2>3. j \in DOMAIN row => row[j].attempts <= MaxAttempts + 0
      BY <1>3, <2>1 DEF OutcomeInv, RecordFollowsWork
    <2>4. j \in DOMAIN row => row[j].status # "completed"
      BY <1>3, <1>4 DEF OutcomeInv, RecordFollowsWork
    <2> QED
      BY <1>0, <2>2, <2>3, <2>4 DEF EventStatus
  <1>6. HeldOnce' /\ CallsMade' /\ AddedOnce' /\ AlarmsFollowWork'
    BY <1>2 DEF OutcomeInv, HeldOnce, CallsMade, AddedOnce, AlarmsFollowWork, At
  <1>7. RecordFollowsWork'
    <2>1. \A k : (Recorded(k)' <=> Recorded(k))
               /\ \A v \in Workers : \A step : WorksOn(v, k, step)' <=> WorksOn(v, k, step)
      BY <1>2, WorkersKept
    <2> SUFFICES ASSUME NEW k \in DOMAIN row
                 PROVE  /\ row'[k].status = "completed" =>
                             job[k] = "completed" \/ \E v \in Workers : WorksOn(v, k, "return")
                        /\ row'[k].status = "failed" =>
                             \/ job[k] = "failed"
                             \/ \E v \in Workers : WorksOn(v, k, "throw") /\ IsLastAttempt(work[v].n)
                        /\ row'[k].attempts <= attempts[k] + (IF Recorded(k) THEN 1 ELSE 0)
      BY <1>2, <2>1 DEF RecordFollowsWork, IsLastAttempt
    <2>2. CASE row'[k] = row[k]
      BY <2>2 DEF OutcomeInv, RecordFollowsWork
    <2>3. CASE row'[k] # row[k]
      <3>1. k = j /\ row'[k].status = "failed" /\ row'[k].attempts = MaxAttempts
        BY <1>2, <1>3, <2>3
      <3> QED
        BY <1>0, <1>3, <3>1
    <2> QED
      BY <2>2, <2>3
  <1>8. ASSUME NEW k \in DOMAIN row
        PROVE  /\ row'[k].attempts >= row[k].attempts
               /\ row[k].status # "pending" => row'[k].status = row[k].status
    BY <1>0, <1>2, <1>3, <1>5, <1>8
  <1> QED
    BY <1>0, <1>6, <1>7, <1>8 DEF OutcomeInv

\* What a step may do to the record.
RecordKept ==
    \A j \in DOMAIN row :
        /\ row'[j].attempts >= row[j].attempts
        /\ row[j].status # "pending" => row'[j].status = row[j].status

LEMMA StepOutcome ==
    ASSUME Undisturbed, OutcomeInv, [Next]_vars
    PROVE  OutcomeInv' /\ RecordKept
  <1>0. \A j \in DOMAIN row : row[j].attempts \in Nat
    BY OutcomeFacts
  <1>1. row' = row => RecordKept
    BY <1>0 DEF RecordKept
  <1>2. ASSUME NEW j \in Jobs, AddToQueue(j) \/ BackoffOver(j)
        PROVE  OutcomeInv' /\ RecordKept
    BY <1>1, <1>2, QueueStepOutcome DEF AddToQueue, BackoffOver
  <1>3. ASSUME NEW j \in Jobs, SaveEvent(j)
        PROVE  OutcomeInv' /\ RecordKept
    BY <1>0, <1>3, SaveEventOutcome DEF RecordKept
  <1>4. ASSUME NEW w \in Workers, WorkerStep(w)
        PROVE  OutcomeInv' /\ RecordKept
    <2>1. CASE TakeJob(w)
      BY <1>1, <2>1, TakeJobOutcome DEF TakeJob
    <2>2. CASE Deliver(w) \/ DeliveryFails(w)
      BY <1>1, <2>2, CallOutcome DEF Deliver, DeliveryFails
    <2>3. CASE BeginAttempt(w) \/ RecordSuccess(w) \/ RecordFailure(w)
      BY <2>3, RecordOutcome DEF RecordKept
    <2>4. CASE JobCompletes(w) \/ JobFails(w)
      BY <1>1, <2>4, JobEndsOutcome DEF JobCompletes, JobFails
    <2> QED
      BY <1>4, <2>1, <2>2, <2>3, <2>4 DEF WorkerStep
  <1>5. ASSUME NEW l \in listeners, Alert(l)
        PROVE  OutcomeInv' /\ RecordKept
    BY <1>1, <1>5, AlertOutcome DEF Alert
  <1>6. ASSUME NEW l \in listeners, MarkFailed(l)
        PROVE  OutcomeInv' /\ RecordKept
    BY <1>6, MarkFailedOutcome DEF RecordKept
  <1>7. CASE UNCHANGED vars
    <2>1. TypeOK'
      BY <1>7, StepTypeOK DEF OutcomeInv
    <2> QED
      BY <1>1, <1>7, <2>1
         DEF vars, queue, merchant, OutcomeInv, HeldOnce, CallsMade, RecordFollowsWork,
             AddedOnce, AlarmsFollowWork, Recorded, WorksOn, At
  <1>8. /\ \A j \in Jobs : ~ Stall(j) /\ ~ StallTooOften(j)
        /\ ~ Crash
    BY DEF Undisturbed, Stall, StallTooOften, Crash
  <1> QED
    BY <1>2, <1>3, <1>4, <1>5, <1>6, <1>7, <1>8 DEF Next, Undisturbed

\* OutcomeIsTrue, whatever updates the database loses: the final status of a
\* record is its job's, and the alarm is raised at most once, for a delivery whose
\* attempts all failed.
THEOREM OutcomesAreTrue ==
    ASSUME Undisturbed PROVE Spec => []OutcomeIsTrue
  <1>1. OutcomeInv /\ [Next]_vars => OutcomeInv'
    BY StepOutcome
  <1> QED
    BY <1>1, InitOutcomeInv, OutcomeInvProperty, PTL DEF Spec

\* RecordMovesForward: a record's attempts never decrease and its final status is
\* never taken back.
THEOREM RecordsMoveForward ==
    ASSUME Undisturbed PROVE Spec => RecordMovesForward
  <1>1. OutcomeInv /\ [Next]_vars => OutcomeInv'
    BY StepOutcome
  <1>2. OutcomeInv /\ [Next]_vars => [RecordKept]_vars
    BY StepOutcome
  <1>3. [RecordKept]_vars =>
          [\A j \in DOMAIN row :
             /\ row'[j].attempts >= row[j].attempts
             /\ row[j].status # "pending" => row'[j].status = row[j].status]_vars
    BY DEF RecordKept
  <1> QED
    BY <1>1, <1>2, <1>3, InitOutcomeInv, PTL DEF Spec, RecordMovesForward
=============================================================================
