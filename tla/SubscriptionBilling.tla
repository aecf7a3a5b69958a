------------------------- MODULE SubscriptionBilling -------------------------
(***************************************************************************)
(* Recurring billing: src/src/services/SubscriptionService.ts, driven by   *)
(* the cron job of src/src/utils/subscriptionScheduler.ts and by the HTTP  *)
(* handlers that create, pause, resume and cancel a subscription.          *)
(*                                                                         *)
(* Every await of the code is a boundary between two steps.  What a        *)
(* handler read before an await it keeps in mem[p], and a later save       *)
(* writes the whole row from there: a TypeORM save() brings the row to the *)
(* values of the entity in memory.  A process is a run of the scheduler or *)
(* an HTTP request.                                                        *)
(***************************************************************************)
EXTENDS Integers, FiniteSets

CONSTANTS
    Subs,         \* subscriptions the clients may create
    Runs,         \* slots for scheduler runs; more than one: runs may overlap
    Requests,     \* HTTP requests that may be in progress at once
    Interval,     \* length of a billing period, in units of the clock
    MaxRetries,   \* Subscription.maxRetries (column default 3)
    StartDates,   \* values of params.startDate a client may send
    RetryDelays,  \* function on 1 .. n: the table in getRetryDelay
    Calls,        \* which operations the clients call
    Faults,       \* which of "db", "lost", "crash" the environment does
    MaxCycles,    \* bound: rows of billing_cycles
    MaxCharges,   \* bound: payments of one cycle the ledger counts
    MaxTime       \* bound: the clock

Procs == Runs \cup Requests
CycleIds == 1 .. MaxCycles

ASSUME BillingAssumption ==
    /\ Runs \cap Requests = {}
    /\ Interval \in Nat \ {0}
    /\ MaxRetries \in Nat \ {0}
    /\ StartDates \subseteq Nat
    /\ RetryDelays \in [1 .. 3 -> Nat]
    /\ Calls \subseteq {"create", "pause", "resume", "cancel"}
    /\ Faults \subseteq {"db", "lost", "crash"}
    /\ MaxCycles \in Nat
    /\ MaxCharges \in Nat
    /\ MaxTime \in Nat

VARIABLES
    now,      \* the clock: new Date()
    subs,     \* table subscriptions, a function on the ids inserted so far
    cycles,   \* table billing_cycles, a function on the ids inserted so far
    charges,  \* the Stellar ledger: payments executed for sub_<cycle id>
    pc,       \* where each process is; the steps are named for their await
    batch,    \* the due cycles a run found and has not processed yet
    mem       \* the entities a process holds in memory

vars == <<now, subs, cycles, charges, pc, batch, mem>>
tables == <<subs, cycles, charges>>

\* The statuses the code assigns; it declares EXPIRED, and CANCELLED of a cycle,
\* without ever assigning them.
SubStatus == {"active", "paused", "cancelled", "past_due"}
CycleStatus == {"pending", "processing", "completed", "failed"}
Date == Nat

SubRow == [status: SubStatus, next: Date, failed: Nat]
CycleRow == [sub: Subs, due: Date, status: CycleStatus, retry: Nat,
             nextRetry: Date]

\* What a process holds: the cycle it bills (id and row), the subscription,
\* the due date of the cycle it is about to open, and whether no child row of
\* the subscription was inserted since it was loaded.
Memory == [id: Nat, cyc: CycleRow, s: Subs, sub: SubRow, due: Date,
           fresh: BOOLEAN]
NoMemory == [id |-> 0]

RunSteps == {"claim", "pay", "complete", "advance", "open", "log",
             "faillog", "failcycle", "failsub"}
RequestSteps == {"insert", "advance", "open", "log", "update", "oplog"}

------------------------------------------------------------------------------
\* Pure parts of the service.

NoDate == 0

\* calculateNextBillingDate with one interval length.
NextBillingDate(d) == d + Interval

\* getRetryDelay: delays[Math.min(retryCount - 1, delays.length - 1)].
RetryDelay(n) == RetryDelays[IF n < 3 THEN n ELSE 3]

NewCycle(s, d) == [sub |-> s, due |-> d, status |-> "pending", retry |-> 0,
                   nextRetry |-> NoDate]

\* Variant for testing the properties: the date moves before the cycle takes it.
AdvanceInMemoryFirst(m) ==
    [m EXCEPT !.due = NextBillingDate(m.sub.next), !.sub.next = NextBillingDate(m.sub.next)]

\* createBillingCycle before its first await: the new cycle takes the current
\* nextBillingDate and the subscription in memory moves on by one period.
AdvanceInMemory(m) ==
    [m EXCEPT !.due = m.sub.next, !.sub.next = NextBillingDate(m.sub.next)]

\* Variants for testing the properties: one attempt too many, and a retry that is
\* not scheduled.
AttemptsLeftAtMax(n) == n <= MaxRetries
StatusStaysProcessing(n) == IF n < MaxRetries THEN "processing" ELSE "failed"

NextAttempt(n) == n + 1
AttemptsLeft(n) == n < MaxRetries
StatusAfterFailure(n) == IF AttemptsLeft(n) THEN "pending" ELSE "failed"

\* handlePaymentFailure before its first await.
FailedCycle(c, n) ==
    [c EXCEPT !.retry = n,
              !.status = StatusAfterFailure(n),
              !.nextRetry = IF AttemptsLeft(n) THEN now + RetryDelay(n) ELSE @]
FailedSubscription(s, n) ==
    [s EXCEPT !.failed = @ + 1,
              !.status = IF AttemptsLeft(n) THEN @ ELSE "past_due"]
FailInMemory(m) ==
    LET n == NextAttempt(m.cyc.retry)
    IN  [m EXCEPT !.cyc = FailedCycle(@, n), !.sub = FailedSubscription(@, n)]

\* A row of billing_cycles or subscription_events is inserted for s: the
\* collections billingCycles and events that a pending pause, resume or cancel
\* of s loaded are no longer complete.
ChildInserted(m, s) ==
    [p \in Procs |-> IF pc[p] = "update" /\ m[p].s = s
                     THEN [m[p] EXCEPT !.fresh = FALSE]
                     ELSE m[p]]

Goto(p, step) == pc' = [pc EXCEPT ![p] = step]
Remember(p, m) == mem' = [mem EXCEPT ![p] = m]
FreeIds == CycleIds \ DOMAIN cycles

\* Bound: a process starts to bill or to create only while a row is left for
\* the cycle it may open and for those the others may open.
MayOpen == {"claim", "pay", "complete", "insert", "advance", "open"}
RoomForCycle ==
    Cardinality(FreeIds) > Cardinality({p \in Procs : pc[p] \in MayOpen})

------------------------------------------------------------------------------
Init ==
    /\ now = 0
    /\ subs = [s \in {} |-> NoMemory]     \* the tables are empty
    /\ cycles = [c \in {} |-> NoMemory]
    /\ charges = [c \in CycleIds |-> 0]
    /\ pc = [p \in Procs |-> "idle"]
    /\ batch = [r \in Runs |-> {}]
    /\ mem = [p \in Procs |-> NoMemory]

ClockTick ==
    /\ now < MaxTime
    /\ now' = now + 1
    /\ UNCHANGED <<tables, pc, batch, mem>>

------------------------------------------------------------------------------
\* The scheduler.

\* Variant for testing the properties: the query forgets the status.
DueWhateverStatus(c) == cycles[c].due <= now

Due(c) == cycles[c].status = "pending" /\ cycles[c].due <= now

\* processScheduledPayments: find() with the relation loaded, one subscription
\* object per cycle found.
FindDueCycles(r) ==
    /\ pc[r] = "idle"
    /\ batch' = [batch EXCEPT ![r] =
           {[id |-> c, cyc |-> cycles[c], s |-> cycles[c].sub,
             sub |-> subs[cycles[c].sub], due |-> NoDate, fresh |-> TRUE] :
              c \in {d \in DOMAIN cycles : Due(d)}}]
    /\ Goto(r, "pick")
    /\ UNCHANGED <<now, tables, mem>>

\* The for loop takes the next cycle; processBillingCycle marks it in memory.
PickCycle(r) ==
    /\ pc[r] = "pick"
    /\ RoomForCycle
    /\ \E m \in batch[r] :
          /\ batch' = [batch EXCEPT ![r] = @ \ {m}]
          /\ Remember(r, [m EXCEPT !.cyc.status = "processing"])
    /\ Goto(r, "claim")
    /\ UNCHANGED <<now, tables>>

EndRun(r) ==
    /\ pc[r] = "pick"
    /\ batch[r] = {}
    /\ Goto(r, "idle")
    /\ UNCHANGED <<now, tables, batch, mem>>

\* billingCycleRepository.save(cycle) with status PROCESSING.
SaveClaim(r) ==
    /\ pc[r] = "claim"
    /\ cycles' = [cycles EXCEPT ![mem[r].id] = mem[r].cyc]
    /\ Goto(r, "pay")
    /\ UNCHANGED <<now, subs, charges, batch, mem>>

Charge(c) ==
    /\ charges[c] < MaxCharges
    /\ charges' = [charges EXCEPT ![c] = @ + 1]

\* paymentService.processPayment returns: the payment is on the ledger.
PaymentAccepted(r) ==
    /\ pc[r] = "pay"
    /\ Charge(mem[r].id)
    /\ Remember(r, [mem[r] EXCEPT !.cyc.status = "completed"])
    /\ Goto(r, "complete")
    /\ UNCHANGED <<now, subs, cycles, batch>>

\* Variant for testing the properties: the rejection is swallowed.
PaymentRejectionIgnored(r) ==
    /\ pc[r] = "pay"
    /\ Remember(r, [mem[r] EXCEPT !.cyc.status = "completed"])
    /\ Goto(r, "complete")
    /\ UNCHANGED <<now, tables, batch>>

\* paymentService.processPayment throws and nothing was executed.
PaymentRejected(r) ==
    /\ pc[r] = "pay"
    /\ Remember(r, FailInMemory(mem[r]))
    /\ Goto(r, "faillog")
    /\ UNCHANGED <<now, tables, batch>>

\* paymentService.processPayment throws (a time-out) after the network executed
\* the payment.
PaymentAnswerLost(r) ==
    /\ "lost" \in Faults
    /\ pc[r] = "pay"
    /\ Charge(mem[r].id)
    /\ Remember(r, FailInMemory(mem[r]))
    /\ Goto(r, "faillog")
    /\ UNCHANGED <<now, subs, cycles, batch>>

\* billingCycleRepository.save(cycle) with status COMPLETED; then
\* createBillingCycle runs up to its first await.
SaveCompleted(r) ==
    /\ pc[r] = "complete"
    /\ cycles' = [cycles EXCEPT ![mem[r].id] = mem[r].cyc]
    /\ Remember(r, AdvanceInMemory(mem[r]))
    /\ Goto(r, "advance")
    /\ UNCHANGED <<now, subs, charges, batch>>

\* createBillingCycle: subscriptionRepository.save(subscription).
SaveNextBillingDate(p) ==
    /\ pc[p] = "advance"
    /\ subs' = [subs EXCEPT ![mem[p].s] = mem[p].sub]
    /\ Goto(p, "open")
    /\ UNCHANGED <<now, cycles, charges, batch, mem>>

\* createBillingCycle: billingCycleRepository.save(cycle) inserts the row.
InsertCycle(p) ==
    /\ pc[p] = "open"
    /\ \E c \in FreeIds :
          /\ \A d \in FreeIds : c <= d
          /\ cycles' = [x \in DOMAIN cycles \cup {c} |->
                          IF x = c THEN NewCycle(mem[p].s, mem[p].due)
                                   ELSE cycles[x]]
    /\ mem' = ChildInserted(mem, mem[p].s)
    /\ Goto(p, "log")
    /\ UNCHANGED <<now, subs, charges, batch>>

\* logEvent(PAYMENT_SUCCESS) in a run, after which the loop goes on;
\* logEvent(CREATED) in a request, after which it answers.
LogOpened(p) ==
    /\ pc[p] = "log"
    /\ mem' = [ChildInserted(mem, mem[p].s) EXCEPT ![p] = NoMemory]
    /\ Goto(p, IF p \in Runs THEN "pick" ELSE "idle")
    /\ UNCHANGED <<now, tables, batch>>

\* handlePaymentFailure: logEvent(PAYMENT_RETRY), or logEvent(DUNNING_STARTED)
\* and the notification.
LogFailure(r) ==
    /\ pc[r] = "faillog"
    /\ mem' = ChildInserted(mem, mem[r].s)
    /\ Goto(r, "failcycle")
    /\ UNCHANGED <<now, tables, batch>>

\* handlePaymentFailure: billingCycleRepository.save(cycle).
SaveFailedCycle(r) ==
    /\ pc[r] = "failcycle"
    /\ cycles' = [cycles EXCEPT ![mem[r].id] = mem[r].cyc]
    /\ Goto(r, "failsub")
    /\ UNCHANGED <<now, subs, charges, batch, mem>>

\* Variant for testing the properties: the next cycle opens after a failure too.
SaveFailedSubscriptionAndOpen(r) ==
    /\ pc[r] = "failsub"
    /\ Remember(r, AdvanceInMemory(mem[r]))
    /\ Goto(r, "advance")
    /\ UNCHANGED <<now, tables, batch>>

\* handlePaymentFailure: subscriptionRepository.save(subscription).
SaveFailedSubscription(r) ==
    /\ pc[r] = "failsub"
    /\ subs' = [subs EXCEPT ![mem[r].s] = mem[r].sub]
    /\ Remember(r, NoMemory)
    /\ Goto(r, "pick")
    /\ UNCHANGED <<now, cycles, charges, batch>>

------------------------------------------------------------------------------
\* HTTP requests.

\* createSubscription up to its first await.
CreateSubscription(q) ==
    /\ "create" \in Calls
    /\ pc[q] = "idle"
    /\ RoomForCycle
    /\ \E s \in Subs \ DOMAIN subs, start \in StartDates :
          /\ \A p \in Requests : pc[p] = "insert" => mem[p].s # s
          /\ Remember(q, [id |-> 0, cyc |-> NewCycle(s, NoDate), s |-> s,
                sub |-> [status |-> "active", next |-> NextBillingDate(start),
                         failed |-> 0],
                due |-> NoDate, fresh |-> TRUE])
    /\ Goto(q, "insert")
    /\ UNCHANGED <<now, tables, batch>>

\* subscriptionRepository.save inserts the row; createBillingCycle runs up to
\* its first await.
InsertSubscription(q) ==
    /\ pc[q] = "insert"
    /\ subs' = [x \in DOMAIN subs \cup {mem[q].s} |->
                  IF x = mem[q].s THEN mem[q].sub ELSE subs[x]]
    /\ Remember(q, AdvanceInMemory(mem[q]))
    /\ Goto(q, "advance")
    /\ UNCHANGED <<now, cycles, charges, batch>>

\* getSubscription with its relations, then the assignments of
\* pauseSubscription, resumeSubscription or cancelSubscription.
LoadAndModify(q, row) ==
    /\ pc[q] = "idle"
    /\ \E s \in DOMAIN subs :
          Remember(q, [id |-> 0, cyc |-> NewCycle(s, NoDate), s |-> s,
                       sub |-> row[s], due |-> NoDate, fresh |-> TRUE])
    /\ Goto(q, "update")
    /\ UNCHANGED <<now, tables, batch>>

PauseSubscription(q) ==
    /\ "pause" \in Calls
    /\ LoadAndModify(q, [s \in DOMAIN subs |-> [subs[s] EXCEPT !.status = "paused"]])

ResumeSubscription(q) ==
    /\ "resume" \in Calls
    /\ LoadAndModify(q, [s \in DOMAIN subs |->
           [subs[s] EXCEPT !.status = "active", !.next = NextBillingDate(now)]])

CancelSubscription(q) ==
    /\ "cancel" \in Calls
    /\ LoadAndModify(q, [s \in DOMAIN subs |-> [subs[s] EXCEPT !.status = "cancelled"]])

\* subscriptionRepository.save(subscription).  The entity carries the loaded
\* collections billingCycles and events: when a row was added to one of them
\* meanwhile, the ORM tries to detach it, the NOT NULL foreign key refuses,
\* the save rolls back and the request answers with an error.
SaveSubscription(q) ==
    /\ pc[q] = "update"
    /\ IF mem[q].fresh
       THEN /\ subs' = [subs EXCEPT ![mem[q].s] = mem[q].sub]
            /\ Goto(q, "oplog")
            /\ UNCHANGED mem
       ELSE /\ Goto(q, "idle")
            /\ Remember(q, NoMemory)
            /\ UNCHANGED subs
    /\ UNCHANGED <<now, cycles, charges, batch>>

\* logEvent(PAUSED / RESUMED / CANCELLED).
LogOperation(q) ==
    /\ pc[q] = "oplog"
    /\ mem' = [ChildInserted(mem, mem[q].s) EXCEPT ![q] = NoMemory]
    /\ Goto(q, "idle")
    /\ UNCHANGED <<now, tables, batch>>

------------------------------------------------------------------------------
\* Failures of the environment.

\* A save inside processBillingCycle throws: its catch calls
\* handlePaymentFailure, also when the payment has already been executed.
BillingSaveFails(r) ==
    /\ "db" \in Faults
    /\ pc[r] \in {"claim", "complete", "advance", "open", "log"}
    /\ Remember(r, FailInMemory(mem[r]))
    /\ Goto(r, "faillog")
    /\ UNCHANGED <<now, tables, batch>>

\* A save inside handlePaymentFailure throws: the exception leaves the loop and
\* the scheduler's own catch ends the run.
FailureSaveFails(r) ==
    /\ "db" \in Faults
    /\ pc[r] \in {"faillog", "failcycle", "failsub"}
    /\ Remember(r, NoMemory)
    /\ batch' = [batch EXCEPT ![r] = {}]
    /\ Goto(r, "idle")
    /\ UNCHANGED <<now, tables>>

\* The notification that dunning started cannot be saved: its event is stored,
\* and the run ends as above.
NotificationFails(r) ==
    /\ "db" \in Faults
    /\ pc[r] = "faillog"
    /\ mem[r].cyc.status = "failed"
    /\ mem' = [ChildInserted(mem, mem[r].s) EXCEPT ![r] = NoMemory]
    /\ batch' = [batch EXCEPT ![r] = {}]
    /\ Goto(r, "idle")
    /\ UNCHANGED <<now, tables>>

\* A save or an event insert of a request throws: the request answers 500.
RequestFails(q) ==
    /\ "db" \in Faults
    /\ pc[q] \in RequestSteps
    /\ Remember(q, NoMemory)
    /\ Goto(q, "idle")
    /\ UNCHANGED <<now, tables, batch>>

\* The server process exits and restarts: memory is lost, the tables are not,
\* and nothing looks at the rows left in status PROCESSING.
Crash ==
    /\ "crash" \in Faults
    /\ \E p \in Procs : pc[p] # "idle"
    /\ pc' = [p \in Procs |-> "idle"]
    /\ batch' = [r \in Runs |-> {}]
    /\ mem' = [p \in Procs |-> NoMemory]
    /\ UNCHANGED <<now, tables>>

------------------------------------------------------------------------------
RunStep(r) ==
    \/ PickCycle(r) \/ EndRun(r) \/ SaveClaim(r)
    \/ PaymentAccepted(r) \/ PaymentRejected(r) \/ PaymentAnswerLost(r)
    \/ SaveCompleted(r) \/ SaveNextBillingDate(r) \/ InsertCycle(r)
    \/ LogOpened(r) \/ LogFailure(r) \/ SaveFailedCycle(r)
    \/ SaveFailedSubscription(r)
    \/ BillingSaveFails(r) \/ FailureSaveFails(r) \/ NotificationFails(r)

RequestStep(q) ==
    \/ InsertSubscription(q) \/ SaveNextBillingDate(q) \/ InsertCycle(q)
    \/ LogOpened(q) \/ SaveSubscription(q) \/ LogOperation(q)
    \/ RequestFails(q)

ClientCalls(q) ==
    \/ CreateSubscription(q) \/ PauseSubscription(q)
    \/ ResumeSubscription(q) \/ CancelSubscription(q)

Next ==
    \/ ClockTick
    \/ Crash
    \/ \E r \in Runs : FindDueCycles(r) \/ RunStep(r)
    \/ \E q \in Requests : ClientCalls(q) \/ RequestStep(q)

Spec == Init /\ [][Next]_vars

\* The cron job fires for ever and awaits complete; clients need not call.
Fairness ==
    /\ WF_vars(ClockTick)
    /\ \A r \in Runs : WF_vars(FindDueCycles(r)) /\ WF_vars(RunStep(r))
    /\ \A q \in Requests : WF_vars(RequestStep(q))

FairSpec == Spec /\ Fairness
------------------------------------------------------------------------------
(***************************************************************************)
(* Properties.                                                             *)
(***************************************************************************)
TableTypes ==
    /\ now \in Date
    /\ DOMAIN subs \subseteq Subs
    /\ \A s \in DOMAIN subs : subs[s] \in SubRow
    /\ DOMAIN cycles \subseteq CycleIds
    /\ \A c \in DOMAIN cycles : cycles[c] \in CycleRow
    /\ charges \in [CycleIds -> Nat]

\* A run works on rows that exist, and on the subscription of its cycle.
BillsKnownRows(m) ==
    /\ m \in Memory
    /\ m.id \in DOMAIN cycles
    /\ m.s \in DOMAIN subs
    /\ m.cyc.sub = m.s
    /\ cycles[m.id].sub = m.s

ProcessTypes ==
    /\ pc \in [Procs -> RunSteps \cup RequestSteps \cup {"idle", "pick"}]
    /\ \A r \in Runs : pc[r] \in RunSteps \cup {"idle", "pick"}
    /\ \A q \in Requests : pc[q] \in RequestSteps \cup {"idle"}
    /\ \A r \in Runs : pc[r] \in RunSteps => BillsKnownRows(mem[r])
    /\ \A q \in Requests :
          /\ pc[q] \in RequestSteps => mem[q] \in Memory
          /\ pc[q] \in RequestSteps \ {"insert"} => mem[q].s \in DOMAIN subs
    /\ DOMAIN mem = Procs
    /\ DOMAIN batch = Runs
    /\ \A r \in Runs : \A m \in batch[r] : BillsKnownRows(m)

\* The tables hold rows of their type, every cycle refers to a stored
\* subscription, and a process in the middle of a handler holds the entities
\* its remaining steps save.
TypeOK ==
    /\ TableTypes
    /\ \A c \in DOMAIN cycles : cycles[c].sub \in DOMAIN subs
    /\ ProcessTypes

Outstanding(c) == cycles[c].status \in {"pending", "processing"}
Closed(c) == cycles[c].status \in {"completed", "failed"}
Holds(r, c) == pc[r] \in RunSteps /\ mem[r].id = c

\* A cycle is stored as COMPLETED only if the ledger has its payment: no
\* interleaving of overlapping runs, failing saves, lost answers and restarts
\* lets a customer go unbilled for a period marked paid.
PaidIfCompleted ==
    \A c \in DOMAIN cycles : cycles[c].status = "completed" => charges[c] > 0

\* The retry budget of handlePaymentFailure: the table shows a cycle as FAILED
\* exactly when all maxRetries attempts are used up, whichever run's copy was
\* saved last, and no cycle waits for an attempt beyond them.
RetryBudget ==
    \A c \in DOMAIN cycles :
        /\ cycles[c].retry <= MaxRetries
        /\ cycles[c].status = "failed" <=> cycles[c].retry = MaxRetries

\* While runs do not overlap, a cycle is charged at most once per attempt it is
\* allowed, whatever saves fail, answers get lost or restarts happen.
ChargesWithinRetries ==
    \A c \in DOMAIN cycles : charges[c] <= MaxRetries

\* Without faults and overlapping runs, ledger and table agree: a cycle is
\* charged once if it is completed (or its run is about to store that) and never
\* otherwise, whatever clients do to the subscription meanwhile.
LedgerMatchesTable ==
    \A c \in DOMAIN cycles :
        /\ charges[c] <= 1
        /\ charges[c] = 1 <=>
              \/ cycles[c].status = "completed"
              \/ \E r \in Runs : Holds(r, c) /\ pc[r] = "complete"

\* A subscription has at most one cycle that is still to be paid: it never owes
\* two periods at a time, since the next cycle opens after the last is paid.
OneOpenCycle ==
    \A c, d \in DOMAIN cycles :
        Outstanding(c) /\ Outstanding(d) /\ cycles[c].sub = cycles[d].sub => c = d

\* Dunning is final: while runs do not overlap, no lost answer, failing save or
\* restart makes a cycle that was given up be collected, charged or rewritten.
GaveUpForGood ==
    [][\A c \in DOMAIN cycles : cycles[c].status = "failed" =>
          cycles'[c] = cycles[c] /\ charges'[c] = charges[c]]_vars

CyclesOf(s) == {c \in DOMAIN cycles : cycles[c].sub = s}

\* What n[c] counts for each c of ids, one by one: <<c, 1>> .. <<c, n[c]>>.
Tally(n, ids) == UNION {{<<c, i>> : i \in 1 .. n[c]} : c \in ids}
FailedAttempts(s) == Tally([c \in DOMAIN cycles |-> cycles[c].retry], CyclesOf(s))

\* s is between the two saves of createBillingCycle.
Opening(s) == \E p \in Procs : pc[p] \in {"advance", "open"} /\ mem[p].s = s

\* As long as clients only create subscriptions, the periods of a subscription
\* follow one another: each cycle is due one interval after the one before, none
\* is skipped or opened twice, and nextBillingDate is one interval after the
\* latest.
PeriodsFollowOneAnother ==
    \A s \in DOMAIN subs :
        /\ \A c, d \in CyclesOf(s) :
              /\ cycles[c].due = cycles[d].due => c = d
              /\ c < d => cycles[c].due < cycles[d].due
        /\ \A c \in CyclesOf(s) :
              \/ cycles[c].due = subs[s].next - Interval
              \/ \E d \in CyclesOf(s) : cycles[d].due = cycles[c].due + Interval
              \/ Opening(s)

\* As long as clients only create subscriptions, failedPaymentCount is the number
\* of failed attempts over all cycles of the subscription, and it is PAST_DUE
\* exactly when one of them used up its retries (except between the two saves of
\* handlePaymentFailure).
FailuresAccounted ==
    \A s \in DOMAIN subs :
        (\A r \in Runs : pc[r] = "failsub" => mem[r].s # s) =>
            /\ subs[s].failed = Cardinality(FailedAttempts(s))
            /\ subs[s].status = "past_due" <=>
                  \E c \in CyclesOf(s) : cycles[c].status = "failed"

\* What the billing history of a subscription shows: its periods, and its failures.
ScheduleAccounted == PeriodsFollowOneAnother /\ FailuresAccounted

\* Every cycle that comes due is eventually paid or given up.
DueIsSettled ==
    \A c \in CycleIds :
        (c \in DOMAIN cycles /\ Due(c)) ~> (c \in DOMAIN cycles /\ Closed(c))

\* What the route documents ("Cancel a subscription"): a run that starts after a
\* subscription was stored as CANCELLED does not collect its cycles.
CancelledNotCollected ==
    \A r \in Runs : \A m \in batch[r] : m.sub.status # "cancelled"
==============================================================================
