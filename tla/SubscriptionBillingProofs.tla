---------------------- MODULE SubscriptionBillingProofs ----------------------
(***************************************************************************)
(* Theorems about SubscriptionBilling for every value of its constants:    *)
(* any number of subscriptions, overlapping runs, requests and cycles.     *)
(***************************************************************************)
EXTENDS BillingRefinement, FiniteSetTheorems, TLAPS

\* The pure parts return entities of their type and keep the identity of the
\* rows they were loaded from.
LEMMA AdvanceKeepsMemory ==
    ASSUME NEW m \in Memory
    PROVE  /\ AdvanceInMemory(m) \in Memory
           /\ AdvanceInMemory(m).id = m.id
           /\ AdvanceInMemory(m).s = m.s
           /\ AdvanceInMemory(m).cyc = m.cyc
  <1>1. m.sub \in SubRow /\ m.sub.next \in Date
    BY DEF Memory, SubRow
  <1>2. NextBillingDate(m.sub.next) \in Date
    BY <1>1, BillingAssumption DEF BillingAssumption, Date, NextBillingDate
  <1>3. [m.sub EXCEPT !.next = NextBillingDate(m.sub.next)] \in SubRow
    BY <1>1, <1>2 DEF SubRow
  <1>4. AdvanceInMemory(m) =
          [m EXCEPT !.due = m.sub.next,
                    !.sub = [m.sub EXCEPT !.next = NextBillingDate(m.sub.next)]]
    BY DEF AdvanceInMemory, Memory
  <1> QED
    BY <1>1, <1>3, <1>4 DEF Memory

LEMMA FailedCycleType ==
    ASSUME NEW c \in CycleRow, NEW n \in Nat, n >= 1, now \in Date
    PROVE  /\ FailedCycle(c, n) \in CycleRow
           /\ FailedCycle(c, n).sub = c.sub
           /\ FailedCycle(c, n).retry = n
           /\ FailedCycle(c, n).status = StatusAfterFailure(n)
  <1> DEFINE st == StatusAfterFailure(n)
             at == IF AttemptsLeft(n) THEN now + RetryDelay(n) ELSE c.nextRetry
  <1>1. RetryDelay(n) \in Nat
    BY BillingAssumption DEF BillingAssumption, RetryDelay
  <1>2. at \in Date
    BY <1>1 DEF CycleRow, Date
  <1>3. st \in CycleStatus
    BY DEF StatusAfterFailure, CycleStatus
  <1>4. FailedCycle(c, n) = [c EXCEPT !.retry = n, !.status = st, !.nextRetry = at]
    BY DEF FailedCycle
  <1> HIDE DEF st, at
  <1>5. /\ FailedCycle(c, n) \in CycleRow
        /\ FailedCycle(c, n).sub = c.sub
        /\ FailedCycle(c, n).retry = n
        /\ FailedCycle(c, n).status = st
    BY <1>2, <1>3, <1>4 DEF CycleRow
  <1> QED
    BY <1>5 DEF st

LEMMA FailedSubscriptionType ==
    ASSUME NEW s \in SubRow, NEW n \in Nat
    PROVE  FailedSubscription(s, n) \in SubRow
  <1> DEFINE st == IF AttemptsLeft(n) THEN s.status ELSE "past_due"
             f == s.failed + 1
  <1>1. st \in SubStatus
    BY DEF SubRow, SubStatus
  <1>2. f \in Nat
    BY DEF SubRow
  <1>3. FailedSubscription(s, n) = [s EXCEPT !.failed = f, !.status = st]
    BY DEF FailedSubscription
  <1> HIDE DEF st, f
  <1> QED
    BY <1>1, <1>2, <1>3 DEF SubRow

LEMMA FailKeepsMemory ==
    ASSUME NEW m \in Memory, now \in Date
    PROVE  /\ FailInMemory(m) \in Memory
           /\ FailInMemory(m).id = m.id
           /\ FailInMemory(m).s = m.s
           /\ FailInMemory(m).cyc.sub = m.cyc.sub
           /\ FailInMemory(m).cyc.retry = m.cyc.retry + 1
           /\ FailInMemory(m).cyc.status = StatusAfterFailure(m.cyc.retry + 1)
  <1> DEFINE n == m.cyc.retry + 1
             c == FailedCycle(m.cyc, n)
             s == FailedSubscription(m.sub, n)
  <1>1. n \in Nat /\ n >= 1 /\ m.cyc \in CycleRow /\ m.sub \in SubRow
    BY DEF Memory, CycleRow
  <1>2. FailInMemory(m) = [m EXCEPT !.cyc = c, !.sub = s]
    BY DEF FailInMemory, NextAttempt, Memory
  <1> HIDE DEF n
  <1>3. /\ c \in CycleRow /\ c.sub = m.cyc.sub /\ c.retry = n
        /\ c.status = StatusAfterFailure(n)
    BY <1>1, FailedCycleType
  <1>4. s \in SubRow
    BY <1>1, FailedSubscriptionType
  <1> HIDE DEF c, s
  <1>5. /\ FailInMemory(m) \in Memory
        /\ FailInMemory(m).id = m.id
        /\ FailInMemory(m).s = m.s
        /\ FailInMemory(m).cyc = c
    BY <1>2, <1>3, <1>4 DEF Memory
  <1> QED
    BY <1>3, <1>5 DEF n

LEMMA NewCycleType ==
    ASSUME NEW s \in Subs, NEW d \in Date
    PROVE  NewCycle(s, d) \in CycleRow /\ NewCycle(s, d).sub = s
  BY DEF NewCycle, CycleRow, CycleStatus, NoDate, Date

\* Runs and requests are different processes, and a run is never in the middle
\* of a pause, resume or cancel.
LEMMA ChildInsertedKeepsMemory ==
    ASSUME TypeOK, NEW s
    PROVE  /\ DOMAIN ChildInserted(mem, s) = Procs
           /\ \A r \in Runs : ChildInserted(mem, s)[r] = mem[r]
           /\ \A q \in Requests : mem[q] \in Memory =>
                 /\ ChildInserted(mem, s)[q] \in Memory
                 /\ ChildInserted(mem, s)[q].s = mem[q].s
  <1>1. \A r \in Runs : pc[r] # "update" /\ r \in Procs
    BY DEF TypeOK, ProcessTypes, RunSteps, Procs
  <1>2. \A q \in Requests : mem[q] \in Memory =>
           /\ [mem[q] EXCEPT !.fresh = FALSE] \in Memory
           /\ [mem[q] EXCEPT !.fresh = FALSE].s = mem[q].s
    BY DEF Memory
  <1> QED
    BY <1>1, <1>2 DEF ChildInserted, Procs

------------------------------------------------------------------------------
\* TypeOK is inductive.

LEMMA InitTypeOK == Init => TypeOK
  BY BillingAssumption DEF BillingAssumption, Init, TypeOK, TableTypes,
     ProcessTypes, Procs, Date, RunSteps, RequestSteps, CycleIds

\* The two steps that runs and requests share and that insert rows.
LEMMA InsertCycleTypeOK ==
    ASSUME TypeOK, NEW p \in Procs, InsertCycle(p)
    PROVE  TypeOK'
  <1>1. mem[p].s \in DOMAIN subs /\ mem[p].s \in Subs /\ mem[p].due \in Date
    BY DEF InsertCycle, TypeOK, TableTypes, ProcessTypes, BillsKnownRows, Memory,
           Procs, RunSteps, RequestSteps
  <1>2. PICK c \in FreeIds :
          cycles' = [x \in DOMAIN cycles \cup {c} |->
                       IF x = c THEN NewCycle(mem[p].s, mem[p].due) ELSE cycles[x]]
    BY DEF InsertCycle
  <1>3. c \in CycleIds /\ c \notin DOMAIN cycles
    BY DEF FreeIds
  <1> DEFINE new == NewCycle(mem[p].s, mem[p].due)
  <1>4. new \in CycleRow /\ new.sub = mem[p].s
    BY <1>1, NewCycleType
  <1> HIDE DEF new
  <1>5. /\ DOMAIN cycles' = DOMAIN cycles \cup {c}
        /\ cycles'[c] = new
        /\ \A x \in DOMAIN cycles : cycles'[x] = cycles[x]
    BY <1>2, <1>3 DEF new
  <1>6. UNCHANGED <<now, subs, charges, batch>>
    BY DEF InsertCycle
  <1>7. TableTypes' /\ (\A x \in DOMAIN cycles : cycles[x].sub \in DOMAIN subs)'
    BY <1>1, <1>3, <1>4, <1>5, <1>6 DEF TypeOK, TableTypes
  <1>8. (\A r \in Runs : \A m \in batch[r] : BillsKnownRows(m))'
    BY <1>3, <1>5, <1>6 DEF TypeOK, ProcessTypes, BillsKnownRows
  <1>9. pc' = [pc EXCEPT ![p] = "log"] /\ mem' = ChildInserted(mem, mem[p].s)
    BY DEF InsertCycle, Goto
  <1>10. p \in Runs \/ (p \in Requests /\ pc[p] = "open")
    BY DEF InsertCycle, Procs
  <1>11. pc[p] = "open"
    BY DEF InsertCycle
  <1>12. \A r \in Runs : pc'[r] \in RunSteps => BillsKnownRows(mem[r])
    BY <1>9, <1>11 DEF TypeOK, ProcessTypes, RunSteps
  <1>13. (\A r \in Runs : pc[r] \in RunSteps => BillsKnownRows(mem[r]))'
    BY <1>3, <1>5, <1>6, <1>9, <1>12, ChildInsertedKeepsMemory DEF BillsKnownRows
  <1>14. \A q \in Requests :
           /\ pc'[q] \in RequestSteps => mem'[q] \in Memory
           /\ pc'[q] \in RequestSteps \ {"insert"} => mem'[q].s \in DOMAIN subs'
    BY <1>6, <1>9, <1>11, ChildInsertedKeepsMemory
       DEF TypeOK, ProcessTypes, RequestSteps
  <1> QED
    BY <1>6, <1>7, <1>8, <1>9, <1>11, <1>13, <1>14, BillingAssumption,
       ChildInsertedKeepsMemory
       DEF BillingAssumption, TypeOK, ProcessTypes, RunSteps, RequestSteps, Procs

LEMMA RunStepTypeOK ==
    ASSUME TypeOK, NEW r \in Runs, RunStep(r) \/ FindDueCycles(r)
    PROVE  TypeOK'
  <1> USE DEF RunSteps, RequestSteps
  <1>0. r \in Procs /\ r \notin Requests
    BY BillingAssumption DEF BillingAssumption, Procs
  <1>1. CASE FindDueCycles(r)
    <2> DEFINE m(c) == [id |-> c, cyc |-> cycles[c], s |-> cycles[c].sub,
                        sub |-> subs[cycles[c].sub], due |-> NoDate, fresh |-> TRUE]
    <2>1. \A c \in DOMAIN cycles : BillsKnownRows(m(c))
      BY DEF TypeOK, TableTypes, BillsKnownRows, Memory, CycleRow, CycleIds,
             Date, NoDate
    <2> HIDE DEF m
    <2>2. \A x \in batch'[r] : BillsKnownRows(x)
      BY <1>0, <1>1, <2>1 DEF FindDueCycles, m, TypeOK, ProcessTypes
    <2>3. DOMAIN batch' = Runs /\ \A x \in Runs \ {r} : batch'[x] = batch[x]
      BY <1>1 DEF FindDueCycles, TypeOK, ProcessTypes
    <2> QED
      BY <1>0, <1>1, <2>2, <2>3
         DEF FindDueCycles, TypeOK, TableTypes, ProcessTypes, BillsKnownRows,
             Goto, tables, Procs
  <1>2. CASE PickCycle(r)
    <2>1. PICK m \in batch[r] : mem' = [mem EXCEPT ![r] = [m EXCEPT !.cyc.status = "processing"]]
      BY <1>2 DEF PickCycle, Remember
    <2>2. m \in Memory /\ BillsKnownRows(m)
      BY DEF TypeOK, ProcessTypes, BillsKnownRows
    <2> DEFINE c == [m.cyc EXCEPT !.status = "processing"]
               k == [m EXCEPT !.cyc = c]
    <2>3. c \in CycleRow /\ c.sub = m.cyc.sub
      BY <2>2 DEF Memory, CycleRow, CycleStatus
    <2>4. k \in Memory /\ k.id = m.id /\ k.s = m.s /\ k.cyc = c
      BY <2>2, <2>3 DEF Memory
    <2>5. [m EXCEPT !.cyc.status = "processing"] = k
      BY <2>2 DEF Memory
    <2> HIDE DEF c, k
    <2>6. BillsKnownRows(k)
      BY <2>2, <2>3, <2>4 DEF BillsKnownRows
    <2> QED
      BY <1>0, <1>2, <2>1, <2>5, <2>6
         DEF PickCycle, TypeOK, TableTypes, ProcessTypes, BillsKnownRows,
             Goto, tables, Procs
  <1>3. CASE EndRun(r)
    BY <1>0, <1>3
       DEF EndRun, TypeOK, TableTypes, ProcessTypes,
           BillsKnownRows, Goto, Remember, tables, Procs
  <1>4. CASE SaveClaim(r)
    BY <1>0, <1>4
       DEF SaveClaim, TypeOK, TableTypes, ProcessTypes,
           BillsKnownRows, Goto, Remember, tables, Procs, Memory
  <1>5. CASE PaymentAccepted(r)
    <2> DEFINE c == [mem[r].cyc EXCEPT !.status = "completed"]
               k == [mem[r] EXCEPT !.cyc = c]
    <2>1. mem[r] \in Memory /\ BillsKnownRows(mem[r])
      BY <1>5 DEF PaymentAccepted, TypeOK, ProcessTypes, BillsKnownRows
    <2>2. c \in CycleRow /\ c.sub = mem[r].cyc.sub
      BY <2>1 DEF Memory, CycleRow, CycleStatus
    <2>3. k \in Memory /\ k.id = mem[r].id /\ k.s = mem[r].s /\ k.cyc = c
      BY <2>1, <2>2 DEF Memory
    <2>4. mem' = [mem EXCEPT ![r] = k]
      BY <1>5, <2>1 DEF PaymentAccepted, Remember, Memory
    <2>5. charges' \in [CycleIds -> Nat]
      <3>1. charges' = [charges EXCEPT ![mem[r].id] = @ + 1]
        BY <1>5 DEF PaymentAccepted, Charge
      <3>2. charges \in [CycleIds -> Nat]
        BY DEF TypeOK, TableTypes
      <3>3. \A x \in CycleIds : charges[x] + 1 \in Nat
        BY <3>2
      <3> QED
        BY <3>1, <3>2, <3>3
    <2> HIDE DEF c, k
    <2>6. BillsKnownRows(k)
      BY <2>1, <2>2, <2>3 DEF BillsKnownRows
    <2> QED
      BY <1>0, <1>5, <2>4, <2>5, <2>6
         DEF PaymentAccepted, TypeOK, TableTypes, ProcessTypes, BillsKnownRows,
             Goto, Procs
  <1>6. CASE /\ \/ PaymentRejected(r) \/ PaymentAnswerLost(r)
                \/ BillingSaveFails(r)
    <2>1. mem[r] \in Memory /\ BillsKnownRows(mem[r])
      BY <1>6 DEF TypeOK, ProcessTypes, BillsKnownRows, PaymentRejected,
                  PaymentAnswerLost, BillingSaveFails
    <2>2. BillsKnownRows(FailInMemory(mem[r]))
      BY <2>1, FailKeepsMemory DEF BillsKnownRows, TypeOK, TableTypes
    <2>3. charges' \in [CycleIds -> Nat]
      BY <1>6 DEF PaymentRejected, PaymentAnswerLost, BillingSaveFails, Charge,
                  tables, TypeOK, TableTypes
    <2>4. mem' = [mem EXCEPT ![r] = FailInMemory(mem[r])]
      BY <1>6 DEF PaymentRejected, PaymentAnswerLost, BillingSaveFails, Remember
    <2> HIDE DEF RunSteps, RequestSteps
    <2>5. pc' = [pc EXCEPT ![r] = "faillog"] /\ "faillog" \in RunSteps
      BY <1>6 DEF PaymentRejected, PaymentAnswerLost, BillingSaveFails, Goto, RunSteps
    <2>6. UNCHANGED <<now, subs, cycles, batch>>
      BY <1>6 DEF PaymentRejected, PaymentAnswerLost, BillingSaveFails, tables
    <2> QED
      BY <1>0, <2>2, <2>3, <2>4, <2>5, <2>6
         DEF TypeOK, TableTypes, ProcessTypes, BillsKnownRows, Procs
  <1>7. CASE SaveCompleted(r)
    <2>1. BillsKnownRows(mem[r])
      BY <1>7 DEF SaveCompleted, TypeOK, ProcessTypes
    <2>2. cycles' = [cycles EXCEPT ![mem[r].id] = mem[r].cyc]
      BY <1>7 DEF SaveCompleted
    <2>3. BillsKnownRows(AdvanceInMemory(mem[r]))
      BY <2>1, AdvanceKeepsMemory DEF BillsKnownRows
    <2> QED
      BY <1>0, <1>7, <2>1, <2>2, <2>3
         DEF SaveCompleted, TypeOK, TableTypes, ProcessTypes,
           BillsKnownRows, Goto, Remember, tables, Procs, Memory
  <1>8. CASE SaveNextBillingDate(r)
    BY <1>0, <1>8
       DEF SaveNextBillingDate, TypeOK, TableTypes, ProcessTypes,
           BillsKnownRows, Goto, Remember, tables, Procs, Memory
  <1>9. CASE InsertCycle(r)
    BY <1>0, <1>9, InsertCycleTypeOK
  <1>10. CASE LogOpened(r)
    BY <1>0, <1>10, ChildInsertedKeepsMemory
       DEF LogOpened, TypeOK, TableTypes, ProcessTypes,
           BillsKnownRows, Goto, Remember, tables, Procs
  <1>11. CASE LogFailure(r)
    <2>1. /\ mem' = ChildInserted(mem, mem[r].s)
          /\ pc' = [pc EXCEPT ![r] = "failcycle"]
          /\ pc[r] = "faillog"
          /\ UNCHANGED <<now, subs, cycles, charges, batch>>
      BY <1>11 DEF LogFailure, Goto, tables
    <2>2. (\A x \in Runs : pc[x] \in RunSteps => BillsKnownRows(mem[x]))'
      BY <1>0, <2>1, ChildInsertedKeepsMemory DEF TypeOK, ProcessTypes, BillsKnownRows
    <2>3. \A q \in Requests :
            /\ pc'[q] \in RequestSteps => mem'[q] \in Memory
            /\ pc'[q] \in RequestSteps \ {"insert"} => mem'[q].s \in DOMAIN subs'
      BY <1>0, <2>1, ChildInsertedKeepsMemory DEF TypeOK, ProcessTypes
    <2>4. (\A x \in Runs : \A m \in batch[x] : BillsKnownRows(m))'
      BY <2>1 DEF TypeOK, ProcessTypes, BillsKnownRows
    <2>5. TableTypes' /\ (\A c \in DOMAIN cycles : cycles[c].sub \in DOMAIN subs)'
      BY <2>1 DEF TypeOK, TableTypes
    <2>6. pc' \in [Procs -> RunSteps \cup RequestSteps \cup {"idle", "pick"}]
      BY <2>1 DEF TypeOK, ProcessTypes
    <2> QED
      BY <1>0, <2>1, <2>2, <2>3, <2>4, <2>5, <2>6, ChildInsertedKeepsMemory
         DEF TypeOK, ProcessTypes
  <1>12. CASE SaveFailedCycle(r)
    BY <1>0, <1>12
       DEF SaveFailedCycle, TypeOK, TableTypes, ProcessTypes,
           BillsKnownRows, Goto, Remember, tables, Procs, Memory
  <1>13. CASE SaveFailedSubscription(r)
    BY <1>0, <1>13
       DEF SaveFailedSubscription, TypeOK, TableTypes, ProcessTypes,
           BillsKnownRows, Goto, Remember, tables, Procs, Memory
  <1>14. CASE FailureSaveFails(r)
    BY <1>0, <1>14
       DEF FailureSaveFails, TypeOK, TableTypes, ProcessTypes,
           BillsKnownRows, Goto, Remember, tables, Procs
  <1>15. CASE NotificationFails(r)
    BY <1>0, <1>15, ChildInsertedKeepsMemory
       DEF NotificationFails, TypeOK, TableTypes, ProcessTypes,
           BillsKnownRows, Goto, Remember, tables, Procs
  <1> QED
    BY <1>1, <1>2, <1>3, <1>4, <1>5, <1>6, <1>7, <1>8, <1>9, <1>10, <1>11,
       <1>12, <1>13, <1>14, <1>15 DEF RunStep

LEMMA RequestStepTypeOK ==
    ASSUME TypeOK, NEW q \in Requests, ClientCalls(q) \/ RequestStep(q)
    PROVE  TypeOK'
  <1> USE DEF RunSteps, RequestSteps
  <1>0. q \in Procs /\ q \notin Runs
    BY BillingAssumption DEF BillingAssumption, Procs
  <1>1. CASE CreateSubscription(q)
    <2>1. PICK s \in Subs, start \in StartDates :
            mem' = [mem EXCEPT ![q] =
               [id |-> 0, cyc |-> NewCycle(s, NoDate), s |-> s,
                sub |-> [status |-> "active", next |-> NextBillingDate(start),
                         failed |-> 0],
                due |-> NoDate, fresh |-> TRUE]]
      BY <1>1 DEF CreateSubscription, Remember
    <2>2. NextBillingDate(start) \in Date /\ NoDate \in Date
      BY BillingAssumption DEF BillingAssumption, NextBillingDate, Date, NoDate
    <2>3. NewCycle(s, NoDate) \in CycleRow
      BY <2>2, NewCycleType
    <2>4. mem'[q] \in Memory
      BY <1>0, <2>1, <2>2, <2>3 DEF Memory, SubRow, SubStatus, TypeOK, ProcessTypes
    <2> QED
      BY <1>0, <1>1, <2>1, <2>4
         DEF CreateSubscription, TypeOK, TableTypes, ProcessTypes,
             BillsKnownRows, Goto, tables, Procs
  <1>2. ASSUME NEW row, \A s \in DOMAIN subs : row[s] \in SubRow,
               LoadAndModify(q, row)
        PROVE  TypeOK'
    <2>1. PICK s \in DOMAIN subs :
            mem' = [mem EXCEPT ![q] =
               [id |-> 0, cyc |-> NewCycle(s, NoDate), s |-> s,
                sub |-> row[s], due |-> NoDate, fresh |-> TRUE]]
      BY <1>2 DEF LoadAndModify, Remember
    <2>2. NewCycle(s, NoDate) \in CycleRow
      BY NewCycleType DEF TypeOK, TableTypes, NoDate, Date
    <2>3. mem'[q] \in Memory /\ mem'[q].s \in DOMAIN subs
      BY <1>0, <1>2, <2>1, <2>2
         DEF Memory, NoDate, Date, TypeOK, TableTypes, ProcessTypes
    <2> QED
      BY <1>0, <1>2, <2>1, <2>3
         DEF LoadAndModify, TypeOK, TableTypes, ProcessTypes, BillsKnownRows,
             Goto, tables, Procs
  <1>10. CASE PauseSubscription(q) \/ ResumeSubscription(q) \/ CancelSubscription(q)
    <2>1. NextBillingDate(now) \in Date
      BY BillingAssumption DEF BillingAssumption, NextBillingDate, Date, TypeOK, TableTypes
    <2>2. CASE PauseSubscription(q)
      <3> DEFINE row == [s \in DOMAIN subs |-> [subs[s] EXCEPT !.status = "paused"]]
      <3>1. \A s \in DOMAIN subs : row[s] \in SubRow
        BY DEF TypeOK, TableTypes, SubRow, SubStatus
      <3>2. LoadAndModify(q, row)
        BY <2>2 DEF PauseSubscription
      <3> HIDE DEF row
      <3> QED  BY <1>2, <3>1, <3>2
    <2>3. CASE ResumeSubscription(q)
      <3> DEFINE row == [s \in DOMAIN subs |->
                 [subs[s] EXCEPT !.status = "active", !.next = NextBillingDate(now)]]
      <3>1. \A s \in DOMAIN subs : row[s] \in SubRow
        BY <2>1 DEF TypeOK, TableTypes, SubRow, SubStatus
      <3>2. LoadAndModify(q, row)
        BY <2>3 DEF ResumeSubscription
      <3> HIDE DEF row
      <3> QED  BY <1>2, <3>1, <3>2
    <2>4. CASE CancelSubscription(q)
      <3> DEFINE row == [s \in DOMAIN subs |-> [subs[s] EXCEPT !.status = "cancelled"]]
      <3>1. \A s \in DOMAIN subs : row[s] \in SubRow
        BY DEF TypeOK, TableTypes, SubRow, SubStatus
      <3>2. LoadAndModify(q, row)
        BY <2>4 DEF CancelSubscription
      <3> HIDE DEF row
      <3> QED  BY <1>2, <3>1, <3>2
    <2> QED
      BY <1>10, <2>2, <2>3, <2>4
  <1>3. CASE InsertSubscription(q)
    <2>1. mem[q] \in Memory /\ mem[q].sub \in SubRow /\ mem[q].s \in Subs
      BY <1>3 DEF InsertSubscription, TypeOK, ProcessTypes, Memory
    <2>2. AdvanceInMemory(mem[q]) \in Memory /\ AdvanceInMemory(mem[q]).s = mem[q].s
      BY <2>1, AdvanceKeepsMemory
    <2> QED
      BY <1>0, <1>3, <2>1, <2>2
         DEF InsertSubscription, TypeOK, TableTypes, ProcessTypes,
             BillsKnownRows, Goto, Remember, Procs
  <1>4. CASE SaveNextBillingDate(q)
    BY <1>0, <1>4
       DEF SaveNextBillingDate, TypeOK, TableTypes, ProcessTypes,
           BillsKnownRows, Goto, Remember, tables, Procs, Memory
  <1>5. CASE InsertCycle(q)
    BY <1>0, <1>5, InsertCycleTypeOK
  <1>6. CASE LogOpened(q)
    BY <1>0, <1>6, ChildInsertedKeepsMemory
       DEF LogOpened, TypeOK, TableTypes, ProcessTypes,
           BillsKnownRows, Goto, Remember, tables, Procs
  <1>7. CASE SaveSubscription(q)
    BY <1>0, <1>7
       DEF SaveSubscription, TypeOK, TableTypes, ProcessTypes,
           BillsKnownRows, Goto, Remember, tables, Procs, Memory
  <1>8. CASE LogOperation(q)
    BY <1>0, <1>8, ChildInsertedKeepsMemory
       DEF LogOperation, TypeOK, TableTypes, ProcessTypes,
           BillsKnownRows, Goto, Remember, tables, Procs
  <1>9. CASE RequestFails(q)
    BY <1>0, <1>9
       DEF RequestFails, TypeOK, TableTypes, ProcessTypes,
           BillsKnownRows, Goto, Remember, tables, Procs
  <1> QED
    BY <1>1, <1>3, <1>4, <1>5, <1>6, <1>7, <1>8, <1>9, <1>10
       DEF ClientCalls, RequestStep

LEMMA NextTypeOK == TypeOK /\ [Next]_vars => TypeOK'
  <1> SUFFICES ASSUME TypeOK, [Next]_vars PROVE TypeOK'
    OBVIOUS
  <1>1. CASE ClockTick
    BY <1>1 DEF ClockTick, tables, TypeOK, TableTypes, ProcessTypes, BillsKnownRows, Date
  <1>2. CASE Crash
    BY <1>2 DEF Crash, tables, TypeOK, TableTypes, ProcessTypes, Procs,
                RunSteps, RequestSteps
  <1>3. CASE \E r \in Runs : FindDueCycles(r) \/ RunStep(r)
    BY <1>3, RunStepTypeOK
  <1>4. CASE \E q \in Requests : ClientCalls(q) \/ RequestStep(q)
    BY <1>4, RequestStepTypeOK
  <1>5. CASE UNCHANGED vars
    BY <1>5 DEF vars, TypeOK, TableTypes, ProcessTypes, BillsKnownRows
  <1> QED
    BY <1>1, <1>2, <1>3, <1>4, <1>5 DEF Next

\* The tables always hold rows of their type that refer to one another, and
\* every process works on rows that exist, in every environment.
THEOREM TypesCorrect == Spec => []TypeOK
  BY InitTypeOK, NextTypeOK, PTL DEF Spec

------------------------------------------------------------------------------
(***************************************************************************)
(* PaidIfCompleted and RetryBudget in every environment.  The tables alone *)
(* are not inductive: a save writes the copy a run holds, so the copies in *)
(* memory must satisfy the same facts, however stale they are.             *)
(***************************************************************************)
Sound(row, c) ==
    /\ row.status = "completed" => charges[c] > 0
    /\ row.retry <= MaxRetries
    /\ row.status = "failed" <=> row.retry = MaxRetries

Failing == {"faillog", "failcycle", "failsub"}

BillingInv ==
    /\ TypeOK
    /\ \A c \in DOMAIN cycles : Sound(cycles[c], c)
    /\ \A r \in Runs : \A m \in batch[r] :
          Sound(m.cyc, m.id) /\ m.cyc.status = "pending"
    /\ \A r \in Runs : pc[r] \in RunSteps =>
          /\ Sound(mem[r].cyc, mem[r].id)
          /\ pc[r] \notin Failing => mem[r].cyc.status # "failed"

LEMMA InitBillingInv == Init => BillingInv
  BY InitTypeOK DEF Init, BillingInv, RunSteps, Sound, Procs

LEMMA BillingInvProperties == BillingInv => PaidIfCompleted /\ RetryBudget
  BY DEF BillingInv, Sound, PaidIfCompleted, RetryBudget

\* A step that leaves the cycles and the ledger alone and moves no run into the
\* middle of a cycle keeps the invariant.
LEMMA QuietStepKeepsInv ==
    ASSUME BillingInv, TypeOK', UNCHANGED <<cycles, charges>>,
           \A r \in Runs : batch'[r] \subseteq batch[r],
           \A r \in Runs : pc'[r] \in RunSteps =>
              /\ pc[r] \in RunSteps
              /\ mem'[r].id = mem[r].id
              /\ mem'[r].cyc = mem[r].cyc
              /\ pc[r] \in Failing => pc'[r] \in Failing
    PROVE  BillingInv'
  <1>1. (\A c \in DOMAIN cycles : Sound(cycles[c], c))'
    BY DEF BillingInv, Sound
  <1>2. (\A r \in Runs : \A m \in batch[r] :
           Sound(m.cyc, m.id) /\ m.cyc.status = "pending")'
    BY DEF BillingInv, Sound
  <1>3. (\A r \in Runs : pc[r] \in RunSteps =>
           /\ Sound(mem[r].cyc, mem[r].id)
           /\ pc[r] \notin Failing => mem[r].cyc.status # "failed")'
    BY DEF BillingInv, Sound
  <1> QED
    BY <1>1, <1>2, <1>3 DEF BillingInv

\* handlePaymentFailure keeps a copy sound.
LEMMA FailKeepsSound ==
    ASSUME NEW m \in Memory, now \in Date, Sound(m.cyc, m.id),
           m.cyc.status # "failed"
    PROVE  Sound(FailInMemory(m).cyc, m.id)
  <1>1. m.cyc.retry \in Nat /\ MaxRetries \in Nat
    BY BillingAssumption DEF BillingAssumption, Memory, CycleRow
  <1>2. m.cyc.retry < MaxRetries
    BY <1>1 DEF Sound
  <1>3. /\ FailInMemory(m).cyc.retry = m.cyc.retry + 1
        /\ FailInMemory(m).cyc.status = StatusAfterFailure(m.cyc.retry + 1)
    BY FailKeepsMemory
  <1> QED
    BY <1>1, <1>2, <1>3 DEF Sound, StatusAfterFailure, AttemptsLeft

\* A step of r that changes no cycle, only lets the ledger grow and leaves r with
\* a sound copy keeps the invariant.
LEMMA PaymentStepKeepsInv ==
    ASSUME BillingInv, TypeOK', NEW r \in Runs,
           UNCHANGED <<cycles, batch>>,
           \A c \in CycleIds : charges'[c] >= charges[c],
           \A x \in Runs \ {r} : pc'[x] = pc[x] /\ mem'[x] = mem[x],
           Sound(mem[r].cyc, mem[r].id)',
           pc'[r] \notin Failing => mem'[r].cyc.status # "failed"
    PROVE  BillingInv'
  <1>1. charges \in [CycleIds -> Nat] /\ charges' \in [CycleIds -> Nat]
    BY DEF BillingInv, TypeOK, TableTypes
  <1>3. /\ \A c \in DOMAIN cycles : c \in CycleIds
        /\ \A x \in Runs : \A m \in batch[x] : m.id \in CycleIds
        /\ \A x \in Runs : pc[x] \in RunSteps => mem[x].id \in CycleIds
    BY DEF BillingInv, TypeOK, TableTypes, ProcessTypes, BillsKnownRows
  <1>4. (\A c \in DOMAIN cycles : Sound(cycles[c], c))'
    BY <1>1, <1>3 DEF BillingInv, Sound
  <1>5. (\A x \in Runs : \A m \in batch[x] :
           Sound(m.cyc, m.id) /\ m.cyc.status = "pending")'
    BY <1>1, <1>3 DEF BillingInv, Sound
  <1>6. \A x \in Runs \ {r} : pc'[x] \in RunSteps =>
           /\ Sound(mem[x].cyc, mem[x].id)'
           /\ pc'[x] \notin Failing => mem'[x].cyc.status # "failed"
    BY <1>1, <1>3 DEF BillingInv, Sound
  <1> QED
    BY <1>4, <1>5, <1>6 DEF BillingInv

LEMMA InsertCycleBillingInv ==
    ASSUME BillingInv, NEW p \in Procs, InsertCycle(p)
    PROVE  BillingInv'
  <1>1. TypeOK /\ TypeOK'
    BY InsertCycleTypeOK DEF BillingInv
  <1>2. PICK c \in FreeIds :
          cycles' = [x \in DOMAIN cycles \cup {c} |->
                       IF x = c THEN NewCycle(mem[p].s, mem[p].due) ELSE cycles[x]]
    BY DEF InsertCycle
  <1>3. c \notin DOMAIN cycles
    BY DEF FreeIds
  <1>4. Sound(NewCycle(mem[p].s, mem[p].due), c)
    BY BillingAssumption DEF BillingAssumption, Sound, NewCycle
  <1>5. UNCHANGED <<charges, batch>> /\ mem' = ChildInserted(mem, mem[p].s)
    BY DEF InsertCycle
  <1>6. (\A x \in DOMAIN cycles : Sound(cycles[x], x))'
    BY <1>2, <1>3, <1>4, <1>5 DEF BillingInv, Sound
  <1>7. pc[p] = "open" /\ pc' = [pc EXCEPT ![p] = "log"]
    BY DEF InsertCycle, Goto
  <1>8. \A r \in Runs : /\ pc'[r] \in RunSteps => pc[r] \in RunSteps
                        /\ pc[r] \in Failing => pc'[r] \in Failing
                        /\ mem'[r] = mem[r]
    BY <1>1, <1>5, <1>7, ChildInsertedKeepsMemory
       DEF TypeOK, ProcessTypes, RunSteps, Failing
  <1> QED
    BY <1>1, <1>5, <1>6, <1>8 DEF BillingInv, Sound

LEMMA RunStepBillingInv ==
    ASSUME BillingInv, NEW r \in Runs, RunStep(r) \/ FindDueCycles(r)
    PROVE  BillingInv'
  <1>0. /\ r \in Procs /\ Runs \subseteq Procs /\ TypeOK /\ TypeOK'
        /\ pc \in [Procs -> RunSteps \cup RequestSteps \cup {"idle", "pick"}]
        /\ DOMAIN mem = Procs /\ DOMAIN batch = Runs
    BY RunStepTypeOK DEF BillingInv, Procs, TypeOK, ProcessTypes
  <1>1. CASE FindDueCycles(r)
    <2>1. \A m \in batch'[r] : m.id \in DOMAIN cycles /\ m.cyc = cycles[m.id]
                                /\ m.cyc.status = "pending"
      BY <1>0, <1>1 DEF FindDueCycles, Due
    <2> QED
      BY <1>0, <1>1, <2>1
         DEF FindDueCycles, BillingInv, Sound, Goto, tables, RunSteps, Failing
  <1>2. CASE PickCycle(r)
    <2>1. PICK m \in batch[r] :
            /\ mem' = [mem EXCEPT ![r] = [m EXCEPT !.cyc.status = "processing"]]
            /\ batch' = [batch EXCEPT ![r] = @ \ {m}]
      BY <1>2 DEF PickCycle, Remember
    <2>2. m \in Memory /\ Sound(m.cyc, m.id) /\ m.cyc.status = "pending"
      BY DEF BillingInv, TypeOK, ProcessTypes, BillsKnownRows
    <2>3. /\ mem'[r].id = m.id
          /\ mem'[r].cyc.status = "processing"
          /\ mem'[r].cyc.retry = m.cyc.retry
      BY <1>0, <2>1, <2>2 DEF Memory, CycleRow
    <2>4. UNCHANGED <<cycles, charges>> /\ pc' = [pc EXCEPT ![r] = "claim"]
      BY <1>2 DEF PickCycle, Goto, tables
    <2> QED
      BY <1>0, <2>1, <2>2, <2>3, <2>4 DEF BillingInv, Sound, Failing
  <1>3. CASE SaveClaim(r) \/ SaveCompleted(r) \/ SaveFailedCycle(r)
    <2>1. /\ pc[r] \in RunSteps
          /\ cycles' = [cycles EXCEPT ![mem[r].id] = mem[r].cyc]
          /\ UNCHANGED <<charges, batch>>
          /\ pc' = [pc EXCEPT ![r] = IF pc[r] = "claim" THEN "pay"
                                     ELSE IF pc[r] = "complete" THEN "advance"
                                     ELSE "failsub"]
          /\ pc[r] \in {"claim", "complete", "failcycle"}
      BY <1>3 DEF SaveClaim, SaveCompleted, SaveFailedCycle, Goto, RunSteps
    <2>2. mem[r] \in Memory
      BY <2>1 DEF BillingInv, TypeOK, ProcessTypes, BillsKnownRows
    <2>3. /\ mem'[r].id = mem[r].id /\ mem'[r].cyc = mem[r].cyc
          /\ \A x \in Runs \ {r} : mem'[x] = mem[x]
      <3>1. mem' = mem \/ mem' = [mem EXCEPT ![r] = AdvanceInMemory(mem[r])]
        BY <1>3 DEF SaveClaim, SaveCompleted, SaveFailedCycle, Remember
      <3>2. /\ AdvanceInMemory(mem[r]).id = mem[r].id
            /\ AdvanceInMemory(mem[r]).cyc = mem[r].cyc
        BY <2>2, AdvanceKeepsMemory
      <3> QED
        BY <1>0, <3>1, <3>2
    <2>4. (\A c \in DOMAIN cycles : Sound(cycles[c], c))'
      BY <2>1 DEF BillingInv, Sound
    <2>5. \A x \in Runs : /\ pc'[x] \in RunSteps => pc[x] \in RunSteps
                          /\ pc[x] \in Failing => pc'[x] \in Failing
      BY <1>0, <2>1 DEF Failing
    <2>6. \A x \in Runs : mem'[x].id = mem[x].id /\ mem'[x].cyc = mem[x].cyc
      BY <2>3
    <2> QED
      BY <1>0, <2>1, <2>4, <2>5, <2>6 DEF BillingInv, Sound
  <1>4. CASE PaymentAccepted(r)
    <2>1. /\ pc[r] = "pay"
          /\ pc' = [pc EXCEPT ![r] = "complete"]
          /\ charges' = [charges EXCEPT ![mem[r].id] = @ + 1]
          /\ mem' = [mem EXCEPT ![r] = [mem[r] EXCEPT !.cyc.status = "completed"]]
          /\ UNCHANGED <<cycles, batch>>
      BY <1>4 DEF PaymentAccepted, Charge, Goto, Remember
    <2>2. mem[r] \in Memory /\ mem[r].id \in CycleIds
      BY <2>1 DEF BillingInv, TypeOK, TableTypes, ProcessTypes, BillsKnownRows, RunSteps
    <2>3. /\ mem'[r].id = mem[r].id
          /\ mem'[r].cyc.status = "completed"
          /\ mem'[r].cyc.retry = mem[r].cyc.retry
      BY <1>0, <2>1, <2>2 DEF Memory, CycleRow
    <2>4. charges'[mem[r].id] > 0 /\ \A c \in CycleIds : charges'[c] >= charges[c]
      BY <1>0, <2>1, <2>2 DEF TypeOK, TableTypes
    <2>5. Sound(mem[r].cyc, mem[r].id) /\ mem[r].cyc.status # "failed"
      BY <2>1 DEF BillingInv, RunSteps, Failing
    <2>6. Sound(mem[r].cyc, mem[r].id)'
      BY <2>3, <2>4, <2>5, BillingAssumption DEF BillingAssumption, Sound
    <2>7. \A x \in Runs \ {r} : pc'[x] = pc[x] /\ mem'[x] = mem[x]
      BY <1>0, <2>1
    <2> QED
      BY <1>0, <2>1, <2>3, <2>4, <2>6, <2>7, PaymentStepKeepsInv DEF BillingInv
  <1>5. CASE PaymentRejected(r) \/ PaymentAnswerLost(r) \/ BillingSaveFails(r)
    <2>1. /\ pc[r] \in RunSteps \ Failing
          /\ pc' = [pc EXCEPT ![r] = "faillog"]
          /\ charges' = charges \/ charges' = [charges EXCEPT ![mem[r].id] = @ + 1]
          /\ mem' = [mem EXCEPT ![r] = FailInMemory(mem[r])]
          /\ UNCHANGED <<cycles, batch>>
      BY <1>5 DEF PaymentRejected, PaymentAnswerLost, BillingSaveFails, Charge,
                  Goto, Remember, tables, RunSteps, Failing
    <2>2. mem[r] \in Memory /\ now \in Date
      BY <2>1 DEF BillingInv, TypeOK, TableTypes, ProcessTypes, BillsKnownRows
    <2>3. \A c \in CycleIds : charges'[c] >= charges[c]
      BY <1>0, <2>1 DEF TypeOK, TableTypes
    <2>4. Sound(FailInMemory(mem[r]).cyc, mem[r].id)
      BY <2>1, <2>2, FailKeepsSound DEF BillingInv
    <2>5. FailInMemory(mem[r]).cyc.status # "completed"
      BY <2>2, FailKeepsMemory DEF StatusAfterFailure
    <2>6. mem'[r] = FailInMemory(mem[r]) /\ mem'[r].id = mem[r].id
      BY <1>0, <2>1, <2>2, FailKeepsMemory
    <2>7. Sound(mem[r].cyc, mem[r].id)'
      BY <2>4, <2>5, <2>6 DEF Sound
    <2>8. \A x \in Runs \ {r} : pc'[x] = pc[x] /\ mem'[x] = mem[x]
      BY <1>0, <2>1
    <2>9. pc'[r] \in Failing
      BY <1>0, <2>1 DEF Failing
    <2> QED
      BY <1>0, <2>1, <2>3, <2>7, <2>8, <2>9, PaymentStepKeepsInv DEF BillingInv
  <1>6. CASE InsertCycle(r)
    BY <1>0, <1>6, InsertCycleBillingInv
  <1>7. CASE \/ EndRun(r) \/ SaveNextBillingDate(r) \/ LogOpened(r)
             \/ LogFailure(r) \/ SaveFailedSubscription(r)
             \/ FailureSaveFails(r) \/ NotificationFails(r)
    <2>1. UNCHANGED <<cycles, charges>> /\ \A x \in Runs : batch'[x] \subseteq batch[x]
      BY <1>0, <1>7 DEF EndRun, SaveNextBillingDate, LogOpened, LogFailure,
         SaveFailedSubscription, FailureSaveFails, NotificationFails, tables
    <2>2. \A x \in Runs : pc'[x] \in RunSteps =>
             /\ pc[x] \in RunSteps
             /\ mem'[x].id = mem[x].id
             /\ mem'[x].cyc = mem[x].cyc
             /\ pc[x] \in Failing => pc'[x] \in Failing
      <3>1. CASE \/ EndRun(r) \/ SaveNextBillingDate(r)
                 \/ SaveFailedSubscription(r) \/ FailureSaveFails(r)
        BY <1>0, <3>1 DEF EndRun, SaveNextBillingDate, SaveFailedSubscription,
           FailureSaveFails, Goto, Remember, RunSteps, Failing
      <3>2. CASE LogOpened(r) \/ LogFailure(r) \/ NotificationFails(r)
        <4>1. /\ \A x \in Runs \ {r} : pc'[x] = pc[x] /\ mem'[x] = mem[x]
              /\ pc'[r] \in RunSteps => mem'[r] = mem[r]
          BY <1>0, <3>2, ChildInsertedKeepsMemory
             DEF LogOpened, LogFailure, NotificationFails, Goto, RunSteps
        <4>2. pc'[r] \in RunSteps => pc[r] \in Failing /\ pc'[r] \in Failing
          BY <1>0, <3>2
             DEF LogOpened, LogFailure, NotificationFails, Goto, RunSteps, Failing
        <4> QED
          BY <4>1, <4>2 DEF RunSteps, Failing
      <3> QED
        BY <1>7, <3>1, <3>2
    <2> QED
      BY <1>0, <2>1, <2>2, QuietStepKeepsInv
  <1> QED
    BY <1>1, <1>2, <1>3, <1>4, <1>5, <1>6, <1>7 DEF RunStep

LEMMA RequestStepBillingInv ==
    ASSUME BillingInv, NEW q \in Requests, ClientCalls(q) \/ RequestStep(q)
    PROVE  BillingInv'
  <1>0. /\ q \in Procs /\ q \notin Runs /\ Runs \subseteq Procs /\ TypeOK /\ TypeOK'
        /\ pc \in [Procs -> RunSteps \cup RequestSteps \cup {"idle", "pick"}]
        /\ DOMAIN mem = Procs /\ DOMAIN batch = Runs
    BY RequestStepTypeOK, BillingAssumption
       DEF BillingAssumption, BillingInv, Procs, TypeOK, ProcessTypes
  <1>1. CASE InsertCycle(q)
    BY <1>0, <1>1, InsertCycleBillingInv
  <1>2. CASE ~ InsertCycle(q)
    <2>1. UNCHANGED <<cycles, charges, batch>>
      BY <1>2 DEF ClientCalls, RequestStep, CreateSubscription, PauseSubscription,
         ResumeSubscription, CancelSubscription, LoadAndModify, InsertSubscription,
         SaveNextBillingDate, LogOpened, SaveSubscription, LogOperation,
         RequestFails, tables
    <2>2. \A x \in Runs : pc'[x] = pc[x]
      BY <1>0, <1>2
         DEF ClientCalls, RequestStep, CreateSubscription, PauseSubscription,
             ResumeSubscription, CancelSubscription, LoadAndModify,
             InsertSubscription, SaveNextBillingDate, LogOpened,
             SaveSubscription, LogOperation, RequestFails, Goto
    <2>3. \A x \in Runs : mem'[x] = mem[x]
      <3>1. CASE LogOpened(q) \/ LogOperation(q)
        BY <1>0, <3>1, ChildInsertedKeepsMemory DEF LogOpened, LogOperation
      <3>2. CASE ~ (LogOpened(q) \/ LogOperation(q))
        BY <1>0, <1>2, <3>2
           DEF ClientCalls, RequestStep, CreateSubscription, PauseSubscription,
               ResumeSubscription, CancelSubscription, LoadAndModify,
               InsertSubscription, SaveNextBillingDate, SaveSubscription,
               RequestFails, Remember
      <3> QED
        BY <3>1, <3>2
    <2> QED
      BY <1>0, <2>1, <2>2, <2>3, QuietStepKeepsInv
  <1> QED
    BY <1>1, <1>2

LEMMA NextBillingInv == BillingInv /\ [Next]_vars => BillingInv'
  <1> SUFFICES ASSUME BillingInv, [Next]_vars PROVE BillingInv'
    OBVIOUS
  <1>0. TypeOK /\ TypeOK' /\ Runs \subseteq Procs
    BY NextTypeOK DEF BillingInv, Procs
  <1>1. CASE ClockTick \/ UNCHANGED vars
    BY <1>0, <1>1, QuietStepKeepsInv DEF ClockTick, tables, vars
  <1>2. CASE Crash
    BY <1>0, <1>2, QuietStepKeepsInv DEF Crash, tables, RunSteps
  <1>3. CASE \E r \in Runs : FindDueCycles(r) \/ RunStep(r)
    BY <1>3, RunStepBillingInv
  <1>4. CASE \E q \in Requests : ClientCalls(q) \/ RequestStep(q)
    BY <1>4, RequestStepBillingInv
  <1> QED
    BY <1>1, <1>2, <1>3, <1>4 DEF Next

\* However runs overlap, saves fail, answers get lost and the server restarts, a
\* cycle is stored as COMPLETED only after its payment reached the ledger.
THEOREM CompletedIsPaid == Spec => []PaidIfCompleted
  <1>1. Spec => []BillingInv
    BY InitBillingInv, NextBillingInv, PTL DEF Spec
  <1> QED
    BY <1>1, BillingInvProperties, PTL

\* In every environment a cycle is given up exactly when its retry budget is
\* used up, and never retried beyond it.
THEOREM RetriesBounded == Spec => []RetryBudget
  <1>1. Spec => []BillingInv
    BY InitBillingInv, NextBillingInv, PTL DEF Spec
  <1> QED
    BY <1>1, BillingInvProperties, PTL

------------------------------------------------------------------------------
(***************************************************************************)
(* ChargesWithinRetries and GaveUpForGood while runs do not overlap, with  *)
(* every kind of fault.  The attempts recorded in a row or in the copy a   *)
(* run holds account for the payments on the ledger; a payment is only     *)
(* executed while the table shows the cycle as PROCESSING.                 *)
(***************************************************************************)
OneRun == \A r, x \in Runs : r = x

\* Steps at which the attempt in progress may have been charged already.
Charged == {"complete", "advance", "open", "log"}

LedgerCounted ==
    /\ \A c \in CycleIds \ DOMAIN cycles : charges[c] = 0
    /\ \A c \in DOMAIN cycles :
          /\ charges[c] <= MaxRetries
          /\ cycles[c].status = "pending" => charges[c] <= cycles[c].retry

BatchCounted ==
    \A r \in Runs : \A m \in batch[r] :
        /\ charges[m.id] <= m.cyc.retry
        /\ cycles[m.id].status = "pending"
        /\ pc[r] \in RunSteps => mem[r].id # m.id
        /\ \A k \in batch[r] : k.id = m.id => k = m

CopyCounted ==
    \A r \in Runs : pc[r] \in RunSteps =>
        /\ charges[mem[r].id] <= mem[r].cyc.retry + (IF pc[r] \in Charged THEN 1 ELSE 0)
        /\ pc[r] \in {"claim", "pay"} => mem[r].cyc.status = "processing"
        /\ pc[r] \in Charged => mem[r].cyc.status = "completed"
        /\ pc[r] = "claim" => cycles[mem[r].id].status = "pending"
        /\ pc[r] \in {"pay", "complete"} => cycles[mem[r].id].status = "processing"
        /\ pc[r] # "failsub" => cycles[mem[r].id].status # "failed"

ChargesInv == BillingInv /\ LedgerCounted /\ BatchCounted /\ CopyCounted

LEMMA InitChargesInv == Init => ChargesInv
  BY InitBillingInv, BillingAssumption
     DEF BillingAssumption, Init, ChargesInv, LedgerCounted, BatchCounted,
         CopyCounted, RunSteps, Procs

LEMMA ChargesInvProperty == ChargesInv => ChargesWithinRetries
  BY DEF ChargesInv, LedgerCounted, ChargesWithinRetries

\* A step that leaves tables and ledger alone and moves no run into a cycle or
\* from one of the groups of steps above to another keeps the invariant.
LEMMA QuietStepKeepsCharges ==
    ASSUME ChargesInv, BillingInv', UNCHANGED <<cycles, charges>>,
           \A r \in Runs : batch'[r] \subseteq batch[r],
           \A r \in Runs : pc'[r] \in RunSteps =>
              /\ pc[r] \in RunSteps
              /\ mem'[r].id = mem[r].id
              /\ mem'[r].cyc = mem[r].cyc
              /\ \/ pc'[r] = pc[r]
                 \/ pc[r] \in Charged /\ pc'[r] \in {"open", "log"}
                 \/ pc[r] \in Failing /\ pc'[r] = "failcycle" /\ pc[r] # "failsub"
    PROVE  ChargesInv'
  <1>1. LedgerCounted'
    BY DEF ChargesInv, LedgerCounted
  <1>2. BatchCounted'
    BY DEF ChargesInv, BatchCounted
  <1>3. CopyCounted'
    BY DEF ChargesInv, CopyCounted, Charged, Failing
  <1> QED
    BY <1>1, <1>2, <1>3 DEF ChargesInv

LEMMA InsertCycleKeepsCharges ==
    ASSUME ChargesInv, NEW p \in Procs, InsertCycle(p)
    PROVE  ChargesInv'
  <1>0. BillingInv /\ BillingInv' /\ TypeOK /\ TypeOK'
    BY InsertCycleBillingInv DEF ChargesInv, BillingInv
  <1>1. PICK c \in FreeIds :
          cycles' = [x \in DOMAIN cycles \cup {c} |->
                       IF x = c THEN NewCycle(mem[p].s, mem[p].due) ELSE cycles[x]]
    BY DEF InsertCycle
  <1>2. c \in CycleIds /\ c \notin DOMAIN cycles
    BY DEF FreeIds
  <1>3. /\ DOMAIN cycles' = DOMAIN cycles \cup {c}
        /\ cycles'[c] = NewCycle(mem[p].s, mem[p].due)
        /\ \A x \in DOMAIN cycles : cycles'[x] = cycles[x]
    BY <1>1, <1>2
  <1>4. UNCHANGED <<charges, batch>> /\ mem' = ChildInserted(mem, mem[p].s)
    BY DEF InsertCycle
  <1>5. pc[p] = "open" /\ pc' = [pc EXCEPT ![p] = "log"]
    BY DEF InsertCycle, Goto
  <1>6. /\ \A r \in Runs : mem'[r] = mem[r] /\ r \in Procs
        /\ pc \in [Procs -> RunSteps \cup RequestSteps \cup {"idle", "pick"}]
    BY <1>0, <1>4, ChildInsertedKeepsMemory DEF TypeOK, ProcessTypes, Procs
  <1>7. /\ \A r \in Runs : \A m \in batch[r] : m.id \in DOMAIN cycles
        /\ \A r \in Runs : pc[r] \in RunSteps => mem[r].id \in DOMAIN cycles
    BY <1>0 DEF TypeOK, ProcessTypes, BillsKnownRows
  <1>8. LedgerCounted'
    BY <1>2, <1>3, <1>4, BillingAssumption
       DEF BillingAssumption, ChargesInv, LedgerCounted, NewCycle
  <1>9. \A r \in Runs : pc'[r] \in RunSteps =>
          pc[r] \in RunSteps /\ (pc'[r] = pc[r] \/ (pc[r] = "open" /\ pc'[r] = "log"))
    BY <1>5, <1>6 DEF RunSteps
  <1>10. BatchCounted'
    BY <1>3, <1>4, <1>6, <1>7, <1>9 DEF ChargesInv, BatchCounted
  <1>11. CopyCounted'
    BY <1>3, <1>4, <1>6, <1>7, <1>9 DEF ChargesInv, CopyCounted, Charged
  <1> QED
    BY <1>0, <1>8, <1>10, <1>11 DEF ChargesInv

LEMMA RunStepKeepsCharges ==
    ASSUME OneRun, ChargesInv, NEW r \in Runs, RunStep(r) \/ FindDueCycles(r)
    PROVE  ChargesInv'
  <1>0. /\ BillingInv /\ BillingInv' /\ TypeOK /\ TypeOK'
        /\ r \in Procs /\ \A x \in Runs : x = r
        /\ pc \in [Procs -> RunSteps \cup RequestSteps \cup {"idle", "pick"}]
        /\ DOMAIN mem = Procs /\ DOMAIN batch = Runs
        /\ charges \in [CycleIds -> Nat] /\ DOMAIN cycles \subseteq CycleIds
        /\ \A c \in DOMAIN cycles : cycles[c].retry \in Nat
        /\ MaxRetries \in Nat
    BY RunStepBillingInv, BillingAssumption
       DEF BillingAssumption, ChargesInv, BillingInv, Procs, OneRun, TypeOK,
           TableTypes, ProcessTypes, CycleRow
  <1>00. pc[r] \in RunSteps =>
           /\ mem[r] \in Memory /\ mem[r].id \in DOMAIN cycles
           /\ mem[r].cyc.retry \in Nat
           /\ Sound(mem[r].cyc, mem[r].id)
           /\ pc[r] \notin Failing => mem[r].cyc.status # "failed"
    BY <1>0 DEF BillingInv, TypeOK, ProcessTypes, BillsKnownRows, Memory, CycleRow
  <1>1. CASE FindDueCycles(r)
    <2>1. /\ \A m \in batch'[r] : m.id \in DOMAIN cycles /\ m.cyc = cycles[m.id]
                                  /\ m.cyc.status = "pending"
          /\ \A m, k \in batch'[r] : m.id = k.id => m = k
      <3> DEFINE e(c) == [id |-> c, cyc |-> cycles[c], s |-> cycles[c].sub,
                          sub |-> subs[cycles[c].sub], due |-> NoDate, fresh |-> TRUE]
      <3>1. batch'[r] = {e(c) : c \in {d \in DOMAIN cycles : Due(d)}}
        BY <1>0, <1>1 DEF FindDueCycles
      <3>2. \A c : e(c).id = c /\ e(c).cyc = cycles[c]
        OBVIOUS
      <3> HIDE DEF e
      <3> QED
        BY <3>1, <3>2 DEF Due
    <2>2. pc'[r] = "pick" /\ UNCHANGED <<cycles, charges>>
      BY <1>0, <1>1 DEF FindDueCycles, Goto, tables
    <2>3. LedgerCounted'
      BY <2>2 DEF ChargesInv, LedgerCounted
    <2>4. BatchCounted'
      BY <1>0, <2>1, <2>2 DEF ChargesInv, LedgerCounted, BatchCounted, RunSteps
    <2>5. CopyCounted'
      BY <1>0, <2>2 DEF CopyCounted, RunSteps
    <2> QED
      BY <1>0, <2>3, <2>4, <2>5 DEF ChargesInv
  <1>2. CASE PickCycle(r)
    <2>1. PICK m \in batch[r] :
            /\ mem' = [mem EXCEPT ![r] = [m EXCEPT !.cyc.status = "processing"]]
            /\ batch' = [batch EXCEPT ![r] = @ \ {m}]
      BY <1>2 DEF PickCycle, Remember
    <2>2. m \in Memory /\ m.id \in DOMAIN cycles
      BY <1>0 DEF TypeOK, ProcessTypes, BillsKnownRows
    <2>3. /\ mem'[r].id = m.id
          /\ mem'[r].cyc.status = "processing"
          /\ mem'[r].cyc.retry = m.cyc.retry
          /\ m.cyc.retry \in Nat
      BY <1>0, <2>1, <2>2 DEF Memory, CycleRow
    <2>4. UNCHANGED <<cycles, charges>> /\ pc'[r] = "claim" /\ pc[r] = "pick"
      BY <1>0, <1>2 DEF PickCycle, Goto, tables
    <2>5. LedgerCounted'
      BY <2>4 DEF ChargesInv, LedgerCounted
    <2>6. /\ batch'[r] \subseteq batch[r]
          /\ \A k \in batch'[r] : k.id # m.id
      BY <1>0, <2>1 DEF ChargesInv, BatchCounted
    <2>7. BatchCounted'
      BY <1>0, <2>3, <2>4, <2>6 DEF ChargesInv, BatchCounted
    <2>8. CopyCounted'
      BY <1>0, <2>3, <2>4 DEF ChargesInv, BatchCounted, CopyCounted, Charged
    <2> QED
      BY <1>0, <2>5, <2>7, <2>8 DEF ChargesInv
  <1>3. CASE SaveClaim(r) \/ SaveCompleted(r) \/ SaveFailedCycle(r)
    <2>1. /\ pc[r] \in RunSteps
          /\ cycles' = [cycles EXCEPT ![mem[r].id] = mem[r].cyc]
          /\ UNCHANGED <<charges, batch>>
          /\ \/ pc[r] = "claim" /\ pc'[r] = "pay"
             \/ pc[r] = "complete" /\ pc'[r] = "advance"
             \/ pc[r] = "failcycle" /\ pc'[r] = "failsub"
      BY <1>0, <1>3 DEF SaveClaim, SaveCompleted, SaveFailedCycle, Goto, RunSteps
    <2>2. /\ mem'[r].id = mem[r].id /\ mem'[r].cyc = mem[r].cyc
      <3>1. mem' = mem \/ mem' = [mem EXCEPT ![r] = AdvanceInMemory(mem[r])]
        BY <1>3 DEF SaveClaim, SaveCompleted, SaveFailedCycle, Remember
      <3>2. /\ AdvanceInMemory(mem[r]).id = mem[r].id
            /\ AdvanceInMemory(mem[r]).cyc = mem[r].cyc
        BY <1>00, <2>1, AdvanceKeepsMemory
      <3> QED
        BY <1>0, <3>1, <3>2
    <2>3. /\ DOMAIN cycles' = DOMAIN cycles
          /\ cycles'[mem[r].id] = mem[r].cyc
          /\ \A c \in DOMAIN cycles \ {mem[r].id} : cycles'[c] = cycles[c]
      BY <1>00, <2>1
    <2>4. mem[r].cyc.status = "pending" => charges[mem[r].id] <= mem[r].cyc.retry
      BY <1>0, <1>00, <2>1 DEF ChargesInv, CopyCounted, Charged
    <2>5. LedgerCounted'
      BY <2>1, <2>3, <2>4 DEF ChargesInv, LedgerCounted
    <2>6. BatchCounted'
      BY <1>0, <2>1, <2>2, <2>3 DEF ChargesInv, BatchCounted, RunSteps
    <2>7. CopyCounted'
      BY <1>0, <1>00, <2>1, <2>2, <2>3 DEF ChargesInv, CopyCounted, Charged, Failing, RunSteps
    <2> QED
      BY <1>0, <2>5, <2>6, <2>7 DEF ChargesInv
  <1>4. CASE PaymentAccepted(r)
    <2>1. /\ pc[r] = "pay" /\ pc'[r] = "complete"
          /\ charges' = [charges EXCEPT ![mem[r].id] = @ + 1]
          /\ mem'[r] = [mem[r] EXCEPT !.cyc.status = "completed"]
          /\ UNCHANGED <<cycles, batch>>
      BY <1>0, <1>4 DEF PaymentAccepted, Charge, Goto, Remember
    <2>2. /\ mem'[r].id = mem[r].id
          /\ mem'[r].cyc.status = "completed"
          /\ mem'[r].cyc.retry = mem[r].cyc.retry
      BY <1>00, <2>1 DEF Memory, CycleRow, RunSteps
    <2> DEFINE c == mem[r].id
    <2>3. /\ c \in DOMAIN cycles /\ charges[c] <= mem[r].cyc.retry
          /\ mem[r].cyc.retry < MaxRetries /\ mem[r].cyc.retry \in Nat
          /\ cycles[c].status = "processing"
      BY <1>0, <1>00, <2>1
         DEF ChargesInv, CopyCounted, Sound, RunSteps, Charged, Failing
    <2>4. /\ charges'[c] = charges[c] + 1 /\ charges[c] \in Nat
          /\ charges'[c] <= MaxRetries
          /\ \A x \in CycleIds \ {c} : charges'[x] = charges[x]
      BY <1>0, <2>1, <2>3
    <2>5. \A x \in Runs : \A m \in batch[x] : m.id \in CycleIds \ {c}
      BY <1>0, <2>1
         DEF ChargesInv, BatchCounted, TypeOK, ProcessTypes, BillsKnownRows, RunSteps
    <2> HIDE DEF c
    <2>6. LedgerCounted'
      <3>1. DOMAIN cycles' = DOMAIN cycles /\ cycles' = cycles
        BY <2>1
      <3>2. \A x \in CycleIds \ DOMAIN cycles : charges'[x] = 0
        BY <2>3, <2>4 DEF ChargesInv, LedgerCounted
      <3>3. \A x \in DOMAIN cycles \ {c} :
              /\ charges'[x] <= MaxRetries
              /\ cycles[x].status = "pending" => charges'[x] <= cycles[x].retry
        BY <1>0, <2>4 DEF ChargesInv, LedgerCounted
      <3> QED
        BY <2>3, <2>4, <3>1, <3>2, <3>3 DEF LedgerCounted
    <2>7. BatchCounted'
      <3>1. batch' = batch /\ cycles' = cycles /\ pc[r] \in RunSteps /\ mem'[r].id = c
        BY <2>1, <2>2 DEF RunSteps, c
      <3>2. \A m \in batch[r] : charges'[m.id] = charges[m.id] /\ m.id # c
        BY <1>0, <2>4, <2>5
      <3> QED
        BY <1>0, <3>1, <3>2 DEF ChargesInv, BatchCounted
    <2>8. CopyCounted'
      <3>1. /\ mem'[r].id = c /\ mem'[r].cyc.status = "completed"
            /\ mem'[r].cyc.retry = mem[r].cyc.retry
            /\ cycles' = cycles /\ pc'[r] = "complete"
        BY <2>1, <2>2 DEF c
      <3>2. charges'[c] <= mem[r].cyc.retry + 1
        BY <2>3, <2>4
      <3> QED
        BY <1>0, <2>3, <3>1, <3>2 DEF CopyCounted, Charged
    <2> QED
      BY <1>0, <2>6, <2>7, <2>8 DEF ChargesInv
  <1>5. CASE PaymentRejected(r) \/ PaymentAnswerLost(r) \/ BillingSaveFails(r)
    <2> DEFINE c == mem[r].id
    <2>1. /\ pc[r] \in RunSteps \ Failing /\ pc'[r] = "faillog"
          /\ \/ charges' = charges
             \/ pc[r] = "pay" /\ charges' = [charges EXCEPT ![c] = @ + 1]
          /\ mem'[r] = FailInMemory(mem[r])
          /\ UNCHANGED <<cycles, batch>>
      BY <1>0, <1>5 DEF PaymentRejected, PaymentAnswerLost, BillingSaveFails,
                        Charge, Goto, Remember, tables, RunSteps, Failing
    <2>2. now \in Date /\ mem[r] \in Memory /\ c \in DOMAIN cycles
      BY <1>0, <1>00, <2>1 DEF TypeOK, TableTypes
    <2>3. mem'[r].id = c /\ mem'[r].cyc.retry = mem[r].cyc.retry + 1
      BY <2>1, <2>2, FailKeepsMemory
    <2>4. /\ charges'[c] \in Nat /\ charges'[c] >= charges[c]
          /\ charges'[c] <= mem[r].cyc.retry + 1
          /\ mem[r].cyc.retry < MaxRetries
      BY <1>0, <1>00, <2>1, <2>2
         DEF ChargesInv, CopyCounted, Sound, RunSteps, Charged
    <2>5. \A x \in CycleIds \ {c} : charges'[x] = charges[x]
      BY <1>0, <2>1
    <2>6. \A x \in Runs : \A m \in batch[x] : m.id \in CycleIds \ {c}
      BY <1>0, <2>1
         DEF ChargesInv, BatchCounted, TypeOK, ProcessTypes, BillsKnownRows
    <2>7. /\ cycles[c].status # "failed"
          /\ charges'[c] = charges[c] \/ cycles[c].status = "processing"
      BY <2>1 DEF ChargesInv, CopyCounted, Failing
    <2> HIDE DEF c
    <2>8. LedgerCounted'
      BY <1>0, <1>00, <2>1, <2>2, <2>4, <2>5, <2>7 DEF ChargesInv, LedgerCounted
    <2>9. BatchCounted'
      BY <1>0, <2>1, <2>3, <2>5, <2>6 DEF ChargesInv, BatchCounted, RunSteps
    <2>10. CopyCounted'
      BY <1>0, <1>00, <2>1, <2>3, <2>4, <2>7 DEF CopyCounted, Charged, RunSteps
    <2> QED
      BY <1>0, <2>8, <2>9, <2>10 DEF ChargesInv
  <1>6. CASE InsertCycle(r)
    BY <1>0, <1>6, InsertCycleKeepsCharges
  <1>7. CASE \/ EndRun(r) \/ SaveNextBillingDate(r) \/ LogOpened(r)
             \/ LogFailure(r) \/ SaveFailedSubscription(r)
             \/ FailureSaveFails(r) \/ NotificationFails(r)
    <2>1. UNCHANGED <<cycles, charges>> /\ batch'[r] \subseteq batch[r]
      BY <1>0, <1>7 DEF EndRun, SaveNextBillingDate, LogOpened, LogFailure,
         SaveFailedSubscription, FailureSaveFails, NotificationFails, tables
    <2>2. CASE SaveNextBillingDate(r) \/ LogFailure(r)
      <3>1. mem'[r] = mem[r] /\ \/ pc[r] = "advance" /\ pc'[r] = "open"
                                \/ pc[r] = "faillog" /\ pc'[r] = "failcycle"
        BY <1>0, <2>2, ChildInsertedKeepsMemory DEF SaveNextBillingDate, LogFailure, Goto
      <3> QED
        BY <1>0, <2>1, <3>1, QuietStepKeepsCharges DEF Charged, Failing, RunSteps
    <2>3. CASE ~ (SaveNextBillingDate(r) \/ LogFailure(r))
      <3>1. pc'[r] \notin RunSteps
        BY <1>0, <1>7, <2>3
           DEF EndRun, LogOpened, SaveFailedSubscription, FailureSaveFails,
               NotificationFails, Goto, RunSteps
      <3> QED
        BY <1>0, <2>1, <3>1, QuietStepKeepsCharges
    <2> QED
      BY <2>2, <2>3
  <1> QED
    BY <1>1, <1>2, <1>3, <1>4, <1>5, <1>6, <1>7 DEF RunStep

LEMMA RequestStepKeepsCharges ==
    ASSUME ChargesInv, NEW q \in Requests, ClientCalls(q) \/ RequestStep(q)
    PROVE  ChargesInv'
  <1>0. /\ q \in Procs /\ q \notin Runs /\ Runs \subseteq Procs
        /\ TypeOK /\ BillingInv'
        /\ pc \in [Procs -> RunSteps \cup RequestSteps \cup {"idle", "pick"}]
        /\ DOMAIN mem = Procs
    BY RequestStepBillingInv, BillingAssumption
       DEF BillingAssumption, ChargesInv, BillingInv, Procs, TypeOK, ProcessTypes
  <1>1. CASE InsertCycle(q)
    BY <1>0, <1>1, InsertCycleKeepsCharges
  <1>2. CASE ~ InsertCycle(q)
    <2>1. UNCHANGED <<cycles, charges, batch>>
      BY <1>2 DEF ClientCalls, RequestStep, CreateSubscription, PauseSubscription,
         ResumeSubscription, CancelSubscription, LoadAndModify, InsertSubscription,
         SaveNextBillingDate, LogOpened, SaveSubscription, LogOperation,
         RequestFails, tables
    <2>2. \A x \in Runs : pc'[x] = pc[x]
      BY <1>0, <1>2
         DEF ClientCalls, RequestStep, CreateSubscription, PauseSubscription,
             ResumeSubscription, CancelSubscription, LoadAndModify,
             InsertSubscription, SaveNextBillingDate, LogOpened,
             SaveSubscription, LogOperation, RequestFails, Goto
    <2>3. \A x \in Runs : mem'[x] = mem[x]
      <3>1. CASE LogOpened(q) \/ LogOperation(q)
        BY <1>0, <3>1, ChildInsertedKeepsMemory DEF LogOpened, LogOperation
      <3>2. CASE ~ (LogOpened(q) \/ LogOperation(q))
        BY <1>0, <1>2, <3>2
           DEF ClientCalls, RequestStep, CreateSubscription, PauseSubscription,
               ResumeSubscription, CancelSubscription, LoadAndModify,
               InsertSubscription, SaveNextBillingDate, SaveSubscription,
               RequestFails, Remember
      <3> QED
        BY <3>1, <3>2
    <2> QED
      BY <1>0, <2>1, <2>2, <2>3, QuietStepKeepsCharges
  <1> QED
    BY <1>1, <1>2

LEMMA NextChargesInv ==
    ASSUME OneRun, ChargesInv, [Next]_vars
    PROVE  ChargesInv'
  <1>0. BillingInv'
    BY NextBillingInv DEF ChargesInv
  <1>1. CASE ClockTick \/ UNCHANGED vars
    BY <1>0, <1>1, QuietStepKeepsCharges DEF ClockTick, tables, vars
  <1>2. CASE Crash
    <2>1. /\ UNCHANGED <<cycles, charges>>
          /\ \A r \in Runs : batch'[r] \subseteq batch[r] /\ pc'[r] \notin RunSteps
      BY <1>2 DEF Crash, tables, RunSteps, Procs
    <2> QED
      BY <1>0, <2>1, QuietStepKeepsCharges
  <1>3. CASE \E r \in Runs : FindDueCycles(r) \/ RunStep(r)
    BY <1>3, RunStepKeepsCharges
  <1>4. CASE \E q \in Requests : ClientCalls(q) \/ RequestStep(q)
    BY <1>4, RequestStepKeepsCharges
  <1> QED
    BY <1>1, <1>2, <1>3, <1>4 DEF Next

\* A row that was given up is not touched, since a run only saves and only
\* charges cycles that the table does not show as FAILED.
LEMMA FailedRowsUntouched ==
    ASSUME OneRun, ChargesInv, Next, NEW c \in DOMAIN cycles,
           cycles[c].status = "failed"
    PROVE  cycles'[c] = cycles[c] /\ charges'[c] = charges[c]
  <1>0. /\ TypeOK /\ c \in CycleIds /\ charges \in [CycleIds -> Nat]
        /\ \A r \in Runs : pc[r] \in RunSteps \ {"failsub"} => mem[r].id # c
    BY DEF ChargesInv, BillingInv, TypeOK, TableTypes, CopyCounted
  <1>1. ASSUME NEW p \in Procs, InsertCycle(p)
        PROVE  cycles'[c] = cycles[c] /\ charges'[c] = charges[c]
    BY <1>1 DEF InsertCycle, FreeIds
  <1>2. CASE ClockTick \/ Crash
    BY <1>2 DEF ClockTick, Crash, tables
  <1>3. ASSUME NEW r \in Runs, RunStep(r) \/ FindDueCycles(r)
        PROVE  cycles'[c] = cycles[c] /\ charges'[c] = charges[c]
    <2>1. CASE SaveClaim(r) \/ SaveCompleted(r) \/ SaveFailedCycle(r)
      BY <1>0, <2>1 DEF SaveClaim, SaveCompleted, SaveFailedCycle, RunSteps
    <2>2. CASE PaymentAccepted(r) \/ PaymentAnswerLost(r)
      BY <1>0, <2>2 DEF PaymentAccepted, PaymentAnswerLost, Charge, RunSteps
    <2>3. CASE InsertCycle(r)
      BY <1>1, <2>3 DEF Procs
    <2>4. CASE \/ FindDueCycles(r) \/ PickCycle(r) \/ EndRun(r)
               \/ PaymentRejected(r) \/ SaveNextBillingDate(r) \/ LogOpened(r)
               \/ LogFailure(r) \/ SaveFailedSubscription(r)
               \/ BillingSaveFails(r) \/ FailureSaveFails(r) \/ NotificationFails(r)
      BY <2>4 DEF FindDueCycles, PickCycle, EndRun, PaymentRejected,
         SaveNextBillingDate, LogOpened, LogFailure, SaveFailedSubscription,
         BillingSaveFails, FailureSaveFails, NotificationFails, tables
    <2> QED
      BY <1>3, <2>1, <2>2, <2>3, <2>4 DEF RunStep
  <1>4. ASSUME NEW q \in Requests, ClientCalls(q) \/ RequestStep(q)
        PROVE  cycles'[c] = cycles[c] /\ charges'[c] = charges[c]
    <2>1. CASE InsertCycle(q)
      BY <1>1, <2>1 DEF Procs
    <2>2. CASE ~ InsertCycle(q)
      BY <1>4, <2>2 DEF ClientCalls, RequestStep, CreateSubscription,
         PauseSubscription, ResumeSubscription, CancelSubscription, LoadAndModify,
         InsertSubscription, SaveNextBillingDate, LogOpened, SaveSubscription,
         LogOperation, RequestFails, tables
    <2> QED
      BY <2>1, <2>2
  <1> QED
    BY <1>2, <1>3, <1>4 DEF Next

LEMMA ChargesInvariant ==
    ASSUME OneRun
    PROVE  Spec => []ChargesInv
  <1>1. Init => ChargesInv
    BY InitChargesInv
  <1>2. ChargesInv /\ [Next]_vars => ChargesInv'
    BY NextChargesInv
  <1> QED
    BY <1>1, <1>2, PTL DEF Spec

\* When scheduler runs do not overlap, no mix of failing saves, lost answers and
\* restarts charges a cycle more often than it may be retried.
THEOREM ChargesBounded ==
    ASSUME OneRun
    PROVE  Spec => []ChargesWithinRetries
  <1>1. Spec => []ChargesInv
    BY ChargesInvariant
  <1> QED
    BY <1>1, ChargesInvProperty, PTL

\* When scheduler runs do not overlap, a cycle that was given up is never
\* rewritten or charged again.
THEOREM DunningIsFinal ==
    ASSUME OneRun
    PROVE  Spec => GaveUpForGood
  <1>1. Spec => []ChargesInv
    BY ChargesInvariant
  <1>2. ChargesInv /\ [Next]_vars =>
          [\A c \in DOMAIN cycles : cycles[c].status = "failed" =>
             cycles'[c] = cycles[c] /\ charges'[c] = charges[c]]_vars
    BY FailedRowsUntouched
  <1> QED
    BY <1>1, <1>2, PTL DEF Spec, GaveUpForGood

(***************************************************************************)
(* OneOpenCycle while runs do not overlap and no save fails: lost answers  *)
(* and restarts may happen at any step.  A subscription has at most one    *)
(* right to a cycle at a time: a cycle still to be paid, or a process that *)
(* is about to open one.                                                   *)
(***************************************************************************)
SavesSucceed == "db" \notin Faults

Opens == {"advance", "open"}

OneOpener ==
    \A p, x \in Procs :
        pc[p] \in Opens /\ pc[x] \in Opens /\ mem[p].s = mem[x].s => p = x

NoneWhileOpening ==
    \A p \in Procs : pc[p] \in Opens =>
        \A c \in DOMAIN cycles : cycles[c].sub = mem[p].s => ~ Outstanding(c)

NewSubscriptions ==
    \A q \in Requests : pc[q] = "insert" =>
        /\ mem[q].s \notin DOMAIN subs
        /\ \A x \in Requests : pc[x] = "insert" /\ mem[x].s = mem[q].s => x = q

FailingClaimed ==
    \A r \in Runs : pc[r] \in {"faillog", "failcycle"} =>
        cycles[mem[r].id].status = "processing"

OpenRights == OneOpenCycle /\ OneOpener /\ NoneWhileOpening
OpenInv == ChargesInv /\ FailingClaimed /\ NewSubscriptions /\ OpenRights

LEMMA InitOpenInv == Init => OpenInv
  BY InitChargesInv
     DEF Init, OpenInv, OpenRights, OneOpenCycle, OneOpener, NoneWhileOpening,
         NewSubscriptions, FailingClaimed, Opens, Procs

\* A step that opens no cycle, reopens none and lets no process begin to open one
\* keeps the rights.
LEMMA NoNewRights ==
    ASSUME OpenRights, DOMAIN cycles' = DOMAIN cycles,
           \A c \in DOMAIN cycles :
              cycles'[c].sub = cycles[c].sub /\ (Outstanding(c)' => Outstanding(c)),
           \A p \in Procs : pc'[p] \in Opens =>
              pc[p] \in Opens /\ mem'[p].s = mem[p].s
    PROVE  OpenRights'
  <1>1. OneOpenCycle'
    BY DEF OpenRights, OneOpenCycle
  <1>2. OneOpener'
    BY DEF OpenRights, OneOpener
  <1>3. NoneWhileOpening'
    BY DEF OpenRights, NoneWhileOpening
  <1> QED
    BY <1>1, <1>2, <1>3 DEF OpenRights

\* A step that inserts no subscription and starts no creation.
LEMMA NoNewSubscription ==
    ASSUME NewSubscriptions, DOMAIN subs' = DOMAIN subs,
           \A q \in Requests : pc'[q] = "insert" =>
              pc[q] = "insert" /\ mem'[q].s = mem[q].s
    PROVE  NewSubscriptions'
  BY DEF NewSubscriptions

LEMMA InsertCycleKeepsOpenInv ==
    ASSUME OpenInv, NEW p \in Procs, InsertCycle(p)
    PROVE  OpenInv'
  <1>0. /\ ChargesInv /\ ChargesInv' /\ TypeOK /\ pc[p] = "open"
        /\ pc' = [pc EXCEPT ![p] = "log"] /\ UNCHANGED subs
        /\ pc \in [Procs -> RunSteps \cup RequestSteps \cup {"idle", "pick"}]
        /\ Procs = Runs \cup Requests
    BY InsertCycleKeepsCharges
       DEF OpenInv, ChargesInv, BillingInv, InsertCycle, Goto, TypeOK, ProcessTypes, Procs
  <1>1. PICK c \in FreeIds :
          cycles' = [x \in DOMAIN cycles \cup {c} |->
                       IF x = c THEN NewCycle(mem[p].s, mem[p].due) ELSE cycles[x]]
    BY DEF InsertCycle
  <1>2. /\ c \notin DOMAIN cycles
        /\ DOMAIN cycles' = DOMAIN cycles \cup {c}
        /\ cycles'[c].sub = mem[p].s
        /\ \A x \in DOMAIN cycles : cycles'[x] = cycles[x]
    BY <1>1 DEF FreeIds, NewCycle
  <1>3. /\ \A r \in Runs : mem'[r] = mem[r]
        /\ \A x \in Requests : pc[x] \in RequestSteps => mem'[x].s = mem[x].s
    BY <1>0, ChildInsertedKeepsMemory DEF InsertCycle, TypeOK, ProcessTypes
  <1>4. \A x \in Procs : pc'[x] \in Opens =>
          x # p /\ pc[x] \in Opens /\ mem'[x].s = mem[x].s
    BY <1>0, <1>3 DEF Opens, RequestSteps
  <1>5. \A x \in DOMAIN cycles : cycles[x].sub = mem[p].s => ~ Outstanding(x)
    BY <1>0 DEF OpenInv, OpenRights, NoneWhileOpening, Opens
  <1>6. OneOpenCycle'
    BY <1>2, <1>5 DEF OpenInv, OpenRights, OneOpenCycle, Outstanding
  <1>7. OneOpener'
    BY <1>4 DEF OpenInv, OpenRights, OneOpener
  <1>8. NoneWhileOpening'
    <2>1. \A x \in Procs : pc'[x] \in Opens => mem'[x].s # mem[p].s
      BY <1>0, <1>4 DEF OpenInv, OpenRights, OneOpener, Opens
    <2> QED
      BY <1>2, <1>4, <2>1 DEF OpenInv, OpenRights, NoneWhileOpening, Outstanding
  <1>9. NewSubscriptions'
    <2>1. \A q \in Requests : pc'[q] = "insert" =>
             pc[q] = "insert" /\ mem'[q].s = mem[q].s
      BY <1>0, <1>3 DEF RequestSteps
    <2> QED
      BY <1>0, <2>1, NoNewSubscription DEF OpenInv
  <1>10. FailingClaimed'
    <2>1. \A r \in Runs : pc'[r] \in {"faillog", "failcycle"} =>
             pc'[r] = pc[r] /\ mem[r].id \in DOMAIN cycles
      BY <1>0 DEF TypeOK, ProcessTypes, BillsKnownRows, RunSteps
    <2> QED
      BY <1>2, <1>3, <2>1 DEF OpenInv, FailingClaimed
  <1> QED
    BY <1>0, <1>6, <1>7, <1>8, <1>9, <1>10 DEF OpenInv, OpenRights

LEMMA RunStepKeepsOpenInv ==
    ASSUME OneRun, SavesSucceed, OpenInv, NEW r \in Runs, RunStep(r) \/ FindDueCycles(r)
    PROVE  OpenInv'
  <1>0. /\ ChargesInv /\ ChargesInv' /\ TypeOK /\ TypeOK'
        /\ r \in Procs /\ r \notin Requests /\ Procs = Runs \cup Requests
        /\ \A x \in Runs : x = r
        /\ pc \in [Procs -> RunSteps \cup RequestSteps \cup {"idle", "pick"}]
        /\ DOMAIN mem = Procs
        /\ \A x \in Requests : pc[x] \in RequestSteps => mem[x] \in Memory
    BY RunStepKeepsCharges, BillingAssumption
       DEF BillingAssumption, OpenInv, ChargesInv, BillingInv, Procs, OneRun,
           TypeOK, ProcessTypes
  <1>00. pc[r] \in RunSteps =>
           /\ mem[r] \in Memory /\ mem[r].id \in DOMAIN cycles
           /\ mem[r].cyc.sub = mem[r].s /\ cycles[mem[r].id].sub = mem[r].s
           /\ mem[r].s \in DOMAIN subs
    BY <1>0 DEF TypeOK, ProcessTypes, BillsKnownRows
  <1>1. CASE InsertCycle(r)
    BY <1>0, <1>1, InsertCycleKeepsOpenInv
  <1>2. CASE ~ InsertCycle(r)
    <2>1. ~ (BillingSaveFails(r) \/ FailureSaveFails(r) \/ NotificationFails(r))
      BY DEF SavesSucceed, BillingSaveFails, FailureSaveFails, NotificationFails
    <2>2. \A x \in Requests :
            /\ pc'[x] = pc[x]
            /\ pc[x] \in RequestSteps => mem'[x].s = mem[x].s
      <3>1. CASE LogOpened(r) \/ LogFailure(r)
        BY <1>0, <3>1, ChildInsertedKeepsMemory DEF LogOpened, LogFailure, Goto
      <3>2. CASE ~ (LogOpened(r) \/ LogFailure(r))
        BY <1>0, <1>2, <2>1, <3>2
           DEF RunStep, FindDueCycles, PickCycle, EndRun, SaveClaim, PaymentAccepted,
               PaymentRejected, PaymentAnswerLost, SaveCompleted,
               SaveNextBillingDate, SaveFailedCycle, SaveFailedSubscription,
               Goto, Remember
      <3> QED
        BY <3>1, <3>2
    <2>3. DOMAIN subs' = DOMAIN subs
      BY <1>0, <1>2, <2>1
           DEF RunStep, FindDueCycles, PickCycle, EndRun, SaveClaim, PaymentAccepted,
               PaymentRejected, PaymentAnswerLost, SaveCompleted,
               SaveNextBillingDate, SaveFailedCycle, SaveFailedSubscription,
               LogOpened, LogFailure, tables
    <2>4. NewSubscriptions'
      <3>1. NewSubscriptions
        BY DEF OpenInv
      <3>2. \A q \in Requests : pc'[q] = "insert" =>
              pc[q] = "insert" /\ mem'[q].s = mem[q].s
        BY <2>2 DEF RequestSteps
      <3> QED
        BY <2>3, <3>1, <3>2, NoNewSubscription
    <2>5. \A x \in Requests : pc'[x] \in Opens => pc[x] \in Opens /\ mem'[x].s = mem[x].s
      BY <2>2 DEF Opens, RequestSteps
    <2>6. FailingClaimed'
      <3>1. CASE PaymentRejected(r) \/ PaymentAnswerLost(r)
        <4>1. pc[r] = "pay" /\ cycles' = cycles /\ mem' = [mem EXCEPT ![r] = FailInMemory(mem[r])]
          BY <3>1 DEF PaymentRejected, PaymentAnswerLost, Remember, tables
        <4>2. now \in Date /\ mem[r] \in Memory
          BY <1>0, <1>00, <4>1 DEF TypeOK, TableTypes, RunSteps
        <4>3. mem'[r].id = mem[r].id
          BY <1>0, <4>1, <4>2, FailKeepsMemory
        <4>4. cycles[mem[r].id].status = "processing"
          BY <1>0, <4>1 DEF ChargesInv, CopyCounted, RunSteps
        <4> QED
          BY <1>0, <4>1, <4>3, <4>4 DEF FailingClaimed
      <3>2. CASE LogFailure(r)
        BY <1>0, <3>2, ChildInsertedKeepsMemory
           DEF LogFailure, OpenInv, FailingClaimed, Goto, tables
      <3>3. CASE ~ (PaymentRejected(r) \/ PaymentAnswerLost(r) \/ LogFailure(r))
        <4>1. pc'[r] \notin {"faillog", "failcycle"}
          BY <1>0, <1>2, <2>1, <3>3
             DEF RunStep, FindDueCycles, PickCycle, EndRun, SaveClaim,
                 PaymentAccepted, SaveCompleted, SaveNextBillingDate,
                 SaveFailedCycle, SaveFailedSubscription, LogOpened, Goto
        <4> QED
          BY <1>0, <4>1 DEF FailingClaimed
      <3> QED
        BY <3>1, <3>2, <3>3
    <2>7. CASE SaveCompleted(r)
      <3>1. /\ pc[r] = "complete" /\ pc' = [pc EXCEPT ![r] = "advance"]
            /\ cycles' = [cycles EXCEPT ![mem[r].id] = mem[r].cyc]
            /\ mem'[r] = AdvanceInMemory(mem[r])
        BY <1>0, <2>7 DEF SaveCompleted, Goto, Remember
      <3> DEFINE c == mem[r].id
      <3>2. /\ c \in DOMAIN cycles /\ cycles[c].sub = mem[r].s /\ Outstanding(c)
            /\ mem[r].cyc.status = "completed" /\ mem[r].cyc.sub = mem[r].s
            /\ mem'[r].s = mem[r].s
        BY <1>0, <1>00, <3>1, AdvanceKeepsMemory
           DEF ChargesInv, CopyCounted, Charged, RunSteps, Outstanding
      <3>3. /\ DOMAIN cycles' = DOMAIN cycles
            /\ cycles'[c].sub = mem[r].s /\ cycles'[c].status = "completed"
            /\ \A x \in DOMAIN cycles \ {c} : cycles'[x] = cycles[x]
        BY <3>1, <3>2
      <3> HIDE DEF c
      <3>4. \A x \in DOMAIN cycles : Outstanding(x)' => x # c /\ Outstanding(x)
        BY <3>3 DEF Outstanding
      <3>5. OneOpenCycle'
        BY <3>2, <3>3, <3>4 DEF OpenInv, OpenRights, OneOpenCycle
      <3>6. \A x \in Procs \ {r} : pc'[x] \in Opens =>
               pc[x] \in Opens /\ mem'[x].s = mem[x].s /\ mem[x].s # mem[r].s
        BY <1>0, <2>5, <3>2 DEF OpenInv, OpenRights, NoneWhileOpening
      <3>7. OneOpener'
        BY <3>2, <3>6 DEF OpenInv, OpenRights, OneOpener
      <3>8. NoneWhileOpening'
        <4>1. \A x \in Procs \ {r} : pc'[x] \in Opens =>
                \A d \in DOMAIN cycles : cycles'[d].sub = mem'[x].s => ~ Outstanding(d)'
          BY <3>3, <3>4, <3>6 DEF OpenInv, OpenRights, NoneWhileOpening
        <4>2. \A d \in DOMAIN cycles : cycles'[d].sub = mem'[r].s => ~ Outstanding(d)'
          BY <3>2, <3>3, <3>4 DEF OpenInv, OpenRights, OneOpenCycle
        <4> QED
          BY <3>3, <4>1, <4>2 DEF NoneWhileOpening
      <3> QED
        BY <1>0, <2>4, <2>6, <3>5, <3>7, <3>8 DEF OpenInv, OpenRights
    <2>8. CASE ~ SaveCompleted(r)
      <3>1. pc'[r] \in Opens => pc[r] \in Opens /\ mem'[r].s = mem[r].s
        BY <1>0, <1>2, <2>1, <2>8
           DEF RunStep, FindDueCycles, PickCycle, EndRun, SaveClaim, PaymentAccepted,
               PaymentRejected, PaymentAnswerLost, SaveNextBillingDate,
               SaveFailedCycle, SaveFailedSubscription, LogOpened, LogFailure,
               Goto, Opens
      <3>2. /\ DOMAIN cycles' = DOMAIN cycles
            /\ \A c \in DOMAIN cycles :
                 cycles'[c].sub = cycles[c].sub /\ (Outstanding(c)' => Outstanding(c))
        <4>1. CASE SaveClaim(r) \/ SaveFailedCycle(r)
          <5>1. /\ pc[r] \in {"claim", "failcycle"}
                /\ cycles' = [cycles EXCEPT ![mem[r].id] = mem[r].cyc]
            BY <4>1 DEF SaveClaim, SaveFailedCycle
          <5>2. Outstanding(mem[r].id)
            BY <1>0, <5>1 DEF OpenInv, ChargesInv, CopyCounted, FailingClaimed,
                              RunSteps, Outstanding
          <5> QED
            BY <1>00, <5>1, <5>2 DEF RunSteps, Outstanding
        <4>2. CASE ~ (SaveClaim(r) \/ SaveFailedCycle(r))
          <5>1. cycles' = cycles
            BY <1>2, <2>1, <2>8, <4>2
               DEF RunStep, FindDueCycles, PickCycle, EndRun, PaymentAccepted,
                   PaymentRejected, PaymentAnswerLost, SaveNextBillingDate,
                   SaveFailedSubscription, LogOpened, LogFailure, tables
          <5> QED
            BY <5>1 DEF Outstanding
        <4> QED
          BY <4>1, <4>2
      <3>3. \A p \in Procs : pc'[p] \in Opens => pc[p] \in Opens /\ mem'[p].s = mem[p].s
        BY <1>0, <2>5, <3>1
      <3>4. OpenRights
        BY DEF OpenInv
      <3>5. OpenRights'
        BY <3>2, <3>3, <3>4, NoNewRights
      <3> QED
        BY <1>0, <2>4, <2>6, <3>5 DEF OpenInv
    <2> QED
      BY <2>7, <2>8
  <1> QED
    BY <1>1, <1>2

LEMMA RequestStepKeepsOpenInv ==
    ASSUME OneRun, SavesSucceed, OpenInv, NEW q \in Requests,
           ClientCalls(q) \/ RequestStep(q)
    PROVE  OpenInv'
  <1>0. /\ ChargesInv /\ ChargesInv' /\ TypeOK /\ TypeOK'
        /\ q \in Procs /\ q \notin Runs /\ Procs = Runs \cup Requests
        /\ pc \in [Procs -> RunSteps \cup RequestSteps \cup {"idle", "pick"}]
        /\ DOMAIN mem = Procs
        /\ \A x \in Requests : pc[x] \in RequestSteps => mem[x] \in Memory
    BY RequestStepKeepsCharges, BillingAssumption
       DEF BillingAssumption, OpenInv, ChargesInv, BillingInv, Procs,
           TypeOK, ProcessTypes
  <1>1. CASE InsertCycle(q)
    BY <1>0, <1>1, InsertCycleKeepsOpenInv
  <1>2. CASE ~ InsertCycle(q)
    <2>1. ~ RequestFails(q)
      BY DEF SavesSucceed, RequestFails
    <2>2. UNCHANGED <<cycles, charges>>
      BY <1>2, <2>1 DEF ClientCalls, RequestStep, CreateSubscription, PauseSubscription,
         ResumeSubscription, CancelSubscription, LoadAndModify, InsertSubscription,
         SaveNextBillingDate, LogOpened, SaveSubscription, LogOperation, tables
    <2>3. /\ \A x \in Procs \ {q} : pc'[x] = pc[x]
          /\ \A x \in Runs : mem'[x] = mem[x]
          /\ \A x \in Requests \ {q} : pc[x] \in RequestSteps => mem'[x].s = mem[x].s
      <3>1. CASE LogOpened(q) \/ LogOperation(q)
        BY <1>0, <3>1, ChildInsertedKeepsMemory DEF LogOpened, LogOperation, Goto
      <3>2. CASE ~ (LogOpened(q) \/ LogOperation(q))
        BY <1>0, <1>2, <2>1, <3>2
           DEF ClientCalls, RequestStep, CreateSubscription, PauseSubscription,
               ResumeSubscription, CancelSubscription, LoadAndModify,
               InsertSubscription, SaveNextBillingDate, SaveSubscription,
               Goto, Remember
      <3> QED
        BY <3>1, <3>2
    <2>4. FailingClaimed'
      BY <1>0, <2>2, <2>3 DEF OpenInv, FailingClaimed
    <2>5. \A x \in Procs \ {q} : pc'[x] \in Opens => pc[x] \in Opens /\ mem'[x].s = mem[x].s
      BY <1>0, <2>3 DEF Opens, RequestSteps
    <2>6. \A x \in Requests \ {q} : pc'[x] = "insert" => pc[x] = "insert" /\ mem'[x].s = mem[x].s
      BY <1>0, <2>3 DEF RequestSteps
    <2>7. \A c \in DOMAIN cycles : Outstanding(c)' => Outstanding(c)
      BY <2>2 DEF Outstanding
    <2>8. CASE CreateSubscription(q)
      <3>1. PICK s \in Subs \ DOMAIN subs :
              /\ \A x \in Requests : pc[x] = "insert" => mem[x].s # s
              /\ mem'[q].s = s
        BY <1>0, <2>8 DEF CreateSubscription, Remember
      <3>2. pc'[q] = "insert" /\ subs' = subs
        BY <1>0, <2>8 DEF CreateSubscription, Goto, tables
      <3>3. NewSubscriptions'
        BY <2>6, <3>1, <3>2 DEF OpenInv, NewSubscriptions
      <3>4. \A x \in Procs : pc'[x] \in Opens => pc[x] \in Opens /\ mem'[x].s = mem[x].s
        BY <2>5, <3>2 DEF Opens
      <3>5. OpenRights'
        BY <2>2, <2>7, <3>4, NoNewRights DEF OpenInv
      <3> QED
        BY <1>0, <2>4, <3>3, <3>5 DEF OpenInv
    <2>9. CASE InsertSubscription(q)
      <3>1. /\ pc[q] = "insert" /\ pc'[q] = "advance"
            /\ DOMAIN subs' = DOMAIN subs \cup {mem[q].s}
            /\ mem'[q] = AdvanceInMemory(mem[q])
        BY <1>0, <2>9 DEF InsertSubscription, Goto, Remember
      <3>2. mem[q].s \notin DOMAIN subs /\ mem'[q].s = mem[q].s
        BY <1>0, <3>1, AdvanceKeepsMemory DEF OpenInv, NewSubscriptions, RequestSteps
      <3>3. \A c \in DOMAIN cycles : cycles[c].sub # mem[q].s
        BY <1>0, <3>2 DEF TypeOK
      <3>4. \A x \in Procs \ {q} : pc'[x] \in Opens => mem'[x].s \in DOMAIN subs
        BY <1>0, <2>3, <2>5
           DEF TypeOK, ProcessTypes, BillsKnownRows, Opens, RunSteps, RequestSteps
      <3>5. NewSubscriptions'
        BY <2>6, <3>1, <3>2 DEF OpenInv, NewSubscriptions
      <3>6. OneOpenCycle'
        BY <2>2, <2>7 DEF OpenInv, OpenRights, OneOpenCycle
      <3>7. OneOpener'
        BY <2>5, <3>2, <3>4 DEF OpenInv, OpenRights, OneOpener
      <3>8. NoneWhileOpening'
        <4>1. \A x \in Procs \ {q} : pc'[x] \in Opens =>
                \A c \in DOMAIN cycles : cycles'[c].sub = mem'[x].s => ~ Outstanding(c)'
          BY <2>2, <2>5, <2>7 DEF OpenInv, OpenRights, NoneWhileOpening
        <4> QED
          BY <2>2, <3>2, <3>3, <4>1 DEF NoneWhileOpening
      <3> QED
        BY <1>0, <2>4, <3>5, <3>6, <3>7, <3>8 DEF OpenInv, OpenRights
    <2>10. CASE ~ (CreateSubscription(q) \/ InsertSubscription(q))
      <3>1. /\ pc'[q] # "insert" /\ DOMAIN subs' = DOMAIN subs
            /\ pc'[q] \in Opens => pc[q] \in Opens /\ mem'[q].s = mem[q].s
        BY <1>0, <1>2, <2>1, <2>10
           DEF ClientCalls, RequestStep, PauseSubscription,
               ResumeSubscription, CancelSubscription, LoadAndModify,
               SaveNextBillingDate, SaveSubscription, LogOpened, LogOperation,
               Goto, Remember, Opens, tables
      <3>2. \A x \in Requests : pc'[x] = "insert" => pc[x] = "insert" /\ mem'[x].s = mem[x].s
        BY <2>6, <3>1
      <3>3. \A x \in Procs : pc'[x] \in Opens => pc[x] \in Opens /\ mem'[x].s = mem[x].s
        BY <2>5, <3>1
      <3>4. NewSubscriptions'
        BY <3>1, <3>2, NoNewSubscription DEF OpenInv
      <3>5. OpenRights'
        BY <2>2, <2>7, <3>3, NoNewRights DEF OpenInv
      <3> QED
        BY <1>0, <2>4, <3>4, <3>5 DEF OpenInv
    <2> QED
      BY <2>8, <2>9, <2>10
  <1> QED
    BY <1>1, <1>2

LEMMA NextOpenInv ==
    ASSUME OneRun, SavesSucceed, OpenInv, [Next]_vars
    PROVE  OpenInv'
  <1>0. ChargesInv'
    BY NextChargesInv DEF OpenInv
  <1>1. CASE ClockTick \/ UNCHANGED vars
    BY <1>0, <1>1
       DEF ClockTick, tables, vars, OpenInv, OpenRights, OneOpenCycle, OneOpener,
           NoneWhileOpening, NewSubscriptions, FailingClaimed, Outstanding
  <1>2. CASE Crash
    <2>1. /\ UNCHANGED <<subs, cycles>> /\ \A p \in Procs : pc'[p] = "idle"
      BY <1>2 DEF Crash, tables
    <2> QED
      BY <1>0, <2>1
         DEF OpenInv, OpenRights, OneOpenCycle, OneOpener, NoneWhileOpening,
             NewSubscriptions, FailingClaimed, Outstanding, Opens, Procs
  <1>3. CASE \E r \in Runs : FindDueCycles(r) \/ RunStep(r)
    BY <1>3, RunStepKeepsOpenInv
  <1>4. CASE \E q \in Requests : ClientCalls(q) \/ RequestStep(q)
    BY <1>4, RequestStepKeepsOpenInv
  <1> QED
    BY <1>1, <1>2, <1>3, <1>4 DEF Next

\* When scheduler runs do not overlap and saves succeed, no lost answer, restart
\* or client call makes a subscription owe two periods at a time.
THEOREM OnePeriodAtATime ==
    ASSUME OneRun, SavesSucceed
    PROVE  Spec => []OneOpenCycle
  <1>1. Spec => []OpenInv
    <2>1. Init => OpenInv
      BY InitOpenInv
    <2>2. OpenInv /\ [Next]_vars => OpenInv'
      BY NextOpenInv
    <2> QED
      BY <2>1, <2>2, PTL DEF Spec
  <1>2. OpenInv => OneOpenCycle
    BY DEF OpenInv, OpenRights
  <1> QED
    BY <1>1, <1>2, PTL

(***************************************************************************)
(* LedgerMatchesTable while runs do not overlap and nothing fails.         *)
(***************************************************************************)
NothingFails == Faults = {}

LedgerInv == OpenInv /\ LedgerMatchesTable

LEMMA InitLedgerInv == Init => LedgerInv
  BY InitOpenInv DEF Init, LedgerInv, LedgerMatchesTable

\* What the ledger shows of the cycle a run works on, step by step.
LEMMA LedgerOfHeldCycle ==
    ASSUME OneRun, LedgerInv, NEW r \in Runs, pc[r] \in RunSteps
    PROVE  /\ pc[r] \in {"claim", "pay", "faillog", "failcycle"} => charges[mem[r].id] = 0
           /\ pc[r] = "complete" => charges[mem[r].id] = 1
  <1> DEFINE c == mem[r].id
  <1>1. /\ c \in DOMAIN cycles /\ charges[c] \in Nat
        /\ \A x \in Runs : x = r
    BY DEF LedgerInv, OpenInv, ChargesInv, BillingInv, TypeOK, TableTypes,
           ProcessTypes, BillsKnownRows, OneRun
  <1>2. charges[c] <= 1
    BY <1>1 DEF LedgerInv, LedgerMatchesTable
  <1>3. charges[c] = 1 <=> cycles[c].status = "completed" \/ pc[r] = "complete"
    BY <1>1 DEF LedgerInv, LedgerMatchesTable, Holds
  <1>4. pc[r] \in {"claim", "pay", "faillog", "failcycle"} => cycles[c].status # "completed"
    BY DEF LedgerInv, OpenInv, ChargesInv, CopyCounted, FailingClaimed
  <1> QED
    BY <1>1, <1>2, <1>3, <1>4

LEMMA NextLedgerInv ==
    ASSUME OneRun, NothingFails, LedgerInv, [Next]_vars
    PROVE  LedgerInv'
  <1>0. /\ OpenInv /\ OpenInv' /\ TypeOK /\ TypeOK' /\ ChargesInv
        /\ pc \in [Procs -> RunSteps \cup RequestSteps \cup {"idle", "pick"}]
        /\ DOMAIN mem = Procs /\ Procs = Runs \cup Requests /\ Runs \cap Requests = {}
        /\ charges \in [CycleIds -> Nat] /\ DOMAIN cycles \subseteq CycleIds
    BY NextOpenInv, BillingAssumption
       DEF BillingAssumption, LedgerInv, OpenInv, ChargesInv, BillingInv, TypeOK, TableTypes,
           ProcessTypes, NothingFails, SavesSucceed, Procs
  <1>1. ASSUME UNCHANGED <<cycles, charges>>,
               \A r \in Runs : /\ pc'[r] = "complete" <=> pc[r] = "complete"
                               /\ pc[r] = "complete" => mem'[r].id = mem[r].id
        PROVE  LedgerInv'
    BY <1>0, <1>1 DEF LedgerInv, LedgerMatchesTable, Holds, RunSteps
  <1>2. ASSUME NEW p \in Procs, InsertCycle(p)
        PROVE  LedgerInv'
    <2>1. PICK c \in FreeIds :
            cycles' = [x \in DOMAIN cycles \cup {c} |->
                         IF x = c THEN NewCycle(mem[p].s, mem[p].due) ELSE cycles[x]]
      BY <1>2 DEF InsertCycle
    <2>2. /\ c \in CycleIds \ DOMAIN cycles /\ DOMAIN cycles' = DOMAIN cycles \cup {c}
          /\ cycles'[c].status = "pending"
          /\ \A x \in DOMAIN cycles : cycles'[x] = cycles[x]
      BY <2>1 DEF FreeIds, NewCycle
    <2>3. /\ charges' = charges /\ charges[c] = 0
          /\ \A r \in Runs : /\ mem'[r] = mem[r]
                             /\ pc'[r] = "complete" <=> pc[r] = "complete"
                             /\ pc[r] \in RunSteps => mem[r].id \in DOMAIN cycles
      BY <1>0, <1>2, <2>2, ChildInsertedKeepsMemory
         DEF InsertCycle, Goto, ChargesInv, LedgerCounted, TypeOK, ProcessTypes,
             BillsKnownRows
    <2>4. \A x \in DOMAIN cycles' : x # c => x \in DOMAIN cycles
      BY <2>2
    <2>5. \A r \in Runs : ~ (Holds(r, c) /\ pc[r] = "complete")'
      BY <2>2, <2>3 DEF Holds, RunSteps
    <2>6. \A r \in Runs : \A x : (Holds(r, x) /\ pc[r] = "complete")'
                                 <=> Holds(r, x) /\ pc[r] = "complete"
      BY <2>3 DEF Holds, RunSteps
    <2> QED
      BY <1>0, <2>2, <2>3, <2>4, <2>5, <2>6 DEF LedgerInv, LedgerMatchesTable
  <1>3. ASSUME NEW r \in Runs, RunStep(r) \/ FindDueCycles(r)
        PROVE  LedgerInv'
    <2>0. r \in Procs /\ \A x \in Runs : x = r
      BY DEF OneRun, Procs
    <2>1. ~ (\/ PaymentAnswerLost(r) \/ BillingSaveFails(r) \/ FailureSaveFails(r)
             \/ NotificationFails(r))
      BY DEF NothingFails, PaymentAnswerLost, BillingSaveFails, FailureSaveFails,
             NotificationFails
    <2>2. CASE InsertCycle(r)
      BY <1>2, <2>0, <2>2
    <2>3. CASE PaymentAccepted(r)
      <3>1. /\ pc[r] = "pay" /\ pc'[r] = "complete" /\ cycles' = cycles
            /\ charges' = [charges EXCEPT ![mem[r].id] = @ + 1]
            /\ mem'[r] = [mem[r] EXCEPT !.cyc.status = "completed"]
        BY <1>0, <2>0, <2>3 DEF PaymentAccepted, Charge, Goto, Remember
      <3>2. mem'[r].id = mem[r].id /\ mem[r].id \in DOMAIN cycles /\ charges[mem[r].id] = 0
        BY <1>0, <3>1, LedgerOfHeldCycle
           DEF TypeOK, ProcessTypes, BillsKnownRows, RunSteps, Memory
      <3>3. /\ charges'[mem[r].id] = 1
            /\ \A x \in CycleIds : x # mem[r].id => charges'[x] = charges[x]
        BY <1>0, <3>1, <3>2
      <3>4. \A x : (Holds(r, x) /\ pc[r] = "complete")' <=> x = mem[r].id
        BY <3>1, <3>2 DEF Holds, RunSteps
      <3>5. \A x : ~ (Holds(r, x) /\ pc[r] = "complete")
        BY <3>1
      <3> QED
        BY <1>0, <2>0, <3>1, <3>2, <3>3, <3>4, <3>5 DEF LedgerInv, LedgerMatchesTable
    <2>4. CASE SaveClaim(r) \/ SaveCompleted(r) \/ SaveFailedCycle(r)
      <3>1. /\ pc[r] \in RunSteps /\ pc'[r] # "complete" /\ charges' = charges
            /\ cycles' = [cycles EXCEPT ![mem[r].id] = mem[r].cyc]
            /\ pc[r] \in {"claim", "complete", "failcycle"}
        BY <1>0, <2>0, <2>4 DEF SaveClaim, SaveCompleted, SaveFailedCycle, Goto, RunSteps
      <3>2. /\ mem[r].id \in DOMAIN cycles /\ charges[mem[r].id] \in Nat
            /\ mem[r].cyc.status = "completed" => charges[mem[r].id] > 0
        BY <1>0, <3>1 DEF TypeOK, ProcessTypes, BillsKnownRows, ChargesInv,
                          BillingInv, Sound
      <3>3. /\ pc[r] = "complete" => mem[r].cyc.status = "completed" /\ charges[mem[r].id] = 1
            /\ pc[r] # "complete" => charges[mem[r].id] = 0
        BY <1>0, <3>1, LedgerOfHeldCycle DEF ChargesInv, CopyCounted, Charged, RunSteps
      <3>4. \A x : ~ (Holds(r, x) /\ pc[r] = "complete")'
        BY <3>1
      <3>5. \A x : Holds(r, x) => x = mem[r].id
        BY DEF Holds
      <3> QED
        BY <1>0, <2>0, <3>1, <3>2, <3>3, <3>4, <3>5 DEF LedgerInv, LedgerMatchesTable
    <2>5. CASE ~ (\/ InsertCycle(r) \/ PaymentAccepted(r) \/ SaveClaim(r)
                  \/ SaveCompleted(r) \/ SaveFailedCycle(r))
      <3>1. UNCHANGED <<cycles, charges>>
        BY <1>3, <2>1, <2>5
           DEF RunStep, FindDueCycles, PickCycle, EndRun, PaymentRejected,
               SaveNextBillingDate, SaveFailedSubscription, LogOpened, LogFailure, tables
      <3>2. pc[r] # "complete" /\ pc'[r] # "complete"
        BY <1>0, <1>3, <2>0, <2>1, <2>5
           DEF RunStep, FindDueCycles, PickCycle, EndRun, PaymentRejected,
               SaveNextBillingDate, SaveFailedSubscription, LogOpened, LogFailure, Goto
      <3> QED
        BY <1>1, <2>0, <3>1, <3>2
    <2> QED
      BY <2>2, <2>3, <2>4, <2>5
  <1>4. ASSUME NEW q \in Requests, ClientCalls(q) \/ RequestStep(q)
        PROVE  LedgerInv'
    <2>1. CASE InsertCycle(q)
      BY <1>0, <1>2, <2>1
    <2>2. CASE ~ InsertCycle(q)
      <3>1. UNCHANGED <<cycles, charges>> /\ \A r \in Runs : pc'[r] = pc[r]
        BY <1>0, <1>4, <2>2
           DEF ClientCalls, RequestStep, CreateSubscription, PauseSubscription,
               ResumeSubscription, CancelSubscription, LoadAndModify,
               InsertSubscription, SaveNextBillingDate, LogOpened,
               SaveSubscription, LogOperation, RequestFails, Goto, tables
      <3>2. \A r \in Runs : mem'[r] = mem[r]
        <4>1. CASE LogOpened(q) \/ LogOperation(q)
          BY <1>0, <4>1, ChildInsertedKeepsMemory DEF LogOpened, LogOperation
        <4>2. CASE ~ (LogOpened(q) \/ LogOperation(q))
          BY <1>0, <1>4, <2>2, <4>2
             DEF ClientCalls, RequestStep, CreateSubscription, PauseSubscription,
                 ResumeSubscription, CancelSubscription, LoadAndModify,
                 InsertSubscription, SaveNextBillingDate, SaveSubscription,
                 RequestFails, Remember
        <4> QED
          BY <4>1, <4>2
      <3> QED
        BY <1>1, <3>1, <3>2
    <2> QED
      BY <2>1, <2>2
  <1>5. CASE ClockTick \/ UNCHANGED vars
    BY <1>1, <1>5 DEF ClockTick, tables, vars
  <1>6. ~ Crash
    BY DEF NothingFails, Crash
  <1> QED
    BY <1>3, <1>4, <1>5, <1>6 DEF Next

LEMMA LedgerInvariant ==
    ASSUME OneRun, NothingFails
    PROVE  Spec => []LedgerInv
  <1>1. Init => LedgerInv
    BY InitLedgerInv
  <1>2. LedgerInv /\ [Next]_vars => LedgerInv'
    BY NextLedgerInv
  <1> QED
    BY <1>1, <1>2, PTL DEF Spec

\* When scheduler runs do not overlap and nothing fails, a cycle has exactly one
\* payment on the ledger if it is stored as COMPLETED or about to be, and none
\* otherwise, whatever clients do to its subscription.
THEOREM LedgerAgrees ==
    ASSUME OneRun, NothingFails
    PROVE  Spec => []LedgerMatchesTable
  <1>1. Spec => []LedgerInv
    BY LedgerInvariant
  <1>2. LedgerInv => LedgerMatchesTable
    BY DEF LedgerInv
  <1> QED
    BY <1>1, <1>2, PTL

(***************************************************************************)
(* What the tallies count.                                                 *)
(***************************************************************************)
LEMMA TallyElements ==
    ASSUME NEW n, NEW ids
    PROVE  \A x : x \in Tally(n, ids) <=> \E c \in ids : \E i \in 1 .. n[c] : x = <<c, i>>
  BY DEF Tally

LEMMA TallySame ==
    ASSUME NEW n, NEW m, NEW ids, \A c \in ids : m[c] = n[c]
    PROVE  Tally(m, ids) = Tally(n, ids)
  <1>1. \A x : x \in Tally(m, ids) <=> x \in Tally(n, ids)
    BY TallyElements
  <1> QED
    BY <1>1

LEMMA TallyFinite ==
    ASSUME NEW n, NEW ids, IsFiniteSet(ids), NEW B \in Nat,
           \A c \in ids : n[c] \in Nat /\ n[c] <= B
    PROVE  IsFiniteSet(Tally(n, ids))
  <1>1. IsFiniteSet(ids \X (1 .. B))
    <2>1. 1 \in Int /\ B \in Int
      OBVIOUS
    <2>2. IsFiniteSet(1 .. B)
      BY <2>1, FS_Interval
    <2> QED
      BY <2>2, FS_Product
  <1>2. \A c \in ids : \A i \in 1 .. n[c] : i \in 1 .. B
    OBVIOUS
  <1>3. Tally(n, ids) \subseteq ids \X (1 .. B)
    BY <1>2, TallyElements
  <1> QED
    BY <1>1, <1>3, FS_Subset

\* One more for c, nothing for the others.
LEMMA TallyOneMore ==
    ASSUME NEW n, NEW m, NEW ids, IsFiniteSet(Tally(n, ids)), NEW c \in ids,
           n[c] \in Nat, m[c] = n[c] + 1, \A d \in ids \ {c} : m[d] = n[d]
    PROVE  Cardinality(Tally(m, ids)) = Cardinality(Tally(n, ids)) + 1
  <1>1. \A i : i \in 1 .. m[c] <=> i \in 1 .. n[c] \/ i = m[c]
    OBVIOUS
  <1>2. \A x : x \in Tally(m, ids) <=> x \in Tally(n, ids) \/ x = <<c, m[c]>>
    <2>1. \A x : x \in Tally(m, ids) <=>
             (\E d \in ids \ {c} : \E i \in 1 .. n[d] : x = <<d, i>>)
             \/ \E i \in 1 .. m[c] : x = <<c, i>>
      BY TallyElements
    <2>2. \A x : x \in Tally(n, ids) <=>
             (\E d \in ids \ {c} : \E i \in 1 .. n[d] : x = <<d, i>>)
             \/ \E i \in 1 .. n[c] : x = <<c, i>>
      BY TallyElements
    <2> QED
      BY <1>1, <2>1, <2>2
  <1>3. Tally(m, ids) = Tally(n, ids) \cup {<<c, m[c]>>}
    BY <1>2
  <1>4. m[c] \notin 1 .. n[c]
    OBVIOUS
  <1>5. <<c, m[c]>> \notin Tally(n, ids)
    BY <1>4, TallyElements
  <1> QED
    BY <1>3, <1>5, FS_AddElement

\* A cycle that counts nothing yet.
LEMMA TallyOfNewCycle ==
    ASSUME NEW n, NEW m, NEW ids, NEW c, m[c] = 0, \A d \in ids \ {c} : m[d] = n[d],
           c \notin ids
    PROVE  Tally(m, ids \cup {c}) = Tally(n, ids)
  <1>1. 1 .. m[c] = {}
    OBVIOUS
  <1>2. \A x : x \in Tally(m, ids \cup {c}) <=> x \in Tally(n, ids)
    BY <1>1, TallyElements
  <1> QED
    BY <1>2

LEMMA TallyEmpty ==
    ASSUME NEW n
    PROVE  Cardinality(Tally(n, {})) = 0
  <1>1. Tally(n, {}) = {}
    BY DEF Tally
  <1> QED
    BY <1>1, FS_EmptySet

(***************************************************************************)
(* ScheduleAccounted while runs do not overlap, nothing fails and clients  *)
(* only create subscriptions.  The copies in memory agree with the tables  *)
(* at every step, so that what a run saves is what the history needs.      *)
(***************************************************************************)
OnlyCreations == Calls \subseteq {"create"}

BatchFresh ==
    \A r \in Runs : \A m \in batch[r] :
        /\ m.cyc = cycles[m.id] /\ m.sub = subs[m.s]
        /\ pc[r] \in RunSteps => mem[r].s # m.s
        /\ \A k \in batch[r] : k.s = m.s => k = m

HeldFresh ==
    \A r \in Runs :
        /\ pc[r] \in {"claim", "pay", "complete"} =>
              /\ mem[r].cyc.due = cycles[mem[r].id].due
              /\ mem[r].cyc.retry = cycles[mem[r].id].retry
              /\ mem[r].sub = subs[mem[r].s]
        /\ pc[r] \in Failing =>
              /\ mem[r].cyc.due = cycles[mem[r].id].due
              /\ mem[r].cyc.retry =
                    cycles[mem[r].id].retry + (IF pc[r] = "failsub" THEN 0 ELSE 1)
              /\ mem[r].cyc.status = StatusAfterFailure(mem[r].cyc.retry)
              /\ mem[r].sub = FailedSubscription(subs[mem[r].s], mem[r].cyc.retry)
        /\ pc[r] = "failsub" => cycles[mem[r].id].status = mem[r].cyc.status

OpenerFresh ==
    \A p \in Procs :
        /\ pc[p] = "advance" =>
              /\ mem[p].due = subs[mem[p].s].next
              /\ mem[p].sub = [subs[mem[p].s] EXCEPT !.next = NextBillingDate(@)]
        /\ pc[p] = "open" => NextBillingDate(mem[p].due) = subs[mem[p].s].next

CreationsFresh ==
    \A q \in Requests :
        /\ pc[q] \notin {"update", "oplog"}
        /\ pc[q] = "insert" => mem[q].sub.status = "active" /\ mem[q].sub.failed = 0
        /\ pc[q] \in Opens => \A c \in DOMAIN cycles : cycles[c].sub # mem[q].s

IdsInOrder == \A c \in DOMAIN cycles, d \in CycleIds : d < c => d \in DOMAIN cycles

\* The due date of the latest cycle of s.
LastDue(s) ==
    IF \E p \in Procs : pc[p] = "open" /\ mem[p].s = s
    THEN subs[s].next - Interval - Interval
    ELSE subs[s].next - Interval

Chained ==
    \A s \in DOMAIN subs :
        /\ \A c \in CyclesOf(s) :
              /\ cycles[c].due <= LastDue(s)
              /\ \/ cycles[c].due = LastDue(s)
                 \/ \E d \in CyclesOf(s) : cycles[d].due = cycles[c].due + Interval
              /\ \A d \in CyclesOf(s) : c < d => cycles[c].due < cycles[d].due
        /\ CyclesOf(s) # {} => \E c \in CyclesOf(s) : cycles[c].due = LastDue(s)

FailuresCounted ==
    \A s \in DOMAIN subs :
        /\ Cardinality(FailedAttempts(s)) = subs[s].failed +
              (IF \E r \in Runs : pc[r] = "failsub" /\ mem[r].s = s THEN 1 ELSE 0)
        /\ subs[s].status = "past_due" <=>
              \E c \in CyclesOf(s) :
                 /\ cycles[c].status = "failed"
                 /\ ~ \E r \in Runs : pc[r] = "failsub" /\ mem[r].id = c

StoppedForGood ==
    \A c \in DOMAIN cycles : cycles[c].status = "failed" =>
        /\ \A d \in DOMAIN cycles : cycles[d].sub = cycles[c].sub => ~ Outstanding(d)
        /\ \A p \in Procs : pc[p] \in Opens => mem[p].s # cycles[c].sub

CopiesFresh == BatchFresh /\ HeldFresh /\ OpenerFresh /\ CreationsFresh
TablesFit == IdsInOrder /\ Chained /\ FailuresCounted /\ StoppedForGood
HistoryInv == LedgerInv /\ CopiesFresh /\ TablesFit

LEMMA InitHistoryInv == Init => HistoryInv
  BY InitLedgerInv
     DEF Init, HistoryInv, CopiesFresh, TablesFit, BatchFresh, HeldFresh, OpenerFresh,
         CreationsFresh, IdsInOrder, Chained, FailuresCounted, StoppedForGood,
         Failing, Opens, Procs

LEMMA HistoryInvProperty ==
    ASSUME HistoryInv
    PROVE  ScheduleAccounted
  <1>0. /\ TypeOK /\ DOMAIN cycles \subseteq CycleIds
        /\ \A c \in DOMAIN cycles : cycles[c].due \in Int
        /\ \A s \in DOMAIN subs : subs[s].next \in Int
        /\ CycleIds \subseteq Int
    BY DEF HistoryInv, LedgerInv, OpenInv, ChargesInv, BillingInv, TypeOK, TableTypes,
           CycleRow, SubRow, Date, CycleIds
  <1>1. PeriodsFollowOneAnother
    <2> SUFFICES ASSUME NEW s \in DOMAIN subs
                 PROVE  /\ \A c, d \in CyclesOf(s) :
                             /\ cycles[c].due = cycles[d].due => c = d
                             /\ c < d => cycles[c].due < cycles[d].due
                        /\ \A c \in CyclesOf(s) :
                             \/ cycles[c].due = subs[s].next - Interval
                             \/ \E d \in CyclesOf(s) : cycles[d].due = cycles[c].due + Interval
                             \/ Opening(s)
      BY DEF PeriodsFollowOneAnother
    <2>1. \A c \in CyclesOf(s) : c \in Int /\ cycles[c].due \in Int
      BY <1>0 DEF CyclesOf
    <2>2. \A c, d \in CyclesOf(s) : c < d => cycles[c].due < cycles[d].due
      BY DEF HistoryInv, TablesFit, Chained
    <2>3. \A c, d \in CyclesOf(s) : cycles[c].due = cycles[d].due => c = d
      BY <2>1, <2>2
    <2>4. ~ Opening(s) => LastDue(s) = subs[s].next - Interval
      BY DEF Opening, LastDue
    <2> QED
      BY <2>2, <2>3, <2>4 DEF HistoryInv, TablesFit, Chained
  <1>2. FailuresAccounted
    <2> SUFFICES ASSUME NEW s \in DOMAIN subs, \A r \in Runs : pc[r] = "failsub" => mem[r].s # s
                 PROVE  /\ subs[s].failed = Cardinality(FailedAttempts(s))
                        /\ subs[s].status = "past_due" <=>
                             \E c \in CyclesOf(s) : cycles[c].status = "failed"
      BY DEF FailuresAccounted
    <2>1. \A c \in CyclesOf(s) : ~ \E r \in Runs : pc[r] = "failsub" /\ mem[r].id = c
      BY <1>0 DEF TypeOK, ProcessTypes, BillsKnownRows, RunSteps, CyclesOf
    <2>2. subs[s].failed \in Nat
      BY <1>0 DEF TypeOK, TableTypes, SubRow
    <2>3. subs[s].failed = Cardinality(FailedAttempts(s))
      BY <2>2 DEF HistoryInv, TablesFit, FailuresCounted
    <2> QED
      BY <2>1, <2>3 DEF HistoryInv, TablesFit, FailuresCounted
  <1> QED
    BY <1>1, <1>2 DEF ScheduleAccounted

LEMMA HistoryFacts ==
    ASSUME OneRun, HistoryInv
    PROVE  /\ LedgerInv /\ OpenInv /\ ChargesInv /\ TypeOK
           /\ Procs = Runs \cup Requests /\ Runs \cap Requests = {}
           /\ pc \in [Procs -> RunSteps \cup RequestSteps \cup {"idle", "pick"}]
           /\ DOMAIN mem = Procs /\ DOMAIN batch = Runs
           /\ \A r, x \in Runs : r = x
           /\ \A p \in Procs : pc[p] # "update" /\ pc[p] # "oplog"
           /\ \A s : \A p \in Procs : ChildInserted(mem, s)[p] = mem[p]
  <1>1. /\ LedgerInv /\ OpenInv /\ ChargesInv /\ TypeOK
        /\ Procs = Runs \cup Requests /\ Runs \cap Requests = {}
        /\ pc \in [Procs -> RunSteps \cup RequestSteps \cup {"idle", "pick"}]
        /\ DOMAIN mem = Procs /\ DOMAIN batch = Runs
        /\ \A r, x \in Runs : r = x
    BY BillingAssumption
       DEF BillingAssumption, HistoryInv, LedgerInv, OpenInv, ChargesInv, BillingInv,
           TypeOK, ProcessTypes, Procs, OneRun
  <1>2. \A p \in Procs : pc[p] # "update" /\ pc[p] # "oplog"
    BY <1>1 DEF HistoryInv, CopiesFresh, CreationsFresh, TypeOK, ProcessTypes, RunSteps
  <1> QED
    BY <1>1, <1>2 DEF ChildInserted

\* A step that leaves the two tables alone and moves no process into or out of
\* the steps between two saves keeps what the tables say.
LEMMA TablesKept ==
    ASSUME TablesFit, UNCHANGED <<subs, cycles>>,
           \A p \in Procs :
              /\ pc'[p] \in Opens => pc[p] \in Opens /\ mem'[p].s = mem[p].s
              /\ pc'[p] = "open" <=> pc[p] = "open",
           \A r \in Runs :
              /\ pc'[r] = "failsub" <=> pc[r] = "failsub"
              /\ pc[r] = "failsub" => mem'[r].id = mem[r].id /\ mem'[r].s = mem[r].s
    PROVE  TablesFit'
  <1>1. \A s : CyclesOf(s)' = CyclesOf(s)
    BY DEF CyclesOf
  <1>2. \A s : LastDue(s)' = LastDue(s)
    BY DEF LastDue, Opens
  <1>3. IdsInOrder' /\ Chained'
    BY <1>1, <1>2 DEF TablesFit, IdsInOrder, Chained
  <1>4. \A s : FailedAttempts(s)' = FailedAttempts(s)
    BY <1>1 DEF FailedAttempts
  <1>5. FailuresCounted'
    BY <1>1, <1>4 DEF TablesFit, FailuresCounted
  <1>6. StoppedForGood'
    BY DEF TablesFit, StoppedForGood, Outstanding
  <1> QED
    BY <1>3, <1>5, <1>6 DEF TablesFit

LEMMA BatchFreshKept ==
    ASSUME BatchFresh, UNCHANGED <<subs, cycles, batch>>,
           \A r \in Runs : pc'[r] \in RunSteps => pc[r] \in RunSteps /\ mem'[r].s = mem[r].s
    PROVE  BatchFresh'
  BY DEF BatchFresh

\* The steps of a run that write neither table.
LEMMA QuietRunStepKeepsHistory ==
    ASSUME OneRun, HistoryInv, LedgerInv', NEW r \in Runs,
           \/ FindDueCycles(r) \/ PickCycle(r) \/ EndRun(r) \/ PaymentAccepted(r)
           \/ PaymentRejected(r) \/ LogOpened(r) \/ LogFailure(r)
    PROVE  HistoryInv'
  <1>0. /\ LedgerInv /\ OpenInv /\ ChargesInv /\ TypeOK /\ r \in Procs /\ r \notin Requests
        /\ Procs = Runs \cup Requests /\ Runs \cap Requests = {}
        /\ pc \in [Procs -> RunSteps \cup RequestSteps \cup {"idle", "pick"}]
        /\ DOMAIN mem = Procs /\ DOMAIN batch = Runs
        /\ \A x \in Runs : x = r
        /\ \A s : \A p \in Procs : ChildInserted(mem, s)[p] = mem[p]
    BY HistoryFacts
  <1>1. /\ UNCHANGED <<subs, cycles>>
        /\ \A p \in Procs \ {r} : pc'[p] = pc[p]
        /\ pc[r] \notin Opens \cup {"failsub"} /\ pc'[r] \notin Opens \cup {"failsub"}
    BY <1>0 DEF FindDueCycles, PickCycle, EndRun, PaymentAccepted, PaymentRejected,
                LogOpened, LogFailure, Goto, tables, Opens
  <1>2. \A p \in Procs \ {r} : mem'[p] = mem[p]
    <2>0. DOMAIN ChildInserted(mem, mem[r].s) = Procs
      BY DEF ChildInserted
    <2>1. CASE LogOpened(r) \/ LogFailure(r)
      BY <1>0, <2>0, <2>1 DEF LogOpened, LogFailure
    <2>2. CASE ~ (LogOpened(r) \/ LogFailure(r))
      BY <1>0, <2>2
         DEF FindDueCycles, PickCycle, EndRun, PaymentAccepted, PaymentRejected, Remember
    <2> QED
      BY <2>1, <2>2
  <1>3. TablesFit'
    <2>1. \A p \in Procs :
             /\ pc'[p] \in Opens => pc[p] \in Opens /\ mem'[p].s = mem[p].s
             /\ pc'[p] = "open" <=> pc[p] = "open"
      BY <1>1, <1>2 DEF Opens
    <2>2. \A x \in Runs : pc'[x] # "failsub" /\ pc[x] # "failsub"
      BY <1>0, <1>1
    <2> QED
      BY <1>1, <2>1, <2>2, TablesKept DEF HistoryInv
  <1>4. OpenerFresh' /\ CreationsFresh'
    BY <1>0, <1>1, <1>2 DEF HistoryInv, CopiesFresh, OpenerFresh, CreationsFresh, Opens
  <1>5. BatchFresh /\ HeldFresh
    BY DEF HistoryInv, CopiesFresh
  <1>6. BatchFresh' /\ HeldFresh'
    <2>1. CASE FindDueCycles(r)
      <3> DEFINE e(c) == [id |-> c, cyc |-> cycles[c], s |-> cycles[c].sub,
                          sub |-> subs[cycles[c].sub], due |-> NoDate, fresh |-> TRUE]
      <3>1. /\ batch'[r] = {e(c) : c \in {d \in DOMAIN cycles : Due(d)}}
            /\ pc'[r] = "pick"
        BY <1>0, <2>1 DEF FindDueCycles, Goto
      <3>2. \A c : /\ e(c).id = c /\ e(c).cyc = cycles[c] /\ e(c).s = cycles[c].sub
                   /\ e(c).sub = subs[cycles[c].sub]
        OBVIOUS
      <3> HIDE DEF e
      <3>3. \A c, d \in DOMAIN cycles : Due(c) /\ Due(d) /\ e(c).s = e(d).s => c = d
        BY <1>0, <3>2 DEF OpenInv, OpenRights, OneOpenCycle, Due, Outstanding
      <3>4. BatchFresh'
        <4> SUFFICES ASSUME NEW m \in batch'[r]
                     PROVE  /\ m.cyc = cycles[m.id] /\ m.sub = subs[m.s]
                            /\ \A k \in batch'[r] : k.s = m.s => k = m
          BY <1>0, <1>1, <3>1 DEF BatchFresh, RunSteps
        <4> QED
          BY <3>1, <3>2, <3>3
      <3> QED
        BY <1>0, <3>1, <3>4 DEF HeldFresh, Failing
    <2>2. CASE PickCycle(r)
      <3>1. PICK m \in batch[r] :
              /\ mem' = [mem EXCEPT ![r] = [m EXCEPT !.cyc.status = "processing"]]
              /\ batch' = [batch EXCEPT ![r] = @ \ {m}]
        BY <2>2 DEF PickCycle, Remember
      <3>2. /\ m \in Memory /\ pc'[r] = "claim"
            /\ m.cyc = cycles[m.id] /\ m.sub = subs[m.s]
            /\ \A k \in batch[r] : k.s = m.s => k = m
        BY <1>0, <1>5, <2>2 DEF PickCycle, Goto, BatchFresh, TypeOK, ProcessTypes,
                                BillsKnownRows
      <3>3. /\ mem'[r].id = m.id /\ mem'[r].s = m.s /\ mem'[r].sub = m.sub
            /\ mem'[r].cyc.due = m.cyc.due /\ mem'[r].cyc.retry = m.cyc.retry
        BY <1>0, <3>1, <3>2 DEF Memory, CycleRow
      <3>4. batch'[r] \subseteq batch[r] /\ \A k \in batch'[r] : k.s # m.s
        BY <1>0, <3>1, <3>2
      <3>5. HeldFresh'
        BY <1>0, <1>1, <3>2, <3>3 DEF HeldFresh, Failing
      <3>6. BatchFresh'
        BY <1>0, <1>1, <1>5, <3>3, <3>4 DEF BatchFresh
      <3> QED
        BY <3>5, <3>6
    <2>3. CASE PaymentAccepted(r)
      <3>1. /\ pc[r] = "pay" /\ pc'[r] = "complete" /\ batch' = batch
            /\ mem'[r] = [mem[r] EXCEPT !.cyc.status = "completed"]
        BY <1>0, <2>3 DEF PaymentAccepted, Goto, Remember
      <3>2. mem[r] \in Memory
        BY <1>0, <3>1 DEF TypeOK, ProcessTypes, BillsKnownRows, RunSteps
      <3>3. /\ mem'[r].id = mem[r].id /\ mem'[r].s = mem[r].s /\ mem'[r].sub = mem[r].sub
            /\ mem'[r].cyc.due = mem[r].cyc.due /\ mem'[r].cyc.retry = mem[r].cyc.retry
        BY <3>1, <3>2 DEF Memory, CycleRow
      <3>4. HeldFresh'
        <4>1. /\ mem[r].cyc.due = cycles[mem[r].id].due
              /\ mem[r].cyc.retry = cycles[mem[r].id].retry
              /\ mem[r].sub = subs[mem[r].s]
          BY <1>5, <3>1 DEF HeldFresh
        <4> QED
          BY <1>0, <1>1, <3>1, <3>3, <4>1 DEF HeldFresh, Failing
      <3>5. BatchFresh'
        BY <1>0, <1>1, <1>5, <3>1, <3>3, BatchFreshKept DEF RunSteps
      <3> QED
        BY <3>4, <3>5
    <2>4. CASE PaymentRejected(r)
      <3>1. /\ pc[r] = "pay" /\ pc'[r] = "faillog" /\ batch' = batch
            /\ mem'[r] = FailInMemory(mem[r])
        BY <1>0, <2>4 DEF PaymentRejected, Goto, Remember
      <3>2. mem[r] \in Memory /\ now \in Date
        BY <1>0, <3>1 DEF TypeOK, TableTypes, ProcessTypes, BillsKnownRows, RunSteps
      <3>3. /\ mem'[r].id = mem[r].id /\ mem'[r].s = mem[r].s
            /\ mem'[r].cyc.retry = mem[r].cyc.retry + 1
            /\ mem'[r].cyc.status = StatusAfterFailure(mem[r].cyc.retry + 1)
        BY <3>1, <3>2, FailKeepsMemory
      <3>4. /\ mem'[r].cyc.due = mem[r].cyc.due
            /\ mem'[r].sub = FailedSubscription(mem[r].sub, mem[r].cyc.retry + 1)
        <4> DEFINE n == mem[r].cyc.retry + 1
        <4>1. /\ mem'[r].cyc = FailedCycle(mem[r].cyc, n)
              /\ mem'[r].sub = FailedSubscription(mem[r].sub, n)
          BY <3>1, <3>2 DEF FailInMemory, NextAttempt, Memory
        <4>2. FailedCycle(mem[r].cyc, n).due = mem[r].cyc.due
          BY <3>2 DEF FailedCycle, Memory, CycleRow
        <4> QED
          BY <4>1, <4>2
      <3>5. HeldFresh'
        <4>1. /\ mem[r].cyc.due = cycles[mem[r].id].due
              /\ mem[r].cyc.retry = cycles[mem[r].id].retry
              /\ mem[r].sub = subs[mem[r].s]
          BY <1>5, <3>1 DEF HeldFresh
        <4> QED
          BY <1>0, <1>1, <3>1, <3>3, <3>4, <4>1 DEF HeldFresh, Failing
      <3>6. BatchFresh'
        BY <1>0, <1>1, <1>5, <3>1, <3>3, BatchFreshKept DEF RunSteps
      <3> QED
        BY <3>5, <3>6
    <2>5. CASE LogFailure(r)
      <3>1. /\ pc[r] = "faillog" /\ pc'[r] = "failcycle" /\ batch' = batch
            /\ mem'[r] = mem[r]
        BY <1>0, <2>5 DEF LogFailure, Goto
      <3> QED
        BY <1>0, <1>1, <1>5, <3>1 DEF HeldFresh, BatchFresh, Failing, RunSteps
    <2>6. CASE EndRun(r) \/ LogOpened(r)
      <3>1. /\ pc'[r] \in {"idle", "pick"} /\ batch' = batch
        BY <1>0, <2>6 DEF EndRun, LogOpened, Goto
      <3> QED
        BY <1>0, <1>1, <1>5, <3>1 DEF HeldFresh, BatchFresh, Failing, RunSteps
    <2> QED
      BY <2>1, <2>2, <2>3, <2>4, <2>5, <2>6
  <1> QED
    BY <1>3, <1>4, <1>6 DEF HistoryInv, CopiesFresh

\* The steps of a request that write neither table.
LEMMA QuietRequestStepKeepsHistory ==
    ASSUME OneRun, HistoryInv, LedgerInv', NEW q \in Requests,
           CreateSubscription(q) \/ LogOpened(q)
    PROVE  HistoryInv'
  <1>0. /\ LedgerInv /\ OpenInv /\ TypeOK /\ q \in Procs /\ q \notin Runs
        /\ Procs = Runs \cup Requests /\ Runs \cap Requests = {}
        /\ pc \in [Procs -> RunSteps \cup RequestSteps \cup {"idle", "pick"}]
        /\ DOMAIN mem = Procs
        /\ \A s : \A p \in Procs : ChildInserted(mem, s)[p] = mem[p]
    BY HistoryFacts
  <1>1. /\ UNCHANGED <<subs, cycles, batch>>
        /\ \A p \in Procs \ {q} : pc'[p] = pc[p]
        /\ pc[q] \notin Opens /\ pc'[q] \in {"insert", "idle"}
    BY <1>0 DEF CreateSubscription, LogOpened, Goto, tables, Opens
  <1>2. /\ \A p \in Procs \ {q} : mem'[p] = mem[p]
        /\ pc'[q] = "insert" => mem'[q].sub.status = "active" /\ mem'[q].sub.failed = 0
    <2>0. DOMAIN ChildInserted(mem, mem[q].s) = Procs
      BY DEF ChildInserted
    <2>1. CASE LogOpened(q)
      BY <1>0, <2>0, <2>1 DEF LogOpened, Goto
    <2>2. CASE CreateSubscription(q)
      BY <1>0, <2>2 DEF CreateSubscription, Remember
    <2> QED
      BY <2>1, <2>2
  <1>3. TablesFit'
    <2>1. \A p \in Procs :
             /\ pc'[p] \in Opens => pc[p] \in Opens /\ mem'[p].s = mem[p].s
             /\ pc'[p] = "open" <=> pc[p] = "open"
      BY <1>1, <1>2 DEF Opens
    <2>2. \A x \in Runs : pc'[x] = pc[x] /\ mem'[x] = mem[x]
      BY <1>0, <1>1, <1>2
    <2> QED
      BY <1>1, <2>1, <2>2, TablesKept DEF HistoryInv
  <1>4. OpenerFresh' /\ CreationsFresh'
    BY <1>0, <1>1, <1>2 DEF HistoryInv, CopiesFresh, OpenerFresh, CreationsFresh, Opens
  <1>5. BatchFresh' /\ HeldFresh'
    <2>1. \A x \in Runs : pc'[x] = pc[x] /\ mem'[x] = mem[x]
      BY <1>0, <1>1, <1>2
    <2> QED
      BY <1>1, <2>1 DEF HistoryInv, CopiesFresh, BatchFresh, HeldFresh
  <1> QED
    BY <1>3, <1>4, <1>5 DEF HistoryInv, CopiesFresh

LEMMA LastDueKept ==
    ASSUME \A p \in Procs : /\ pc'[p] = "open" <=> pc[p] = "open"
                            /\ pc[p] = "open" => mem'[p].s = mem[p].s,
           NEW s, subs'[s].next = subs[s].next
    PROVE  LastDue(s)' = LastDue(s)
  BY DEF LastDue

LEMMA ChainedKept ==
    ASSUME Chained, DOMAIN cycles' = DOMAIN cycles, DOMAIN subs' = DOMAIN subs,
           \A c \in DOMAIN cycles :
              cycles'[c].sub = cycles[c].sub /\ cycles'[c].due = cycles[c].due,
           \A s \in DOMAIN subs : LastDue(s)' = LastDue(s)
    PROVE  Chained'
  <1>1. \A s : CyclesOf(s)' = CyclesOf(s)
    BY DEF CyclesOf
  <1>2. \A s : \A c \in CyclesOf(s) : c \in DOMAIN cycles
    BY DEF CyclesOf
  <1> QED
    BY <1>1, <1>2 DEF Chained

\* The failed attempts of a subscription whose cycles keep their count.
LEMMA AttemptsKept ==
    ASSUME NEW s, CyclesOf(s)' = CyclesOf(s),
           \A c \in CyclesOf(s) : c \in DOMAIN cycles' /\ cycles'[c].retry = cycles[c].retry
    PROVE  FailedAttempts(s)' = FailedAttempts(s)
  <1> DEFINE n == [c \in DOMAIN cycles |-> cycles[c].retry]
             m == [c \in DOMAIN cycles' |-> cycles'[c].retry]
  <1>1. \A c \in CyclesOf(s) : m[c] = n[c]
    BY DEF CyclesOf
  <1>2. FailedAttempts(s) = Tally(n, CyclesOf(s)) /\ FailedAttempts(s)' = Tally(m, CyclesOf(s))
    BY DEF FailedAttempts
  <1> HIDE DEF n, m
  <1> QED
    BY <1>1, <1>2, TallySame

LEMMA FailuresKept ==
    ASSUME FailuresCounted, DOMAIN cycles' = DOMAIN cycles, DOMAIN subs' = DOMAIN subs,
           \A c \in DOMAIN cycles :
              /\ cycles'[c].sub = cycles[c].sub /\ cycles'[c].retry = cycles[c].retry
              /\ cycles'[c].status = "failed" <=> cycles[c].status = "failed",
           \A s \in DOMAIN subs :
              /\ subs'[s].failed = subs[s].failed
              /\ subs'[s].status = "past_due" <=> subs[s].status = "past_due",
           \A r \in Runs :
              /\ pc'[r] = "failsub" <=> pc[r] = "failsub"
              /\ pc[r] = "failsub" => mem'[r].id = mem[r].id /\ mem'[r].s = mem[r].s
    PROVE  FailuresCounted'
  <1>1. \A s : CyclesOf(s)' = CyclesOf(s)
    BY DEF CyclesOf
  <1>2. \A s : \A c \in CyclesOf(s) : c \in DOMAIN cycles
    BY DEF CyclesOf
  <1>3. \A s : FailedAttempts(s)' = FailedAttempts(s)
    BY <1>1, <1>2, AttemptsKept
  <1> QED
    BY <1>1, <1>2, <1>3 DEF FailuresCounted

\* The rows of a subscription are few enough to count.
LEMMA AttemptsFinite ==
    ASSUME HistoryInv, NEW s
    PROVE  IsFiniteSet(FailedAttempts(s)) /\ IsFiniteSet(CyclesOf(s))
  <1> DEFINE n == [c \in DOMAIN cycles |-> cycles[c].retry]
  <1>1. /\ DOMAIN cycles \subseteq CycleIds /\ MaxRetries \in Nat
        /\ \A c \in DOMAIN cycles : cycles[c].retry \in Nat /\ cycles[c].retry <= MaxRetries
    BY BillingAssumption
       DEF BillingAssumption, HistoryInv, LedgerInv, OpenInv, ChargesInv, BillingInv,
           TypeOK, TableTypes, CycleRow, Sound
  <1>2. 1 \in Int /\ MaxCycles \in Int
    BY BillingAssumption DEF BillingAssumption
  <1>3. IsFiniteSet(CycleIds)
    BY <1>2, FS_Interval DEF CycleIds
  <1>4. CyclesOf(s) \in SUBSET CycleIds
    BY <1>1 DEF CyclesOf
  <1>5. IsFiniteSet(CyclesOf(s))
    BY <1>3, <1>4, FS_Subset
  <1>6. \A c \in CyclesOf(s) : n[c] \in Nat /\ n[c] <= MaxRetries
    BY <1>1 DEF CyclesOf
  <1> HIDE DEF n
  <1>7. IsFiniteSet(Tally(n, CyclesOf(s)))
    BY <1>1, <1>5, <1>6, TallyFinite
  <1> QED
    BY <1>5, <1>7 DEF FailedAttempts, n

\* A run saves its cycle.
LEMMA SaveCycleKeepsHistory ==
    ASSUME OneRun, HistoryInv, LedgerInv', NEW r \in Runs,
           SaveClaim(r) \/ SaveCompleted(r) \/ SaveFailedCycle(r)
    PROVE  HistoryInv'
  <1> DEFINE s == mem[r].s
             k == mem[r].id
  <1>0. /\ LedgerInv /\ OpenInv /\ ChargesInv /\ TypeOK /\ r \in Procs /\ r \notin Requests
        /\ Procs = Runs \cup Requests /\ Runs \cap Requests = {}
        /\ pc \in [Procs -> RunSteps \cup RequestSteps \cup {"idle", "pick"}]
        /\ DOMAIN mem = Procs
        /\ \A x \in Runs : x = r
    BY HistoryFacts
  <1>1. /\ pc[r] \in RunSteps /\ UNCHANGED <<subs, batch>>
        /\ cycles' = [cycles EXCEPT ![k] = mem[r].cyc]
        /\ \/ pc[r] = "claim" /\ pc'[r] = "pay" /\ mem'[r] = mem[r]
           \/ pc[r] = "complete" /\ pc'[r] = "advance" /\ mem'[r] = AdvanceInMemory(mem[r])
           \/ pc[r] = "failcycle" /\ pc'[r] = "failsub" /\ mem'[r] = mem[r]
        /\ \A p \in Procs \ {r} : pc'[p] = pc[p] /\ mem'[p] = mem[p]
    BY <1>0 DEF SaveClaim, SaveCompleted, SaveFailedCycle, Goto, Remember, RunSteps
  <1>2. /\ mem[r] \in Memory /\ k \in DOMAIN cycles /\ s \in DOMAIN subs
        /\ cycles[k].sub = s /\ mem[r].cyc.sub = s
        /\ mem'[r].id = k /\ mem'[r].s = s
    <2>1. BillsKnownRows(mem[r])
      BY <1>0, <1>1 DEF TypeOK, ProcessTypes
    <2> QED
      BY <1>1, <2>1, AdvanceKeepsMemory DEF BillsKnownRows
  <1>3. /\ mem[r].cyc.due = cycles[k].due
        /\ Outstanding(k)
        /\ pc[r] # "failcycle" =>
              /\ mem[r].cyc.retry = cycles[k].retry
              /\ mem[r].sub = subs[s]
              /\ mem[r].cyc.status # "failed"
        /\ pc[r] = "failcycle" =>
              /\ mem[r].cyc.retry = cycles[k].retry + 1
              /\ mem[r].cyc.status = StatusAfterFailure(mem[r].cyc.retry)
              /\ mem[r].sub = FailedSubscription(subs[s], mem[r].cyc.retry)
        /\ pc[r] = "complete" => mem[r].cyc.status = "completed"
    <2>1. HeldFresh /\ CopyCounted /\ FailingClaimed
      BY <1>0 DEF HistoryInv, CopiesFresh, ChargesInv, OpenInv
    <2>2. Outstanding(k)
      BY <1>1, <2>1 DEF CopyCounted, FailingClaimed, Outstanding
    <2>3. pc[r] \in {"claim", "complete"} => mem[r].cyc.status \in {"processing", "completed"}
      BY <1>1, <2>1 DEF CopyCounted, Charged
    <2>4. pc[r] = "complete" => mem[r].cyc.status = "completed"
      BY <1>1, <2>1 DEF CopyCounted, Charged
    <2>5. pc[r] \in {"claim", "complete"} =>
            /\ mem[r].cyc.due = cycles[k].due
            /\ mem[r].cyc.retry = cycles[k].retry
            /\ mem[r].sub = subs[s]
      BY <2>1 DEF HeldFresh
    <2>6. pc[r] = "failcycle" =>
            /\ mem[r].cyc.due = cycles[k].due
            /\ mem[r].cyc.retry = cycles[k].retry + 1
            /\ mem[r].cyc.status = StatusAfterFailure(mem[r].cyc.retry)
            /\ mem[r].sub = FailedSubscription(subs[s], mem[r].cyc.retry)
      BY <2>1 DEF HeldFresh, Failing
    <2> QED
      BY <1>1, <2>2, <2>3, <2>4, <2>5, <2>6
  <1>4. /\ DOMAIN cycles' = DOMAIN cycles /\ cycles'[k] = mem[r].cyc
        /\ \A c \in DOMAIN cycles : c # k => cycles'[c] = cycles[c]
        /\ \A c \in DOMAIN cycles :
             cycles'[c].sub = cycles[c].sub /\ cycles'[c].due = cycles[c].due
    BY <1>1, <1>2, <1>3
  <1> HIDE DEF s, k
  <1>5. IdsInOrder'
    BY <1>4 DEF HistoryInv, TablesFit, IdsInOrder
  <1>6. Chained'
    <2>1. \A p \in Procs : /\ pc'[p] = "open" <=> pc[p] = "open"
                           /\ pc[p] = "open" => mem'[p].s = mem[p].s
      BY <1>1
    <2>2. \A x \in DOMAIN subs : LastDue(x)' = LastDue(x)
      BY <1>1, <2>1, LastDueKept
    <2> QED
      BY <1>1, <1>4, <2>2, ChainedKept DEF HistoryInv, TablesFit
  <1>7. FailuresCounted'
    <2>0. FailuresCounted
      BY DEF HistoryInv, TablesFit
    <2>1. CASE pc[r] # "failcycle"
      <3>1. \A c \in DOMAIN cycles :
              /\ cycles'[c].retry = cycles[c].retry
              /\ cycles'[c].status = "failed" <=> cycles[c].status = "failed"
        BY <1>3, <1>4, <2>1 DEF Outstanding
      <3>2. \A x \in Runs : pc'[x] # "failsub" /\ pc[x] # "failsub"
        BY <1>0, <1>1, <2>1
      <3> QED
        BY <1>1, <1>4, <2>0, <3>1, <3>2, FailuresKept
    <2>2. CASE pc[r] = "failcycle"
      <3>1. pc'[r] = "failsub" /\ mem'[r].id = k /\ mem'[r].s = s
        BY <1>1, <1>2, <2>2
      <3>2. \A x : CyclesOf(x)' = CyclesOf(x)
        BY <1>4 DEF CyclesOf
      <3> SUFFICES ASSUME NEW x \in DOMAIN subs
                   PROVE  /\ Cardinality(FailedAttempts(x)') = subs[x].failed +
                               (IF s = x THEN 1 ELSE 0)
                          /\ subs[x].status = "past_due" <=>
                               \E c \in CyclesOf(x) : cycles'[c].status = "failed" /\ c # k
        BY <1>0, <1>1, <3>1, <3>2 DEF FailuresCounted
      <3>3. /\ Cardinality(FailedAttempts(x)) = subs[x].failed + 0
            /\ subs[x].status = "past_due" <=> \E c \in CyclesOf(x) : cycles[c].status = "failed"
        <4>1. \A y \in Runs : pc[y] # "failsub"
          BY <1>0, <2>2
        <4> QED
          BY <2>0, <4>1 DEF FailuresCounted
      <3>4. subs[x].failed \in Nat
        BY <1>0 DEF TypeOK, TableTypes, SubRow
      <3>5. \A c \in CyclesOf(x) : c # k => cycles'[c] = cycles[c]
        BY <1>4 DEF CyclesOf
      <3>6. subs[x].status = "past_due" <=>
              \E c \in CyclesOf(x) : cycles'[c].status = "failed" /\ c # k
        BY <1>3, <3>3, <3>5 DEF Outstanding
      <3>7. CASE s # x
        <4>1. k \notin CyclesOf(x)
          BY <1>2, <3>7 DEF CyclesOf
        <4>2. FailedAttempts(x)' = FailedAttempts(x)
          BY <1>4, <3>2, <3>5, <4>1, AttemptsKept DEF CyclesOf
        <4> QED
          BY <3>3, <3>4, <3>6, <3>7, <4>2
      <3>8. CASE s = x
        <4> DEFINE n == [c \in DOMAIN cycles |-> cycles[c].retry]
                   m == [c \in DOMAIN cycles' |-> cycles'[c].retry]
        <4>1. FailedAttempts(x) = Tally(n, CyclesOf(x)) /\ FailedAttempts(x)' = Tally(m, CyclesOf(x))
          BY <3>2 DEF FailedAttempts
        <4>2. /\ k \in CyclesOf(x) /\ n[k] \in Nat /\ m[k] = n[k] + 1
              /\ \A c \in CyclesOf(x) \ {k} : m[c] = n[c]
          BY <1>0, <1>2, <1>3, <1>4, <2>2, <3>8 DEF CyclesOf, TypeOK, TableTypes, CycleRow
        <4>3. IsFiniteSet(Tally(n, CyclesOf(x)))
          BY <4>1, AttemptsFinite
        <4> HIDE DEF n, m
        <4>4. Cardinality(FailedAttempts(x)') = Cardinality(FailedAttempts(x)) + 1
          BY <4>1, <4>2, <4>3, TallyOneMore
        <4> QED
          BY <3>3, <3>4, <3>6, <3>8, <4>4
      <3> QED
        BY <3>7, <3>8
    <2> QED
      BY <2>1, <2>2
  <1>8. StoppedForGood'
    <2>0. StoppedForGood /\ OneOpenCycle /\ NoneWhileOpening
      BY <1>0 DEF HistoryInv, TablesFit, OpenInv, OpenRights
    <2>1. \A c \in DOMAIN cycles : cycles[c].status = "failed" => cycles[c].sub # s
      BY <1>2, <1>3, <2>0 DEF StoppedForGood
    <2>2. \A c \in DOMAIN cycles : Outstanding(c)' => Outstanding(c)
      BY <1>3, <1>4 DEF Outstanding
    <2>3. \A p \in Procs : pc'[p] \in Opens =>
             mem'[p].s = s \/ (pc[p] \in Opens /\ mem'[p].s = mem[p].s)
      BY <1>1, <1>2
    <2> SUFFICES ASSUME NEW c \in DOMAIN cycles, cycles'[c].status = "failed"
                 PROVE  /\ \A d \in DOMAIN cycles : cycles[d].sub = cycles[c].sub => ~ Outstanding(d)'
                        /\ \A p \in Procs : pc'[p] \in Opens => mem'[p].s # cycles[c].sub
      BY <1>4 DEF StoppedForGood
    <2>4. CASE c # k
      <3>1. cycles[c].status = "failed" /\ cycles[c].sub # s
        BY <1>4, <2>1, <2>4
      <3> QED
        BY <2>0, <2>2, <2>3, <3>1 DEF StoppedForGood
    <2>5. CASE c = k
      <3>1. pc'[r] \notin Opens /\ cycles[c].sub = s
        BY <1>1, <1>2, <1>3, <1>4, <2>5 DEF Opens
      <3>2. \A p \in Procs : pc'[p] \in Opens => mem'[p].s # s
        BY <1>1, <1>2, <1>3, <2>0, <3>1 DEF NoneWhileOpening
      <3>3. \A d \in DOMAIN cycles : cycles[d].sub = s /\ d # k => ~ Outstanding(d)
        BY <1>2, <1>3, <2>0 DEF OneOpenCycle
      <3>4. \A d \in DOMAIN cycles : cycles[d].sub = s /\ d # k => ~ Outstanding(d)'
        BY <2>2, <3>3
      <3>5. ~ Outstanding(c)'
        BY DEF Outstanding
      <3> QED
        BY <2>5, <3>1, <3>2, <3>4, <3>5
    <2> QED
      BY <2>4, <2>5
  <1>9. BatchFresh'
    <2>1. \A m \in batch[r] : m.id # k /\ m.id \in DOMAIN cycles
      BY <1>0, <1>1 DEF ChargesInv, BatchCounted, TypeOK, ProcessTypes, BillsKnownRows, k
    <2>2. mem'[r].s = mem[r].s
      BY <1>2 DEF s
    <2> QED
      BY <1>0, <1>1, <1>4, <2>1, <2>2 DEF HistoryInv, CopiesFresh, BatchFresh
  <1>10. HeldFresh'
    <2>1. CASE pc[r] = "claim"
      BY <1>0, <1>1, <1>2, <1>3, <1>4, <2>1 DEF HeldFresh, Failing
    <2>2. CASE pc[r] = "complete"
      BY <1>0, <1>1, <2>2 DEF HeldFresh, Failing
    <2>3. CASE pc[r] = "failcycle"
      <3>1. mem[r].cyc.retry \in Nat
        BY <1>2 DEF Memory, CycleRow
      <3> QED
        BY <1>0, <1>1, <1>2, <1>3, <1>4, <2>3, <3>1 DEF HeldFresh, Failing
    <2> QED
      BY <1>1, <2>1, <2>2, <2>3
  <1>11. OpenerFresh'
    <2>1. \A p \in Procs \ {r} : pc'[p] = pc[p] /\ mem'[p] = mem[p] /\ subs' = subs
      BY <1>1
    <2>2. pc'[r] = "advance" =>
            /\ mem'[r].due = subs[s].next
            /\ mem'[r].sub = [subs[s] EXCEPT !.next = NextBillingDate(@)]
      <3>1. SUFFICES ASSUME pc'[r] = "advance"
                     PROVE  /\ mem'[r].due = subs[s].next
                            /\ mem'[r].sub = [subs[s] EXCEPT !.next = NextBillingDate(@)]
        OBVIOUS
      <3>2. mem'[r] = AdvanceInMemory(mem[r]) /\ mem[r].sub = subs[s]
        BY <1>1, <1>3, <3>1
      <3> QED
        BY <1>2, <3>2 DEF AdvanceInMemory, Memory, SubRow
    <2>3. pc'[r] # "open"
      BY <1>1
    <2> QED
      BY <1>1, <1>2, <2>1, <2>2, <2>3 DEF HistoryInv, CopiesFresh, OpenerFresh
  <1>12. CreationsFresh'
    BY <1>0, <1>1, <1>4 DEF HistoryInv, CopiesFresh, CreationsFresh
  <1> QED
    BY <1>5, <1>6, <1>7, <1>8, <1>9, <1>10, <1>11, <1>12
       DEF HistoryInv, CopiesFresh, TablesFit

\* A subscription that is about to get its first cycle is not billed by any run.
LEMMA BilledElsewhere ==
    ASSUME OneRun, HistoryInv
    PROVE  /\ \A q \in Requests, r \in Runs :
                 pc[q] \in Opens /\ pc[r] \in RunSteps => mem[q].s # mem[r].s
           /\ \A q \in Requests, r \in Runs :
                 pc[q] \in Opens => \A m \in batch[r] : m.s # mem[q].s
  <1>1. CreationsFresh /\ TypeOK
    BY HistoryFacts DEF HistoryInv, CopiesFresh
  <1> QED
    BY <1>1 DEF CreationsFresh, TypeOK, ProcessTypes, BillsKnownRows

\* createBillingCycle saves the moved billing date.
LEMMA SaveDateKeepsHistory ==
    ASSUME OneRun, HistoryInv, LedgerInv', NEW p \in Procs, SaveNextBillingDate(p)
    PROVE  HistoryInv'
  <1>00. PICK s : s = mem[p].s
    OBVIOUS
  <1> USE <1>00
  <1>0. /\ LedgerInv /\ OpenInv /\ ChargesInv /\ TypeOK
        /\ Procs = Runs \cup Requests /\ Runs \cap Requests = {}
        /\ pc \in [Procs -> RunSteps \cup RequestSteps \cup {"idle", "pick"}]
        /\ DOMAIN mem = Procs
        /\ \A x, r \in Runs : x = r
    BY HistoryFacts
  <1>1. /\ pc[p] = "advance" /\ pc'[p] = "open" /\ UNCHANGED <<cycles, batch, mem>>
        /\ subs' = [subs EXCEPT ![s] = mem[p].sub]
        /\ \A x \in Procs \ {p} : pc'[x] = pc[x]
    BY <1>0 DEF SaveNextBillingDate, Goto
  <1>2. /\ s \in DOMAIN subs /\ subs[s] \in SubRow
        /\ mem[p].due = subs[s].next
        /\ mem[p].sub = [subs[s] EXCEPT !.next = NextBillingDate(@)]
    BY <1>0, <1>1 DEF HistoryInv, CopiesFresh, OpenerFresh, TypeOK, TableTypes,
                      ProcessTypes, BillsKnownRows, RunSteps, RequestSteps
  <1>3. /\ DOMAIN subs' = DOMAIN subs
        /\ subs'[s].next = NextBillingDate(subs[s].next)
        /\ subs'[s].failed = subs[s].failed /\ subs'[s].status = subs[s].status
        /\ \A x \in DOMAIN subs : x # s => subs'[x] = subs[x]
    BY <1>1, <1>2 DEF SubRow
  <1>4. \A x \in Procs \ {p} : pc[x] \in Opens => mem[x].s # s
    BY <1>0, <1>1 DEF OpenInv, OpenRights, OneOpener, Opens
  <1>5. \A r \in Runs : /\ p # r /\ pc[r] \in RunSteps => mem[r].s # s
                        /\ \A m \in batch[r] : m.s # s
    <2>1. CASE p \in Runs
      BY <1>0, <1>1, <2>1 DEF HistoryInv, CopiesFresh, BatchFresh, RunSteps
    <2>2. CASE p \in Requests
      BY <1>1, <2>2, BilledElsewhere DEF Opens
    <2> QED
      BY <1>0, <2>1, <2>2
  <1>6. IdsInOrder'
    BY <1>1 DEF HistoryInv, TablesFit, IdsInOrder
  <1>7. Chained'
    <2>1. LastDue(s)' = LastDue(s)
      <3>1. LastDue(s) = subs[s].next - Interval
        BY <1>1, <1>4 DEF LastDue, Opens
      <3>2. LastDue(s)' = subs'[s].next - Interval - Interval
        BY <1>1 DEF LastDue
      <3> QED
        BY <1>2, <1>3, <3>1, <3>2, BillingAssumption
           DEF BillingAssumption, NextBillingDate, SubRow, Date
    <2>2. \A x \in DOMAIN subs : x # s => LastDue(x)' = LastDue(x)
      BY <1>1, <1>3 DEF LastDue
    <2> QED
      BY <1>1, <1>3, <2>1, <2>2, ChainedKept DEF HistoryInv, TablesFit
  <1>8. FailuresCounted'
    <2>1. \A x \in DOMAIN subs :
             /\ subs'[x].failed = subs[x].failed
             /\ subs'[x].status = "past_due" <=> subs[x].status = "past_due"
      BY <1>3
    <2>2. \A r \in Runs : pc'[r] = "failsub" <=> pc[r] = "failsub"
      BY <1>0, <1>1
    <2> QED
      BY <1>1, <1>3, <2>1, <2>2, FailuresKept DEF HistoryInv, TablesFit
  <1>9. StoppedForGood'
    BY <1>1 DEF HistoryInv, TablesFit, StoppedForGood, Outstanding, Opens
  <1>10. BatchFresh'
    <2>1. \A r \in Runs : pc'[r] \in RunSteps => pc[r] \in RunSteps
      BY <1>0, <1>1 DEF RunSteps
    <2>2. \A r \in Runs : \A m \in batch[r] : m.s \in DOMAIN subs
      BY <1>0 DEF TypeOK, ProcessTypes, BillsKnownRows
    <2> QED
      BY <1>1, <1>3, <1>5, <2>1, <2>2 DEF HistoryInv, CopiesFresh, BatchFresh
  <1>11. HeldFresh'
    <2>1. \A r \in Runs : p = r \/ (pc'[r] = pc[r] /\ mem'[r] = mem[r] /\
             (pc[r] \in RunSteps => subs'[mem[r].s] = subs[mem[r].s]))
      BY <1>0, <1>1, <1>3, <1>5 DEF TypeOK, ProcessTypes, BillsKnownRows
    <2> QED
      BY <1>1, <2>1 DEF HistoryInv, CopiesFresh, HeldFresh, Failing, RunSteps
  <1>12. OpenerFresh'
    <2>1. \A x \in Procs \ {p} : pc'[x] \in Opens =>
             pc'[x] = pc[x] /\ subs'[mem[x].s] = subs[mem[x].s]
      BY <1>0, <1>1, <1>3, <1>4 DEF TypeOK, ProcessTypes, BillsKnownRows, Opens,
                                    RunSteps, RequestSteps
    <2>2. NextBillingDate(mem[p].due) = subs'[s].next
      BY <1>2, <1>3
    <2> QED
      BY <1>1, <2>1, <2>2 DEF HistoryInv, CopiesFresh, OpenerFresh, Opens
  <1>13. CreationsFresh'
    BY <1>0, <1>1 DEF HistoryInv, CopiesFresh, CreationsFresh, Opens
  <1> QED
    BY <1>6, <1>7, <1>8, <1>9, <1>10, <1>11, <1>12, <1>13
       DEF HistoryInv, CopiesFresh, TablesFit

\* handlePaymentFailure saves the subscription.
LEMMA SaveFailureKeepsHistory ==
    ASSUME OneRun, HistoryInv, LedgerInv', NEW r \in Runs, SaveFailedSubscription(r)
    PROVE  HistoryInv'
  <1> DEFINE s == mem[r].s
             k == mem[r].id
             n == mem[r].cyc.retry
  <1>0. /\ LedgerInv /\ OpenInv /\ ChargesInv /\ TypeOK /\ r \in Procs /\ r \notin Requests
        /\ Procs = Runs \cup Requests /\ Runs \cap Requests = {}
        /\ pc \in [Procs -> RunSteps \cup RequestSteps \cup {"idle", "pick"}]
        /\ DOMAIN mem = Procs
        /\ \A x \in Runs : x = r
    BY HistoryFacts
  <1>1. /\ pc[r] = "failsub" /\ pc'[r] = "pick" /\ UNCHANGED <<cycles, batch>>
        /\ subs' = [subs EXCEPT ![s] = mem[r].sub]
        /\ \A x \in Procs \ {r} : pc'[x] = pc[x] /\ mem'[x] = mem[x]
    BY <1>0 DEF SaveFailedSubscription, Goto, Remember
  <1>2. /\ s \in DOMAIN subs /\ subs[s] \in SubRow /\ k \in DOMAIN cycles
        /\ cycles[k].sub = s
        /\ mem[r].sub = FailedSubscription(subs[s], n)
        /\ cycles[k].status = StatusAfterFailure(n)
    BY <1>0, <1>1 DEF HistoryInv, CopiesFresh, HeldFresh, TypeOK, TableTypes,
                      ProcessTypes, BillsKnownRows, RunSteps, Failing
  <1>3. /\ DOMAIN subs' = DOMAIN subs
        /\ subs'[s].next = subs[s].next
        /\ subs'[s].failed = subs[s].failed + 1
        /\ subs'[s].status = IF AttemptsLeft(n) THEN subs[s].status ELSE "past_due"
        /\ \A x \in DOMAIN subs : x # s => subs'[x] = subs[x]
    BY <1>1, <1>2 DEF FailedSubscription, SubRow
  <1> HIDE DEF s, k, n
  <1>4. IdsInOrder'
    BY <1>1 DEF HistoryInv, TablesFit, IdsInOrder
  <1>5. Chained'
    <2>1. \A p \in Procs : /\ pc'[p] = "open" <=> pc[p] = "open"
                           /\ pc[p] = "open" => mem'[p].s = mem[p].s
      BY <1>1
    <2>2. \A x \in DOMAIN subs : LastDue(x)' = LastDue(x)
      BY <1>3, <2>1, LastDueKept
    <2> QED
      BY <1>1, <1>3, <2>2, ChainedKept DEF HistoryInv, TablesFit
  <1>6. FailuresCounted'
    <2>1. \A x : CyclesOf(x)' = CyclesOf(x) /\ FailedAttempts(x)' = FailedAttempts(x)
      BY <1>1 DEF CyclesOf, FailedAttempts
    <2> SUFFICES ASSUME NEW x \in DOMAIN subs
                 PROVE  /\ Cardinality(FailedAttempts(x)) = subs'[x].failed + 0
                        /\ subs'[x].status = "past_due" <=>
                             \E c \in CyclesOf(x) : cycles[c].status = "failed"
      BY <1>0, <1>1, <1>3, <2>1 DEF FailuresCounted
    <2>2. /\ Cardinality(FailedAttempts(x)) = subs[x].failed + (IF s = x THEN 1 ELSE 0)
          /\ subs[x].status = "past_due" <=>
               \E c \in CyclesOf(x) : cycles[c].status = "failed" /\ c # k
      BY <1>0, <1>1 DEF HistoryInv, TablesFit, FailuresCounted, s, k
    <2>3. subs[x].failed \in Nat
      BY <1>0 DEF TypeOK, TableTypes, SubRow
    <2>4. CASE x # s
      <3>1. k \notin CyclesOf(x)
        BY <1>2, <2>4 DEF CyclesOf
      <3> QED
        BY <1>3, <2>2, <2>3, <2>4, <3>1
    <2>5. CASE x = s
      <3>1. k \in CyclesOf(x)
        BY <1>2, <2>5 DEF CyclesOf
      <3>2. CASE AttemptsLeft(n)
        BY <1>2, <1>3, <2>2, <2>3, <2>5, <3>2 DEF StatusAfterFailure
      <3>3. CASE ~ AttemptsLeft(n)
        BY <1>2, <1>3, <2>2, <2>3, <2>5, <3>1, <3>3 DEF StatusAfterFailure
      <3> QED
        BY <3>2, <3>3
    <2> QED
      BY <2>4, <2>5
  <1>7. StoppedForGood'
    BY <1>1 DEF HistoryInv, TablesFit, StoppedForGood, Outstanding, Opens
  <1>8. BatchFresh'
    <2>1. \A m \in batch[r] : m.s # s /\ m.s \in DOMAIN subs
      BY <1>0, <1>1 DEF HistoryInv, CopiesFresh, BatchFresh, RunSteps, TypeOK,
                        ProcessTypes, BillsKnownRows, s
    <2> QED
      BY <1>0, <1>1, <1>3, <2>1 DEF HistoryInv, CopiesFresh, BatchFresh, RunSteps
  <1>9. HeldFresh'
    BY <1>0, <1>1 DEF HeldFresh, Failing
  <1>10. OpenerFresh'
    <2>1. \A x \in Procs \ {r} : pc[x] \in Opens => mem[x].s # s /\ mem[x].s \in DOMAIN subs
      BY <1>0, <1>1, BilledElsewhere DEF TypeOK, ProcessTypes, Opens, RunSteps,
                                         RequestSteps, s
    <2> QED
      BY <1>1, <1>3, <2>1 DEF HistoryInv, CopiesFresh, OpenerFresh, Opens
  <1>11. CreationsFresh'
    BY <1>0, <1>1 DEF HistoryInv, CopiesFresh, CreationsFresh
  <1> QED
    BY <1>4, <1>5, <1>6, <1>7, <1>8, <1>9, <1>10, <1>11
       DEF HistoryInv, CopiesFresh, TablesFit

\* createBillingCycle inserts the next cycle.
LEMMA InsertCycleKeepsHistory ==
    ASSUME OneRun, HistoryInv, LedgerInv', NEW p \in Procs, InsertCycle(p)
    PROVE  HistoryInv'
  <1>00. PICK s : s = mem[p].s
    OBVIOUS
  <1> USE <1>00
  <1>0. /\ LedgerInv /\ OpenInv /\ ChargesInv /\ TypeOK
        /\ Procs = Runs \cup Requests /\ Runs \cap Requests = {}
        /\ pc \in [Procs -> RunSteps \cup RequestSteps \cup {"idle", "pick"}]
        /\ DOMAIN mem = Procs
        /\ \A x, r \in Runs : x = r
        /\ \A x : \A q \in Procs : ChildInserted(mem, x)[q] = mem[q]
    BY HistoryFacts
  <1>01. /\ \A c \in DOMAIN cycles : c \in CycleIds /\ c \in Int /\ cycles[c].due \in Int
         /\ \A c \in CycleIds : c \in Int
         /\ Interval \in Int /\ Interval > 0
    BY <1>0, BillingAssumption
       DEF BillingAssumption, TypeOK, TableTypes, CycleIds, CycleRow, Date
  <1>1. /\ pc[p] = "open" /\ pc'[p] = "log" /\ UNCHANGED <<subs, batch>>
        /\ \A x \in Procs \ {p} : pc'[x] = pc[x]
        /\ \A x \in Procs : mem'[x] = mem[x]
    BY <1>0 DEF InsertCycle, Goto
  <1>2. PICK k \in FreeIds :
          /\ \A d \in FreeIds : k <= d
          /\ cycles' = [x \in DOMAIN cycles \cup {k} |->
                          IF x = k THEN NewCycle(s, mem[p].due) ELSE cycles[x]]
    BY DEF InsertCycle
  <1>3. /\ k \in CycleIds /\ k \notin DOMAIN cycles
        /\ DOMAIN cycles' = DOMAIN cycles \cup {k}
        /\ cycles'[k].sub = s /\ cycles'[k].due = mem[p].due
        /\ cycles'[k].status = "pending" /\ cycles'[k].retry = 0
        /\ \A x \in DOMAIN cycles : cycles'[x] = cycles[x]
    BY <1>2 DEF FreeIds, NewCycle
  <1>4. /\ s \in DOMAIN subs /\ subs[s].next \in Int /\ mem[p].due \in Int
        /\ NextBillingDate(mem[p].due) = subs[s].next
    <2>1. mem[p] \in Memory /\ s \in DOMAIN subs
      BY <1>0, <1>1 DEF TypeOK, ProcessTypes, BillsKnownRows, RunSteps, RequestSteps
    <2>2. mem[p].due \in Date
      BY <2>1 DEF Memory
    <2>3. subs[s].next \in Date
      BY <1>0, <2>1 DEF TypeOK, TableTypes, SubRow
    <2>4. NextBillingDate(mem[p].due) = subs[s].next
      BY <1>1 DEF HistoryInv, CopiesFresh, OpenerFresh
    <2> QED
      BY <2>1, <2>2, <2>3, <2>4 DEF Date
  <1>5. \A x \in Procs \ {p} : pc[x] \in Opens => mem[x].s # s
    BY <1>0, <1>1 DEF OpenInv, OpenRights, OneOpener, Opens
  <1>6. \A c \in DOMAIN cycles : cycles[c].sub = s =>
           ~ Outstanding(c) /\ cycles[c].status # "failed"
    BY <1>0, <1>1 DEF OpenInv, OpenRights, NoneWhileOpening, Opens, HistoryInv,
                      TablesFit, StoppedForGood
  <1>7. \A c \in DOMAIN cycles : c < k
    <2>1. \A c \in DOMAIN cycles : ~ (k < c)
      BY <1>3 DEF HistoryInv, TablesFit, IdsInOrder
    <2> QED
      BY <1>01, <1>3, <2>1
  <1>8. /\ CyclesOf(s)' = CyclesOf(s) \cup {k} /\ k \notin CyclesOf(s)
        /\ \A x : x # s => CyclesOf(x)' = CyclesOf(x)
        /\ \A x : CyclesOf(x) \subseteq DOMAIN cycles
    BY <1>3 DEF CyclesOf
  <1>9. IdsInOrder'
    <2>1. \A d \in CycleIds : d < k => d \in DOMAIN cycles
      BY <1>01, <1>2, <1>3 DEF FreeIds
    <2> QED
      BY <1>3, <2>1 DEF HistoryInv, TablesFit, IdsInOrder
  <1>10. Chained'
    <2>1. Chained
      BY DEF HistoryInv, TablesFit
    <2>2. \A x \in DOMAIN subs : x # s => LastDue(x)' = LastDue(x)
      BY <1>1 DEF LastDue
    <2>3. LastDue(s)' = mem[p].due /\ LastDue(s) = mem[p].due - Interval
      <3>1. LastDue(s)' = subs[s].next - Interval
        BY <1>1, <1>5 DEF LastDue, Opens
      <3>2. LastDue(s) = subs[s].next - Interval - Interval
        BY <1>1 DEF LastDue
      <3> QED
        BY <1>01, <1>4, <3>1, <3>2 DEF NextBillingDate
    <2> SUFFICES ASSUME NEW x \in DOMAIN subs
                 PROVE  /\ \A c \in CyclesOf(x)' :
                            /\ cycles'[c].due <= LastDue(x)'
                            /\ \/ cycles'[c].due = LastDue(x)'
                               \/ \E d \in CyclesOf(x)' : cycles'[d].due = cycles'[c].due + Interval
                            /\ \A d \in CyclesOf(x)' : c < d => cycles'[c].due < cycles'[d].due
                        /\ CyclesOf(x)' # {} => \E c \in CyclesOf(x)' : cycles'[c].due = LastDue(x)'
      BY <1>1 DEF Chained
    <2>4. CASE x # s
      <3>1. \A c \in CyclesOf(x) : cycles'[c] = cycles[c]
        BY <1>3, <1>8
      <3> QED
        BY <1>8, <2>1, <2>2, <2>4, <3>1 DEF Chained
    <2>5. CASE x = s
      <3>1. \A c \in CyclesOf(s) : /\ cycles'[c].due = cycles[c].due /\ cycles[c].due \in Int
                                   /\ cycles[c].due <= mem[p].due - Interval
                                   /\ c < k
        BY <1>01, <1>3, <1>7, <1>8, <2>1, <2>3, <2>5 DEF Chained
      <3>2. \A c \in CyclesOf(s) :
               \/ cycles[c].due + Interval = mem[p].due
               \/ \E d \in CyclesOf(s) : cycles[d].due = cycles[c].due + Interval
        <4>1. \A c \in CyclesOf(s) :
               \/ cycles[c].due = mem[p].due - Interval
               \/ \E d \in CyclesOf(s) : cycles[d].due = cycles[c].due + Interval
          BY <2>1, <2>3, <2>5 DEF Chained
        <4>2. \A c \in CyclesOf(s) : cycles[c].due \in Int
          BY <1>01, <1>8
        <4> QED
          BY <1>01, <1>4, <4>1, <4>2
      <3>3. \A c, d \in CyclesOf(s) : c < d => cycles[c].due < cycles[d].due
        BY <2>1, <2>5 DEF Chained
      <3>4. \A c \in CyclesOf(s) : cycles'[c].due < cycles'[k].due /\ ~ (k < c)
        <4>1. \A c \in CyclesOf(s) : c \in Int /\ k \in Int
          BY <1>01, <1>3, <1>8
        <4> QED
          BY <1>01, <1>3, <1>4, <3>1, <4>1
      <3>5. \A c \in CyclesOf(s)' :
               /\ cycles'[c].due <= mem[p].due
               /\ \/ cycles'[c].due = mem[p].due
                  \/ \E d \in CyclesOf(s)' : cycles'[d].due = cycles'[c].due + Interval
        <4>1. \A c \in CyclesOf(s) : cycles'[c].due <= mem[p].due
          BY <1>01, <1>4, <3>1
        <4>2. \A c \in CyclesOf(s) : \E d \in CyclesOf(s)' : cycles'[d].due = cycles'[c].due + Interval
          BY <1>3, <1>8, <3>1, <3>2
        <4>3. cycles'[k].due <= mem[p].due
          BY <1>3, <1>4
        <4> QED
          BY <1>3, <1>8, <4>1, <4>2, <4>3
      <3>6. \A c, d \in CyclesOf(s)' : c < d => cycles'[c].due < cycles'[d].due
        <4>1. ~ (k < k)
          BY <1>01, <1>3
        <4> QED
          BY <1>8, <3>1, <3>3, <3>4, <4>1
      <3>7. k \in CyclesOf(s)' /\ cycles'[k].due = mem[p].due
        BY <1>3, <1>8
      <3> QED
        BY <2>3, <2>5, <3>5, <3>6, <3>7
    <2> QED
      BY <2>4, <2>5
  <1>11. FailuresCounted'
    <2>1. \A r \in Runs : /\ pc'[r] = "failsub" <=> pc[r] = "failsub"
                          /\ mem'[r] = mem[r]
                          /\ pc[r] = "failsub" => mem[r].id # k
      BY <1>0, <1>1, <1>3 DEF TypeOK, ProcessTypes, BillsKnownRows, RunSteps
    <2>2. \A x : Cardinality(FailedAttempts(x))' = Cardinality(FailedAttempts(x))
      <3> SUFFICES ASSUME NEW x
                   PROVE  FailedAttempts(x)' = FailedAttempts(x)
        OBVIOUS
      <3>1. CASE x # s
        BY <1>3, <1>8, <3>1, AttemptsKept
      <3>2. CASE x = s
        <4> DEFINE n == [c \in DOMAIN cycles |-> cycles[c].retry]
                   m == [c \in DOMAIN cycles' |-> cycles'[c].retry]
        <4>1. /\ FailedAttempts(x) = Tally(n, CyclesOf(s))
              /\ FailedAttempts(x)' = Tally(m, CyclesOf(s) \cup {k})
          BY <1>8, <3>2 DEF FailedAttempts
        <4>2. m[k] = 0 /\ \A d \in CyclesOf(s) \ {k} : m[d] = n[d]
          BY <1>3, <1>8
        <4> HIDE DEF n, m
        <4> QED
          BY <1>8, <4>1, <4>2, TallyOfNewCycle
      <3> QED
        BY <3>1, <3>2
    <2>3. \A x : \A c \in CyclesOf(x)' : cycles'[c].status = "failed" =>
             c \in CyclesOf(x) /\ cycles[c].status = "failed"
      BY <1>3, <1>8
    <2>4. \A x : \A c \in CyclesOf(x) : c \in CyclesOf(x)' /\ cycles'[c] = cycles[c]
      BY <1>3, <1>8
    <2> QED
      BY <1>1, <2>1, <2>2, <2>3, <2>4 DEF HistoryInv, TablesFit, FailuresCounted
  <1>12. StoppedForGood'
    <2>1. \A c \in DOMAIN cycles' : cycles'[c].status = "failed" =>
             c \in DOMAIN cycles /\ cycles[c].status = "failed" /\ cycles[c].sub # s
      BY <1>3, <1>6
    <2>2. \A d \in DOMAIN cycles' : d = k \/ (d \in DOMAIN cycles /\ (Outstanding(d)' => Outstanding(d)))
      BY <1>3 DEF Outstanding
    <2>3. \A x \in Procs : pc'[x] \in Opens => pc[x] \in Opens /\ mem'[x].s = mem[x].s
      BY <1>1 DEF Opens
    <2> QED
      BY <1>3, <2>1, <2>2, <2>3 DEF HistoryInv, TablesFit, StoppedForGood
  <1>13. BatchFresh'
    <2>1. \A r \in Runs : \A m \in batch[r] : m.id \in DOMAIN cycles
      BY <1>0 DEF TypeOK, ProcessTypes, BillsKnownRows
    <2>2. \A r \in Runs : mem'[r] = mem[r] /\ (pc'[r] \in RunSteps => pc[r] \in RunSteps)
      BY <1>0, <1>1 DEF RunSteps
    <2> QED
      BY <1>1, <1>3, <2>1, <2>2 DEF HistoryInv, CopiesFresh, BatchFresh
  <1>14. HeldFresh'
    <2>1. \A r \in Runs : /\ mem'[r] = mem[r]
                          /\ pc'[r] = pc[r] \/ pc'[r] = "log"
                          /\ pc[r] \in RunSteps => cycles'[mem[r].id] = cycles[mem[r].id]
      BY <1>0, <1>1, <1>3 DEF TypeOK, ProcessTypes, BillsKnownRows
    <2> QED
      BY <1>1, <2>1 DEF HistoryInv, CopiesFresh, HeldFresh, Failing, RunSteps
  <1>15. OpenerFresh'
    BY <1>1 DEF HistoryInv, CopiesFresh, OpenerFresh
  <1>16. CreationsFresh'
    <2>1. \A q \in Requests : /\ mem'[q] = mem[q]
                              /\ pc'[q] \in Opens => pc[q] \in Opens /\ mem[q].s # s
                              /\ pc'[q] = pc[q] \/ pc'[q] = "log"
      BY <1>0, <1>1, <1>5 DEF Opens
    <2> QED
      BY <1>3, <2>1 DEF HistoryInv, CopiesFresh, CreationsFresh
  <1> QED
    BY <1>9, <1>10, <1>11, <1>12, <1>13, <1>14, <1>15, <1>16
       DEF HistoryInv, CopiesFresh, TablesFit

\* createSubscription inserts the subscription.
LEMMA InsertSubscriptionKeepsHistory ==
    ASSUME OneRun, HistoryInv, LedgerInv', NEW q \in Requests, InsertSubscription(q)
    PROVE  HistoryInv'
  <1>00. PICK s : s = mem[q].s
    OBVIOUS
  <1> USE <1>00
  <1>0. /\ LedgerInv /\ OpenInv /\ ChargesInv /\ TypeOK /\ q \in Procs /\ q \notin Runs
        /\ Procs = Runs \cup Requests /\ Runs \cap Requests = {}
        /\ pc \in [Procs -> RunSteps \cup RequestSteps \cup {"idle", "pick"}]
        /\ DOMAIN mem = Procs
    BY HistoryFacts
  <1>1. /\ pc[q] = "insert" /\ pc'[q] = "advance" /\ UNCHANGED <<cycles, batch>>
        /\ subs' = [x \in DOMAIN subs \cup {s} |-> IF x = s THEN mem[q].sub ELSE subs[x]]
        /\ mem'[q] = AdvanceInMemory(mem[q])
        /\ \A x \in Procs \ {q} : pc'[x] = pc[x] /\ mem'[x] = mem[x]
    BY <1>0 DEF InsertSubscription, Goto, Remember
  <1>2. /\ mem[q] \in Memory /\ mem[q].sub \in SubRow
        /\ mem[q].sub.status = "active" /\ mem[q].sub.failed = 0
        /\ s \notin DOMAIN subs
    BY <1>0, <1>1 DEF TypeOK, ProcessTypes, RequestSteps, Memory, HistoryInv, CopiesFresh,
                      CreationsFresh, OpenInv, NewSubscriptions
  <1>3. /\ mem'[q].s = s /\ mem'[q].due = mem[q].sub.next
        /\ mem'[q].sub = [mem[q].sub EXCEPT !.next = NextBillingDate(@)]
    BY <1>1, <1>2 DEF AdvanceInMemory, Memory, SubRow
  <1>4. /\ DOMAIN subs' = DOMAIN subs \cup {s} /\ subs'[s] = mem[q].sub
        /\ \A x \in DOMAIN subs : subs'[x] = subs[x]
    BY <1>1, <1>2
  <1>5. \A c \in DOMAIN cycles : cycles[c].sub # s /\ cycles[c].sub \in DOMAIN subs
    BY <1>0, <1>2 DEF TypeOK
  <1>6. CyclesOf(s)' = {} /\ \A x : CyclesOf(x)' = CyclesOf(x)
    BY <1>1, <1>5 DEF CyclesOf
  <1>7. IdsInOrder'
    BY <1>1 DEF HistoryInv, TablesFit, IdsInOrder
  <1>8. Chained'
    <2>1. \A x \in DOMAIN subs : LastDue(x)' = LastDue(x)
      BY <1>1, <1>4 DEF LastDue
    <2> QED
      BY <1>1, <1>4, <1>6, <2>1 DEF HistoryInv, TablesFit, Chained
  <1>9. FailuresCounted'
    <2>1. \A r \in Runs : /\ pc'[r] = pc[r] /\ mem'[r] = mem[r]
                          /\ pc[r] = "failsub" => mem[r].s # s
      BY <1>0, <1>1, <1>2 DEF TypeOK, ProcessTypes, BillsKnownRows, RunSteps
    <2>2. \A x : FailedAttempts(x)' = FailedAttempts(x)
      BY <1>1, <1>6 DEF FailedAttempts
    <2>3. FailedAttempts(s)' = Tally([c \in DOMAIN cycles' |-> cycles'[c].retry], {})
      BY <1>6 DEF FailedAttempts
    <2>4. Cardinality(FailedAttempts(s)') = 0
      BY <2>3, TallyEmpty
    <2> QED
      BY <1>1, <1>2, <1>4, <1>6, <2>1, <2>2, <2>4 DEF HistoryInv, TablesFit, FailuresCounted
  <1>10. StoppedForGood'
    <2>1. \A x \in Procs : pc'[x] \in Opens =>
             mem'[x].s = s \/ (pc[x] \in Opens /\ mem'[x].s = mem[x].s)
      BY <1>1, <1>3
    <2> QED
      BY <1>1, <1>5, <2>1 DEF HistoryInv, TablesFit, StoppedForGood, Outstanding
  <1>11. BatchFresh' /\ HeldFresh'
    <2>1. \A r \in Runs : /\ pc'[r] = pc[r] /\ mem'[r] = mem[r]
                          /\ pc[r] \in RunSteps => mem[r].s \in DOMAIN subs
                          /\ \A m \in batch[r] : m.s \in DOMAIN subs
      BY <1>0, <1>1 DEF TypeOK, ProcessTypes, BillsKnownRows
    <2>2. BatchFresh'
      BY <1>1, <1>4, <2>1 DEF HistoryInv, CopiesFresh, BatchFresh
    <2>3. HeldFresh'
      BY <1>1, <1>4, <2>1 DEF HistoryInv, CopiesFresh, HeldFresh, Failing, RunSteps
    <2> QED
      BY <2>2, <2>3
  <1>12. OpenerFresh'
    <2>1. \A x \in Procs \ {q} : pc[x] \in Opens => mem[x].s \in DOMAIN subs
      BY <1>0 DEF TypeOK, ProcessTypes, BillsKnownRows, Opens, RunSteps, RequestSteps
    <2>2. \A x \in Procs \ {q} : pc'[x] \in Opens =>
            /\ pc'[x] = pc[x] /\ mem'[x] = mem[x] /\ subs'[mem[x].s] = subs[mem[x].s]
      BY <1>1, <1>4, <2>1
    <2>3. /\ pc'[q] = "advance" /\ mem'[q].due = subs'[mem'[q].s].next
          /\ mem'[q].sub = [subs'[mem'[q].s] EXCEPT !.next = NextBillingDate(@)]
      BY <1>1, <1>3, <1>4
    <2> QED
      BY <2>2, <2>3 DEF HistoryInv, CopiesFresh, OpenerFresh, Opens
  <1>13. CreationsFresh'
    BY <1>0, <1>1, <1>3, <1>5 DEF HistoryInv, CopiesFresh, CreationsFresh
  <1> QED
    BY <1>7, <1>8, <1>9, <1>10, <1>11, <1>12, <1>13
       DEF HistoryInv, CopiesFresh, TablesFit

LEMMA NextHistoryInv ==
    ASSUME OneRun, NothingFails, OnlyCreations, HistoryInv, [Next]_vars
    PROVE  HistoryInv'
  <1>0. LedgerInv' /\ Runs \subseteq Procs /\ Requests \subseteq Procs
    BY NextLedgerInv DEF HistoryInv, Procs
  <1>1. CASE ClockTick \/ UNCHANGED vars
    <2>1. UNCHANGED <<subs, cycles, pc, batch, mem>>
      BY <1>1 DEF ClockTick, tables, vars
    <2>2. TablesFit'
      BY <2>1, TablesKept DEF HistoryInv
    <2>3. CopiesFresh'
      BY <2>1 DEF HistoryInv, CopiesFresh, BatchFresh, HeldFresh, OpenerFresh, CreationsFresh
    <2> QED
      BY <1>0, <2>2, <2>3 DEF HistoryInv
  <1>2. ~ Crash
    BY DEF NothingFails, Crash
  <1>3. ASSUME NEW r \in Runs, FindDueCycles(r) \/ RunStep(r)
        PROVE  HistoryInv'
    <2>1. ~ (\/ PaymentAnswerLost(r) \/ BillingSaveFails(r) \/ FailureSaveFails(r)
             \/ NotificationFails(r))
      BY DEF NothingFails, PaymentAnswerLost, BillingSaveFails, FailureSaveFails,
             NotificationFails
    <2>2. \/ \/ FindDueCycles(r) \/ PickCycle(r) \/ EndRun(r) \/ PaymentAccepted(r)
             \/ PaymentRejected(r) \/ LogOpened(r) \/ LogFailure(r)
          \/ SaveClaim(r) \/ SaveCompleted(r) \/ SaveFailedCycle(r)
          \/ SaveNextBillingDate(r) \/ SaveFailedSubscription(r) \/ InsertCycle(r)
      BY <1>3, <2>1 DEF RunStep
    <2> QED
      BY <1>0, <2>2, QuietRunStepKeepsHistory, SaveCycleKeepsHistory, SaveDateKeepsHistory,
         SaveFailureKeepsHistory, InsertCycleKeepsHistory
  <1>4. ASSUME NEW q \in Requests, ClientCalls(q) \/ RequestStep(q)
        PROVE  HistoryInv'
    <2>1. ~ (PauseSubscription(q) \/ ResumeSubscription(q) \/ CancelSubscription(q)
             \/ RequestFails(q))
      BY DEF OnlyCreations, NothingFails, PauseSubscription, ResumeSubscription,
             CancelSubscription, RequestFails
    <2>2. ~ (SaveSubscription(q) \/ LogOperation(q))
      BY DEF HistoryInv, CopiesFresh, CreationsFresh, SaveSubscription, LogOperation
    <2>3. \/ CreateSubscription(q) \/ LogOpened(q)
          \/ InsertSubscription(q) \/ SaveNextBillingDate(q) \/ InsertCycle(q)
      BY <1>4, <2>1, <2>2 DEF ClientCalls, RequestStep
    <2> QED
      BY <1>0, <2>3, QuietRequestStepKeepsHistory, InsertSubscriptionKeepsHistory,
         SaveDateKeepsHistory, InsertCycleKeepsHistory
  <1> QED
    BY <1>1, <1>2, <1>3, <1>4 DEF Next

LEMMA HistoryInvariant ==
    ASSUME OneRun, NothingFails, OnlyCreations
    PROVE  Spec => []HistoryInv
  <1>1. Init => HistoryInv
    BY InitHistoryInv
  <1>2. HistoryInv /\ [Next]_vars => HistoryInv'
    BY NextHistoryInv
  <1> QED
    BY <1>1, <1>2, PTL DEF Spec

\* When scheduler runs do not overlap, nothing fails and clients only create
\* subscriptions, the periods of a subscription follow one another without a gap,
\* and its counters show exactly the attempts that failed.
THEOREM HistoryAddsUp ==
    ASSUME OneRun, NothingFails, OnlyCreations
    PROVE  Spec => []ScheduleAccounted
  <1>1. Spec => []HistoryInv
    BY HistoryInvariant
  <1>2. HistoryInv => ScheduleAccounted
    BY HistoryInvProperty
  <1> QED
    BY <1>1, <1>2, PTL

(***************************************************************************)
(* The steps of the billing do to the accounts what RecurringCharge allows.*)
(* The promise that it goes on is a matter of fairness and is left to TLC. *)
(***************************************************************************)
\* The latest cycle of a subscription is due when LastDue says.
LEMMA LatestIsLast ==
    ASSUME HistoryInv, NEW s, CyclesOf(s) # {}
    PROVE  /\ LatestCycle(s) \in CyclesOf(s)
           /\ cycles[LatestCycle(s)].due = LastDue(s)
  <1>1. /\ TypeOK /\ Chained /\ \A c \in CyclesOf(s) : c \in Int /\ cycles[c].due \in Int
    BY DEF HistoryInv, TablesFit, LedgerInv, OpenInv, ChargesInv, BillingInv, TypeOK,
           TableTypes, CyclesOf, CycleIds, CycleRow, Date
  <1>2. s \in DOMAIN subs
    BY <1>1 DEF TypeOK, CyclesOf
  <1>3. PICK c \in CyclesOf(s) : cycles[c].due = LastDue(s)
    BY <1>1, <1>2 DEF Chained
  <1>4. \A d \in CyclesOf(s) : ~ (c < d)
    <2> SUFFICES ASSUME NEW d \in CyclesOf(s), c < d PROVE FALSE
      OBVIOUS
    <2>1. cycles[c].due < cycles[d].due /\ cycles[d].due <= LastDue(s)
      BY <1>1, <1>2 DEF Chained
    <2> QED
      BY <1>1, <1>3, <2>1
  <1>5. \A d \in CyclesOf(s) : d <= c
    BY <1>1, <1>4
  <1>6. \E x \in CyclesOf(s) : \A d \in CyclesOf(s) : d <= x
    BY <1>5
  <1>7. /\ LatestCycle(s) \in CyclesOf(s)
        /\ \A d \in CyclesOf(s) : d <= LatestCycle(s)
    BY <1>6 DEF LatestCycle
  <1>8. LatestCycle(s) = c
    <2>1. LatestCycle(s) <= c /\ c <= LatestCycle(s)
      BY <1>5, <1>7
    <2> QED
      BY <1>1, <1>7, <2>1
  <1> QED
    BY <1>3, <1>8

\* The phases exclude one another.
LEMMA PhaseOf ==
    ASSUME HistoryInv, NEW s
    PROVE  /\ CyclesOf(s) = {} => Phase(s) = "none"
           /\ \A c \in CyclesOf(s) :
                 /\ cycles[c].status = "failed" => Phase(s) = "stopped"
                 /\ Outstanding(c) /\ charges[c] = 0 => Phase(s) = "waiting"
           /\ /\ CyclesOf(s) # {}
              /\ \A c \in CyclesOf(s) :
                    cycles[c].status # "failed" /\ ~ (Outstanding(c) /\ charges[c] = 0)
              => Phase(s) = "paid"
  <1>1. \A c, d \in CyclesOf(s) : cycles[c].status = "failed" => ~ Outstanding(d)
    BY DEF HistoryInv, TablesFit, StoppedForGood, CyclesOf
  <1> QED
    BY <1>1 DEF Phase

LEMMA SameAccount ==
    ASSUME HistoryInv, NEW s, CyclesOf(s)' = CyclesOf(s),
           \A c \in CyclesOf(s) :
              /\ cycles'[c].due = cycles[c].due /\ charges'[c] = charges[c]
              /\ cycles'[c].status = "failed" <=> cycles[c].status = "failed"
              /\ charges[c] = 0 => (Outstanding(c)' <=> Outstanding(c))
    PROVE  AccountOf(s)' = AccountOf(s)
  <1>1. Phase(s)' = Phase(s)
    BY DEF Phase
  <1>2. LatestCycle(s)' = LatestCycle(s)
    BY DEF LatestCycle
  <1>3. CyclesOf(s) # {} => cycles'[LatestCycle(s)].due = cycles[LatestCycle(s)].due
    BY LatestIsLast
  <1>4. Tally(charges', CyclesOf(s)) = Tally(charges, CyclesOf(s))
    BY TallySame
  <1> QED
    BY <1>1, <1>2, <1>3, <1>4 DEF AccountOf

LEMMA OneAccount ==
    ASSUME NEW s \in Subs, \A x \in Subs \ {s} : AccountOf(x)' = AccountOf(x)
    PROVE  accounts' = [accounts EXCEPT ![s] = AccountOf(s)']
  BY DEF accounts

LEMMA InitAccount == Init => Account!Init
  <1> SUFFICES ASSUME Init PROVE accounts =
                 [s \in Subs |-> [phase |-> "none", due |-> 0, opened |-> 0, payments |-> 0]]
    BY DEF Account!Init
  <1>1. \A s : CyclesOf(s) = {}
    BY DEF Init, CyclesOf
  <1>2. \A s : Phase(s) = "none"
    BY <1>1 DEF Phase
  <1>3. \A s : AccountOf(s) = [phase |-> "none", due |-> 0, opened |-> 0, payments |-> 0]
    BY <1>1, <1>2, FS_EmptySet, TallyEmpty DEF AccountOf
  <1> QED
    BY <1>3 DEF accounts

\* An account whose periods stay as they are.
LEMMA SamePeriods ==
    ASSUME HistoryInv, NEW s, CyclesOf(s)' = CyclesOf(s),
           \A c \in CyclesOf(s) : cycles'[c].due = cycles[c].due
    PROVE  /\ AccountOf(s)'.due = AccountOf(s).due
           /\ AccountOf(s)'.opened = AccountOf(s).opened
  <1>1. LatestCycle(s)' = LatestCycle(s)
    BY DEF LatestCycle
  <1>2. CyclesOf(s) # {} => cycles'[LatestCycle(s)].due = cycles[LatestCycle(s)].due
    BY LatestIsLast
  <1> QED
    BY <1>1, <1>2 DEF AccountOf

\* Steps that write neither the cycles nor the ledger.
LEMMA AccountsKept ==
    ASSUME UNCHANGED <<cycles, charges>>
    PROVE  accounts' = accounts
  <1>1. \A s : CyclesOf(s)' = CyclesOf(s)
    BY DEF CyclesOf
  <1>2. \A s : Phase(s)' = Phase(s) /\ LatestCycle(s)' = LatestCycle(s)
    BY <1>1 DEF Phase, LatestCycle, Outstanding
  <1>3. \A s : AccountOf(s)' = AccountOf(s)
    BY <1>1, <1>2 DEF AccountOf
  <1> QED
    BY <1>3 DEF accounts

\* What the customer sees of a run's saves: nothing, unless the retries are used up.
LEMMA SaveCycleFollows ==
    ASSUME OneRun, HistoryInv, HistoryInv', NEW r \in Runs,
           SaveClaim(r) \/ SaveCompleted(r) \/ SaveFailedCycle(r)
    PROVE  [Account!Next]_accounts
  <1>00. PICK s, k : s = mem[r].s /\ k = mem[r].id
    OBVIOUS
  <1> USE <1>00
  <1>0. /\ LedgerInv /\ OpenInv /\ ChargesInv /\ TypeOK
        /\ pc \in [Procs -> RunSteps \cup RequestSteps \cup {"idle", "pick"}]
    BY HistoryFacts
  <1>1. /\ pc[r] \in {"claim", "complete", "failcycle"} /\ pc[r] \in RunSteps
        /\ charges' = charges
        /\ cycles' = [cycles EXCEPT ![k] = mem[r].cyc]
    BY DEF SaveClaim, SaveCompleted, SaveFailedCycle, RunSteps
  <1>2. /\ k \in DOMAIN cycles /\ s \in Subs
        /\ cycles[k].sub = s /\ mem[r].cyc.sub = s
    BY <1>0, <1>1 DEF TypeOK, TableTypes, ProcessTypes, BillsKnownRows
  <1>3. /\ mem[r].cyc.due = cycles[k].due
        /\ Outstanding(k) /\ cycles[k].status # "failed"
        /\ pc[r] = "claim" => mem[r].cyc.status = "processing" /\ charges[k] = 0
        /\ pc[r] = "complete" => mem[r].cyc.status = "completed" /\ charges[k] = 1
        /\ pc[r] = "failcycle" =>
              mem[r].cyc.status \in {"pending", "failed"} /\ charges[k] = 0
    <2>1. HeldFresh /\ CopyCounted /\ FailingClaimed
      BY <1>0 DEF HistoryInv, CopiesFresh, ChargesInv, OpenInv
    <2>2. mem[r].cyc.due = cycles[k].due
      BY <1>1, <2>1 DEF HeldFresh, Failing
    <2>3. Outstanding(k) /\ cycles[k].status # "failed"
      BY <1>1, <2>1 DEF CopyCounted, FailingClaimed, Outstanding
    <2>4. /\ pc[r] \in {"claim", "failcycle"} => charges[k] = 0
          /\ pc[r] = "complete" => charges[k] = 1
      BY <1>0, <1>1, LedgerOfHeldCycle
    <2>5. pc[r] = "claim" => mem[r].cyc.status = "processing"
      BY <1>1, <2>1 DEF CopyCounted
    <2>6. pc[r] = "complete" => mem[r].cyc.status = "completed"
      BY <1>1, <2>1 DEF CopyCounted, Charged
    <2>7. pc[r] = "failcycle" => mem[r].cyc.status \in {"pending", "failed"}
      BY <2>1 DEF HeldFresh, Failing, StatusAfterFailure, AttemptsLeft
    <2> QED
      BY <1>1, <2>2, <2>3, <2>4, <2>5, <2>6, <2>7
  <1>4. /\ DOMAIN cycles' = DOMAIN cycles /\ cycles'[k] = mem[r].cyc
        /\ \A c \in DOMAIN cycles : c # k => cycles'[c] = cycles[c]
    BY <1>1, <1>2
  <1>5. /\ k \in CyclesOf(s)
        /\ \A x : /\ CyclesOf(x)' = CyclesOf(x)
                  /\ \A c \in CyclesOf(x) : /\ c # k => cycles'[c] = cycles[c]
                                            /\ cycles'[c].due = cycles[c].due
                                            /\ x # s => c # k
    BY <1>2, <1>3, <1>4 DEF CyclesOf
  <1>6. \A x : x # s => AccountOf(x)' = AccountOf(x)
    <2> SUFFICES ASSUME NEW x, x # s PROVE AccountOf(x)' = AccountOf(x)
      OBVIOUS
    <2>1. \A c \in CyclesOf(x) : cycles'[c] = cycles[c]
      BY <1>5
    <2> QED
      BY <1>1, <1>5, <2>1, SameAccount DEF Outstanding
  <1>7. CASE mem[r].cyc.status # "failed"
    <2>1. AccountOf(s)' = AccountOf(s)
      <3>1. \A c \in CyclesOf(s) :
              /\ cycles'[c].due = cycles[c].due /\ charges'[c] = charges[c]
              /\ cycles'[c].status = "failed" <=> cycles[c].status = "failed"
              /\ charges[c] = 0 => (Outstanding(c)' <=> Outstanding(c))
        BY <1>1, <1>3, <1>4, <1>5, <1>7 DEF Outstanding
      <3> QED
        BY <1>5, <3>1, SameAccount
    <2>2. accounts' = accounts
      BY <1>6, <2>1 DEF accounts
    <2> QED
      BY <2>2
  <1>8. CASE mem[r].cyc.status = "failed"
    <2>1. Phase(s) = "waiting"
      BY <1>1, <1>3, <1>5, <1>8, PhaseOf
    <2>2. Phase(s)' = "stopped"
      <3>1. \A c, d \in CyclesOf(s)' : cycles'[c].status = "failed" => ~ Outstanding(d)'
        BY DEF HistoryInv, TablesFit, StoppedForGood, CyclesOf
      <3>2. k \in CyclesOf(s)' /\ cycles'[k].status = "failed"
        BY <1>4, <1>5, <1>8
      <3> QED
        BY <3>1, <3>2 DEF Phase
    <2>3. /\ AccountOf(s)'.due = AccountOf(s).due
          /\ AccountOf(s)'.opened = AccountOf(s).opened
      BY <1>5, SamePeriods
    <2>4. AccountOf(s)'.payments = AccountOf(s).payments
      BY <1>1, <1>5 DEF AccountOf
    <2>5. AccountOf(s).phase = "waiting" /\ AccountOf(s)'.phase = "stopped"
      BY <2>1, <2>2 DEF AccountOf
    <2>6. AccountOf(s)' = [AccountOf(s) EXCEPT !.phase = "stopped"]
      <3>1. PICK f, d, o, y :
              AccountOf(s) = [phase |-> f, due |-> d, opened |-> o, payments |-> y]
        BY DEF AccountOf
      <3>2. PICK g, e, n, z :
              AccountOf(s)' = [phase |-> g, due |-> e, opened |-> n, payments |-> z]
        BY DEF AccountOf
      <3> QED
        BY <2>3, <2>4, <2>5, <3>1, <3>2
    <2>7. accounts[s] = AccountOf(s)
      BY <1>2 DEF accounts
    <2>8. Account!GiveUp(s)
      BY <1>2, <1>6, <2>5, <2>6, <2>7, OneAccount DEF Account!GiveUp, Account!Step
    <2> QED
      BY <1>2, <2>8 DEF Account!Next
  <1> QED
    BY <1>7, <1>8

\* The payment is on the ledger: the customer has paid the period.
LEMMA PaymentFollows ==
    ASSUME OneRun, HistoryInv, HistoryInv', NEW r \in Runs, PaymentAccepted(r)
    PROVE  Account!Next
  <1>00. PICK s, k : s = mem[r].s /\ k = mem[r].id
    OBVIOUS
  <1> USE <1>00
  <1>0. LedgerInv /\ OpenInv /\ ChargesInv /\ TypeOK
    BY HistoryFacts
  <1>1. /\ pc[r] = "pay" /\ cycles' = cycles
        /\ charges' = [charges EXCEPT ![k] = @ + 1]
    BY DEF PaymentAccepted, Charge
  <1>2. /\ k \in DOMAIN cycles /\ s \in Subs /\ cycles[k].sub = s
        /\ \A c \in DOMAIN cycles : charges[c] \in Nat /\ charges[c] <= 1
        /\ charges \in [CycleIds -> Nat] /\ k \in CycleIds
    BY <1>0, <1>1 DEF TypeOK, TableTypes, ProcessTypes, BillsKnownRows, RunSteps,
                      LedgerInv, LedgerMatchesTable
  <1>3. Outstanding(k) /\ charges[k] = 0
    BY <1>0, <1>1, LedgerOfHeldCycle DEF ChargesInv, CopyCounted, RunSteps, Outstanding
  <1>4. charges'[k] = charges[k] + 1 /\ \A c \in CycleIds : c # k => charges'[c] = charges[c]
    BY <1>1, <1>2
  <1>5. /\ k \in CyclesOf(s) /\ \A x : CyclesOf(x)' = CyclesOf(x)
        /\ \A x : x # s => k \notin CyclesOf(x)
        /\ \A x : \A c \in CyclesOf(x) : c \in DOMAIN cycles /\ c \in CycleIds
    BY <1>0, <1>1, <1>2 DEF CyclesOf, TypeOK, TableTypes
  <1>6. \A x : x # s => AccountOf(x)' = AccountOf(x)
    <2> SUFFICES ASSUME NEW x, x # s PROVE AccountOf(x)' = AccountOf(x)
      OBVIOUS
    <2>1. \A c \in CyclesOf(x) : charges'[c] = charges[c]
      BY <1>4, <1>5
    <2> QED
      BY <1>1, <1>5, <2>1, SameAccount DEF Outstanding
  <1>7. Phase(s) = "waiting"
    BY <1>3, <1>5, PhaseOf
  <1>8. Phase(s)' = "paid"
    <2>1. \A c \in CyclesOf(s) : cycles[c].status # "failed" /\ (Outstanding(c) => c = k)
      BY <1>0, <1>2, <1>3 DEF CyclesOf, HistoryInv, TablesFit, StoppedForGood, OpenInv,
                             OpenRights, OneOpenCycle
    <2>2. charges'[k] # 0
      BY <1>3, <1>4
    <2>3. CyclesOf(s)' # {} /\ \A c \in CyclesOf(s)' :
             cycles'[c].status # "failed" /\ ~ (Outstanding(c)' /\ charges'[c] = 0)
      BY <1>1, <1>5, <2>1, <2>2 DEF Outstanding
    <2> QED
      BY <2>3 DEF Phase
  <1>9. AccountOf(s)'.payments = AccountOf(s).payments + 1
    <2>1. IsFiniteSet(CyclesOf(s))
      BY AttemptsFinite
    <2>2. IsFiniteSet(Tally(charges, CyclesOf(s)))
      <3>1. 1 \in Nat /\ \A c \in CyclesOf(s) : charges[c] \in Nat /\ charges[c] <= 1
        BY <1>2, <1>5
      <3> QED
        BY <2>1, <3>1, TallyFinite
    <2>3. Cardinality(Tally(charges', CyclesOf(s))) = Cardinality(Tally(charges, CyclesOf(s))) + 1
      <3>1. \A d \in CyclesOf(s) \ {k} : charges'[d] = charges[d]
        BY <1>4, <1>5
      <3> QED
        BY <1>2, <1>4, <1>5, <2>2, <3>1, TallyOneMore
    <2> QED
      BY <1>5, <2>3 DEF AccountOf
  <1>10. /\ AccountOf(s)'.due = AccountOf(s).due
         /\ AccountOf(s)'.opened = AccountOf(s).opened
    BY <1>1, <1>5, SamePeriods
  <1>11. AccountOf(s).phase = "waiting" /\ AccountOf(s)'.phase = "paid"
    BY <1>7, <1>8 DEF AccountOf
  <1>12. AccountOf(s)' = [AccountOf(s) EXCEPT !.phase = "paid", !.payments = @ + 1]
    <2>1. PICK f, d, o, y :
            AccountOf(s) = [phase |-> f, due |-> d, opened |-> o, payments |-> y]
      BY DEF AccountOf
    <2>2. PICK g, e, n, z :
            AccountOf(s)' = [phase |-> g, due |-> e, opened |-> n, payments |-> z]
      BY DEF AccountOf
    <2> QED
      BY <1>9, <1>10, <1>11, <2>1, <2>2
  <1>13. accounts[s] = AccountOf(s)
    BY <1>2 DEF accounts
  <1>14. Account!Pay(s)
    BY <1>2, <1>6, <1>11, <1>12, <1>13, OneAccount DEF Account!Pay, Account!Step
  <1> QED
    BY <1>2, <1>14 DEF Account!Next

\* A new row of billing_cycles: the customer's first period, or the next one.
LEMMA InsertCycleFollows ==
    ASSUME OneRun, HistoryInv, HistoryInv', NEW p \in Procs, InsertCycle(p)
    PROVE  Account!Next
  <1>00. PICK s, d : s = mem[p].s /\ d = mem[p].due
    OBVIOUS
  <1> USE <1>00
  <1>0. /\ LedgerInv /\ OpenInv /\ ChargesInv /\ TypeOK /\ pc[p] = "open"
        /\ pc \in [Procs -> RunSteps \cup RequestSteps \cup {"idle", "pick"}]
        /\ Procs = Runs \cup Requests
    BY HistoryFacts DEF InsertCycle
  <1>1. PICK k \in FreeIds :
          cycles' = [x \in DOMAIN cycles \cup {k} |->
                       IF x = k THEN NewCycle(s, d) ELSE cycles[x]]
    BY DEF InsertCycle
  <1>2. /\ k \in CycleIds /\ k \notin DOMAIN cycles /\ charges' = charges /\ charges[k] = 0
        /\ DOMAIN cycles' = DOMAIN cycles \cup {k}
        /\ cycles'[k].sub = s /\ cycles'[k].due = d /\ cycles'[k].status = "pending"
        /\ \A x \in DOMAIN cycles : cycles'[x] = cycles[x]
    BY <1>0, <1>1 DEF FreeIds, NewCycle, InsertCycle, ChargesInv, LedgerCounted
  <1>3. /\ s \in DOMAIN subs /\ s \in Subs /\ d \in Nat
        /\ subs[s].next = d + Interval /\ Interval \in Nat
    <2>1. mem[p] \in Memory /\ s \in DOMAIN subs
      BY <1>0 DEF TypeOK, ProcessTypes, BillsKnownRows, RunSteps, RequestSteps
    <2>2. NextBillingDate(mem[p].due) = subs[s].next
      BY <1>0 DEF HistoryInv, CopiesFresh, OpenerFresh
    <2> QED
      BY <1>0, <2>1, <2>2, BillingAssumption
         DEF BillingAssumption, Memory, Date, NextBillingDate, TypeOK, TableTypes
  <1>4. \A c \in CyclesOf(s) : ~ Outstanding(c) /\ cycles[c].status # "failed"
    BY <1>0 DEF CyclesOf, OpenInv, OpenRights, NoneWhileOpening, Opens, HistoryInv,
                TablesFit, StoppedForGood
  <1>5. /\ CyclesOf(s)' = CyclesOf(s) \cup {k} /\ k \notin CyclesOf(s)
        /\ \A x : x # s => CyclesOf(x)' = CyclesOf(x)
        /\ \A x : CyclesOf(x) \subseteq DOMAIN cycles
    BY <1>2 DEF CyclesOf
  <1>6. \A x : x # s => AccountOf(x)' = AccountOf(x)
    <2> SUFFICES ASSUME NEW x, x # s PROVE AccountOf(x)' = AccountOf(x)
      OBVIOUS
    <2>1. \A c \in CyclesOf(x) : cycles'[c] = cycles[c]
      BY <1>2, <1>5
    <2> QED
      BY <1>2, <1>5, <2>1, SameAccount DEF Outstanding
  <1>7. Phase(s)' = "waiting"
    <2>1. \A c \in CyclesOf(s)' : cycles'[c].status # "failed"
      BY <1>2, <1>4, <1>5
    <2>2. k \in CyclesOf(s)' /\ Outstanding(k)' /\ charges'[k] = 0
      BY <1>2, <1>5 DEF Outstanding
    <2> QED
      BY <2>1, <2>2 DEF Phase
  <1>8. AccountOf(s)'.due = d
    <2>1. \A c \in CyclesOf(s)' : c \in Int /\ (c = k \/ c < k)
      <3>1. \A c \in DOMAIN cycles : ~ (k < c)
        BY <1>2 DEF HistoryInv, TablesFit, IdsInOrder
      <3>2. \A c \in DOMAIN cycles : c \in Int /\ k \in Int /\ c # k
        BY <1>0, <1>2 DEF TypeOK, TableTypes, CycleIds
      <3>3. k \in Int
        BY <1>2 DEF CycleIds
      <3> QED
        BY <1>5, <3>1, <3>2, <3>3
    <2>2. k \in CyclesOf(s)' /\ \A c \in CyclesOf(s)' : c <= k
      BY <1>5, <2>1
    <2>3. LatestCycle(s)' \in CyclesOf(s)' /\ k <= LatestCycle(s)'
      <3>1. \E x \in CyclesOf(s)' : \A c \in CyclesOf(s)' : c <= x
        BY <2>2
      <3> QED
        BY <2>2, <3>1 DEF LatestCycle
    <2>4. LatestCycle(s)' = k
      BY <2>1, <2>2, <2>3
    <2> QED
      BY <1>2, <1>5, <2>4 DEF AccountOf
  <1>9. AccountOf(s)'.opened = AccountOf(s).opened + 1
    <2>1. IsFiniteSet(CyclesOf(s))
      BY AttemptsFinite
    <2> QED
      BY <1>5, <2>1, FS_AddElement DEF AccountOf
  <1>10. AccountOf(s)'.payments = AccountOf(s).payments
    <2>1. Tally(charges, CyclesOf(s) \cup {k}) = Tally(charges, CyclesOf(s))
      BY <1>2, <1>5, TallyOfNewCycle
    <2> QED
      BY <1>2, <1>5, <2>1 DEF AccountOf
  <1>11. AccountOf(s)' = [phase |-> "waiting", due |-> d,
                          opened |-> AccountOf(s).opened + 1,
                          payments |-> AccountOf(s).payments]
    <2>1. AccountOf(s)'.phase = "waiting"
      BY <1>7 DEF AccountOf
    <2>2. PICK g, e, n, z :
            AccountOf(s)' = [phase |-> g, due |-> e, opened |-> n, payments |-> z]
      BY DEF AccountOf
    <2> QED
      BY <1>8, <1>9, <1>10, <2>1, <2>2
  <1>12. /\ accounts[s] = AccountOf(s)
         /\ accounts' = [accounts EXCEPT ![s] = AccountOf(s)']
         /\ accounts'[s] = AccountOf(s)'
    BY <1>3, <1>6, OneAccount DEF accounts
  <1>13. AccountOf(s)' = Account!Open(s, d)
    BY <1>11, <1>12 DEF Account!Open
  <1>14. CASE CyclesOf(s) = {}
    <2>1. AccountOf(s).phase = "none"
      BY <1>14, PhaseOf DEF AccountOf
    <2>2. accounts'[s].due = d
      BY <1>8, <1>12
    <2>3. Account!Start(s)
      BY <1>3, <1>12, <1>13, <2>1, <2>2 DEF Account!Start, Account!Step
    <2> QED
      BY <1>3, <2>3 DEF Account!Next
  <1>15. CASE CyclesOf(s) # {}
    <2>1. AccountOf(s).phase = "paid"
      BY <1>4, <1>15, PhaseOf DEF AccountOf
    <2>2. AccountOf(s).due + Interval = d
      <3>1. LastDue(s) = subs[s].next - Interval - Interval
        BY <1>0 DEF LastDue
      <3>2. AccountOf(s).due = LastDue(s)
        BY <1>15, LatestIsLast DEF AccountOf
      <3> QED
        BY <1>3, <3>1, <3>2
    <2>3. Account!OpenNext(s)
      BY <1>12, <1>13, <2>1, <2>2 DEF Account!OpenNext, Account!Step
    <2> QED
      BY <1>3, <2>3 DEF Account!Next
  <1> QED
    BY <1>14, <1>15

LEMMA NextFollows ==
    ASSUME OneRun, NothingFails, OnlyCreations, HistoryInv, HistoryInv', [Next]_vars
    PROVE  [Account!Next]_accounts
  <1>0. Runs \subseteq Procs /\ Requests \subseteq Procs
    BY DEF Procs
  <1>1. CASE UNCHANGED <<cycles, charges>>
    BY <1>1, AccountsKept
  <1>2. CASE ~ UNCHANGED <<cycles, charges>>
    <2>1. ~ ClockTick /\ ~ Crash /\ ~ UNCHANGED vars
      BY <1>2 DEF ClockTick, Crash, tables, vars
    <2>2. ASSUME NEW r \in Runs, FindDueCycles(r) \/ RunStep(r)
          PROVE  [Account!Next]_accounts
      <3>1. \/ SaveClaim(r) \/ SaveCompleted(r) \/ SaveFailedCycle(r)
            \/ PaymentAccepted(r) \/ InsertCycle(r)
        BY <1>2, <2>2
           DEF NothingFails, RunStep, FindDueCycles, PickCycle, EndRun, PaymentRejected,
               PaymentAnswerLost, SaveNextBillingDate, LogOpened, LogFailure,
               SaveFailedSubscription, BillingSaveFails, FailureSaveFails,
               NotificationFails, tables
      <3> QED
        BY <1>0, <3>1, SaveCycleFollows, PaymentFollows, InsertCycleFollows
    <2>3. ASSUME NEW q \in Requests, ClientCalls(q) \/ RequestStep(q)
          PROVE  [Account!Next]_accounts
      <3>1. InsertCycle(q)
        BY <1>2, <2>3
           DEF ClientCalls, RequestStep, CreateSubscription, PauseSubscription,
               ResumeSubscription, CancelSubscription, LoadAndModify, InsertSubscription,
               SaveNextBillingDate, LogOpened, SaveSubscription, LogOperation,
               RequestFails, tables
      <3> QED
        BY <1>0, <3>1, InsertCycleFollows
    <2> QED
      BY <2>1, <2>2, <2>3 DEF Next
  <1> QED
    BY <1>1, <1>2

\* When scheduler runs do not overlap, nothing fails and clients only create
\* subscriptions, every step of the scheduler and of the requests does to the
\* customers' accounts what RecurringCharge allows, or nothing: the next period
\* opens only after the last was paid, one interval later, no period is paid
\* twice, and after the retries nothing more is charged.
THEOREM StepsFollowRecurringCharge ==
    ASSUME OneRun, NothingFails, OnlyCreations
    PROVE  Spec => AccountsFollow
  <1>1. Spec => []HistoryInv
    BY HistoryInvariant
  <1>2. Init => Account!Init
    BY InitAccount
  <1>3. HistoryInv /\ HistoryInv' /\ [Next]_vars => [Account!Next]_accounts
    BY NextFollows
  <1> QED
    BY <1>1, <1>2, <1>3, PTL DEF Spec, AccountsFollow, Account!Steps

LEMMA StepsPayOnce == Account!Steps => [](Account!AccountType /\ Account!NoPeriodPaidTwice)
  <1>0. Interval \in Nat
    BY BillingAssumption DEF BillingAssumption
  <1> DEFINE Inv == Account!AccountType /\ Account!NoPeriodPaidTwice
  <1>1. Account!Init => Inv
    BY DEF Account!Init, Account!AccountType, Account!NoPeriodPaidTwice, Account!Phases
  <1>2. ASSUME Inv, [Account!Next]_accounts PROVE Inv'
    <2>1. CASE UNCHANGED accounts
      BY <1>2, <2>1 DEF Account!AccountType, Account!NoPeriodPaidTwice
    <2>2. CASE Account!Next
      <3>1. PICK s \in Subs : \/ Account!Start(s) \/ Account!Pay(s)
                              \/ Account!OpenNext(s) \/ Account!GiveUp(s)
        BY <2>2 DEF Account!Next
      <3> DEFINE a == accounts[s]
                 b == accounts'[s]
      <3>2. a \in [phase: Account!Phases, due: Nat, opened: Nat, payments: Nat]
        BY <1>2 DEF Account!AccountType
      <3>3. accounts' = [accounts EXCEPT ![s] = b]
        BY <1>2, <3>1 DEF Account!Start, Account!Pay, Account!OpenNext, Account!GiveUp,
                            Account!Step, Account!AccountType
      <3>4. /\ b \in [phase: Account!Phases, due: Nat, opened: Nat, payments: Nat]
            /\ \/ /\ a.phase \in {"none", "paid"} /\ b.phase = "waiting"
                  /\ b.opened = a.opened + 1 /\ b.payments = a.payments
               \/ /\ a.phase = "waiting" /\ b.phase = "paid"
                  /\ b.opened = a.opened /\ b.payments = a.payments + 1
               \/ /\ a.phase = "waiting" /\ b.phase = "stopped"
                  /\ b.opened = a.opened /\ b.payments = a.payments
        <4>0. ASSUME NEW d \in Nat
              PROVE  /\ Account!Open(s, d) \in [phase: Account!Phases, due: Nat, opened: Nat, payments: Nat]
                     /\ Account!Open(s, d).phase = "waiting"
                     /\ Account!Open(s, d).opened = a.opened + 1
                     /\ Account!Open(s, d).payments = a.payments
          <5>1. a.opened + 1 \in Nat
            BY <3>2
          <5>2. Account!Open(s, d) = [phase |-> "waiting", due |-> d,
                              opened |-> a.opened + 1, payments |-> a.payments]
            BY <3>2 DEF Account!Open
          <5> HIDE DEF a
          <5> QED
            BY <3>2, <5>1, <5>2 DEF Account!Phases
        <4>1. CASE Account!Start(s)
          <5>1. PICK d \in Nat : accounts' = [accounts EXCEPT ![s] = Account!Open(s, d)]
            BY <4>1 DEF Account!Start, Account!Step
          <5>2. a.phase = "none" /\ b = Account!Open(s, d)
            BY <1>2, <4>1, <5>1 DEF Account!Start, Account!Step, Account!AccountType
          <5> HIDE DEF a, b
          <5> QED
            BY <4>0, <5>2
        <4>2. CASE Account!Pay(s)
          <5>1. a.payments + 1 \in Nat
            BY <3>2
          <5>2. /\ a.phase = "waiting"
                /\ b = [a EXCEPT !.phase = "paid", !.payments = a.payments + 1]
            BY <1>2, <4>2 DEF Account!Pay, Account!Step, Account!AccountType
          <5> HIDE DEF a, b
          <5> QED
            BY <3>2, <5>1, <5>2 DEF Account!Phases
        <4>3. CASE Account!OpenNext(s)
          <5>1. a.phase = "paid" /\ b = Account!Open(s, a.due + Interval)
            BY <1>2, <4>3 DEF Account!OpenNext, Account!Step, Account!AccountType
          <5>2. a.due + Interval \in Nat
            BY <1>0, <3>2
          <5> HIDE DEF a, b
          <5> QED
            BY <4>0, <5>1, <5>2
        <4>4. CASE Account!GiveUp(s)
          BY <1>2, <3>2, <4>4 DEF Account!GiveUp, Account!Step, Account!AccountType, Account!Phases
        <4> QED
          BY <3>1, <4>1, <4>2, <4>3, <4>4
      <3> HIDE DEF b
      <3>5. Account!AccountType'
        BY <1>2, <3>3, <3>4 DEF Account!AccountType
      <3>6. Account!NoPeriodPaidTwice'
        BY <1>2, <3>2, <3>3, <3>4 DEF Account!AccountType, Account!NoPeriodPaidTwice
      <3> QED
        BY <3>5, <3>6
    <2> QED
      BY <1>2, <2>1, <2>2
  <1> QED
    BY <1>1, <1>2, PTL DEF Account!Steps

\* What RecurringCharge promises follows from its specification: the account keeps
\* its type, no period is paid twice and none is skipped.
THEOREM PaysEachPeriodOnce ==
    ImplementsRecurringCharge => [](Account!AccountType /\ Account!NoPeriodPaidTwice)
  BY StepsPayOnce, PTL DEF ImplementsRecurringCharge, Account!Spec

\* Under the same conditions, of the periods opened for a customer, computed from
\* the tables, all but the latest have exactly one payment on the ledger.
THEOREM CustomersPayOnce ==
    ASSUME OneRun, NothingFails, OnlyCreations
    PROVE  Spec => []Account!NoPeriodPaidTwice
  <1>1. Account!Steps => [](Account!AccountType /\ Account!NoPeriodPaidTwice)
    BY StepsPayOnce
  <1>2. Spec => Account!Steps
    BY StepsFollowRecurringCharge DEF AccountsFollow
  <1> QED
    BY <1>1, <1>2, PTL
==============================================================================
