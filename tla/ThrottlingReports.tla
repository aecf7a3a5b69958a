-------------------------- MODULE ThrottlingReports --------------------------
(***************************************************************************)
(* What administrators see of the requests that were refused: the history  *)
(* that src/src/services/rateLimitMonitoring.service.ts keeps, its metrics *)
(* and its status, and the endpoints of RateLimitController.ts for them.   *)
(* Every row is of a refused request: no caller logs another.  The ids of  *)
(* users are numbers and the column wants a uuid, so no row has a user,    *)
(* and the lists of users stay empty.                                      *)
(***************************************************************************)
EXTENDS Handlers, FiniteSetsExt

CONSTANTS
    Origins,     \* IP addresses
    Owners,      \* merchants that requests are made for; None is also possible
    TopListed,   \* the length of the list of addresses in a report
    Histories    \* tables of refused requests to begin with

\* Ages of a row: within a minute, an hour, a day, older.
Spans == 0 .. 3

VARIABLES
    history,     \* table rate_limit_history: rows of an address, a merchant and an age
    remembered,  \* recentEvents, in memory: addresses with a list of events
    metrics,     \* history: the last report of getRateLimitMetrics that was sent
    status       \* history: the last answer of getRealTimeStatus

usageVars == <<history, remembered, metrics, status>>
UsageSteps == {"saveHistory", "countHistory", "topIPs", "burstKeys"}

ASSUME UsageAssumption ==
    /\ IsFiniteSet(Origins) /\ IsFiniteSet(Owners)
    /\ Histories \subseteq [Origins -> [Owners \cup {None} -> [Spans -> Nat]]]
    /\ TopListed \in Nat

UsageTypeOK ==
    /\ history \in [Origins -> [Owners \cup {None} -> [Spans -> Nat]]]
    /\ remembered \subseteq Origins

UsageInit ==
    /\ history \in Histories
    /\ remembered = {}
    /\ metrics = None
    /\ status = None

UsageIdle ==
    /\ history = [o \in Origins |-> [w \in Owners \cup {None} |-> [a \in Spans |-> 0]]]
    /\ remembered = {}
    /\ metrics = None
    /\ status = None

------------------------------------------------------------------------------
\* A request is refused, and the refusal is logged: the row, then the event in memory.
LogRefusal(q) ==
    /\ \E o \in Origins, w \in Owners \cup {None} :
          Receive(q, "usage", "saveHistory", [origin |-> o, owner |-> w])
    /\ UNCHANGED usageVars

SaveHistory(q) ==
    LET o == mem[q].origin IN
    /\ At(q, "saveHistory")
    /\ history' = [history EXCEPT ![o][mem[q].owner][0] = @ + 1]
    /\ remembered' = remembered \cup {o}
    /\ Answer(q)
    /\ UNCHANGED <<metrics, status>>

\* The process restarts.
ServerRestarts ==
    /\ Failing
    /\ \A q \in Requests : At(q, "idle")
    /\ remembered' = {}
    /\ UNCHANGED <<handlerVars, history, metrics, status>>

------------------------------------------------------------------------------
Rows(o, owners, span) == MapThenSumSet(LAMBDA x : history[o][x[1]][x[2]], owners \X (0 .. span))

\* Metrics are asked for of all merchants, or of one.
GetMetrics(q) ==
    /\ \E span \in 0 .. 2 : Receive(q, "usage", "countHistory",
          [owners |-> Owners \cup {None}, span |-> span])
    /\ UNCHANGED usageVars

GetMerchantMetrics(q) ==
    /\ \E w \in Owners, span \in 0 .. 2 :
          Receive(q, "usage", "countHistory", [owners |-> {w}, span |-> span])
    /\ UNCHANGED usageVars

\* Variant for testing the properties: the totals have the rows of all times.
CountHistoryEver(q) ==
    /\ At(q, "countHistory")
    /\ Goto(q, "topIPs", [owners |-> mem[q].owners, span |-> mem[q].span,
          total |-> MapThenSumSet(LAMBDA o : Rows(o, mem[q].owners, 3), Origins)])
    /\ UNCHANGED usageVars

\* The rows of the time and of the merchant, from which the rates and the figures by
\* endpoint and by role are computed.
CountHistory(q) ==
    /\ At(q, "countHistory")
    /\ Goto(q, "topIPs", [owners |-> mem[q].owners, span |-> mem[q].span,
          total |-> MapThenSumSet(LAMBDA o : Rows(o, mem[q].owners, mem[q].span), Origins)])
    /\ UNCHANGED usageVars

Send(q, top, complete) ==
    /\ metrics' = [of |-> mem[q].owners, total |-> mem[q].total, top |-> top, complete |-> complete]
    /\ Answer(q)
    /\ UNCHANGED <<history, remembered, status>>

\* getTopThrottledIPs counts again, in a query of its own, and whoever the merchant is.
GetTopThrottledIPs(q) ==
    LET Count(o) == Rows(o, Owners \cup {None}, mem[q].span)
        Refused == {o \in Origins : Count(o) > 0} IN
    /\ At(q, "topIPs")
    /\ \E L \in SUBSET Refused :
          /\ Cardinality(L) = IF Cardinality(Refused) < TopListed THEN Cardinality(Refused) ELSE TopListed
          /\ \A o \in L, p \in Refused \ L : Count(o) >= Count(p)
          /\ Send(q, [o \in L |-> Count(o)], Cardinality(Refused) <= TopListed)

\* An error of that query leaves the list empty, and the report is sent.
TopThrottledFails(q) ==
    /\ Failing
    /\ At(q, "topIPs")
    /\ Send(q, [o \in {} |-> 0], FALSE)

\* getRealTimeStatus: the rows of the last minute, then the burst keys in Redis, of which
\* there are none because no refused request has a user.
GetRealTimeStatus(q) ==
    /\ Receive(q, "usage", "burstKeys",
          [active |-> MapThenSumSet(LAMBDA o : Rows(o, Owners \cup {None}, 0), Origins)])
    /\ UNCHANGED usageVars

BurstKeys(q) ==
    /\ At(q, "burstKeys")
    /\ status' = [active |-> mem[q].active, recentEvents |-> Cardinality(remembered)]
    /\ Answer(q)
    /\ UNCHANGED <<history, remembered, metrics>>

\* An error is answered with a status of zeros.
StatusFails(q) ==
    /\ Failing
    /\ At(q, "burstKeys")
    /\ status' = [active |-> 0, recentEvents |-> 0]
    /\ Answer(q)
    /\ UNCHANGED <<history, remembered, metrics>>

UsageNext ==
    \/ \E q \in Requests :
          \/ LogRefusal(q) \/ SaveHistory(q)
          \/ GetMetrics(q) \/ GetMerchantMetrics(q) \/ CountHistory(q)
          \/ GetTopThrottledIPs(q) \/ TopThrottledFails(q)
          \/ GetRealTimeStatus(q) \/ BurstKeys(q) \/ StatusFails(q)
    \/ calls.usage > 0 /\ ServerRestarts

UsageInterrupted(q) ==
    /\ pc[q] \in UsageSteps
    /\ Interrupted(q)
    /\ UNCHANGED usageVars

------------------------------------------------------------------------------
\* The total of a report and its list of addresses are read one after the other while
\* requests are being refused: the list may know of more, never of less unless it was cut
\* off or failed.  It knows of more also because it is never limited to the merchant of
\* the report.  What a status calls recent events are the addresses refused since the
\* server started, whenever that was, and never more than have rows
\* (rateLimitMonitoring.service.ts lines 177 to 195, 311 to 457 and 492 to 543).
RefusalsAddUp ==
    /\ metrics # None /\ metrics.complete =>
          metrics.total <= MapThenSumSet(LAMBDA o : metrics.top[o], DOMAIN metrics.top)
    /\ metrics # None => \A o \in DOMAIN metrics.top :
          metrics.top[o] <= Rows(o, Owners \cup {None}, 3)
    /\ status # None =>
          status.recentEvents <= Cardinality({o \in Origins : Rows(o, Owners \cup {None}, 3) > 0})
==============================================================================
