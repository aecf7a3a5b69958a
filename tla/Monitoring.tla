----------------------------- MODULE Monitoring -----------------------------
(***************************************************************************)
(* Counters of requests, samples of the system, checks of the database,    *)
(* Redis and Stellar, and the alerts they send:                            *)
(* src/src/services/MetricsService.ts and routes/metrics.routes.ts.  All   *)
(* of it is in the memory of the process.  The thresholds and the          *)
(* recipients of alerts are configurations, read from the database each    *)
(* time unless an administrator made a row for them.                       *)
(***************************************************************************)
EXTENDS Handlers, SequencesExt

CONSTANTS
    Routes,          \* method and route of a request
    Samples,         \* of the system: percents of the processors and of the heap
    Latencies,       \* in milliseconds, of a response and of a query
    Quick,           \* and of Redis and Stellar
    AlertInterval,   \* minAlertIntervalMs, in ticks of the clock
    LatenciesKept,   \* durations kept of each route
    PointsKept,      \* retentionPoints
    LastTick         \* bound: the clock stops

\* An alert keeps others of its kind away for some time, and the lists have room.
ASSUME MonitorAssumption ==
    /\ AlertInterval \in Nat \ {0}
    /\ IsFiniteSet(Routes)
    /\ Latencies \subseteq Nat /\ Quick \subseteq Nat /\ Samples \subseteq [cpu: Nat, heap: Nat]
    /\ LatenciesKept \in Nat \ {0} /\ PointsKept \in Nat \ {0}
    /\ LastTick \in Nat

VARIABLES
    clock,
    counters,    \* routeCounters, by route
    totalRequests,
    recent,      \* lastRequestsTimestamps
    series,      \* timeSeries, by name
    alertedAt,   \* lastAlertSentAt, by key
    external,    \* lastExternalStatus, and when each status was found
    warnings     \* history: alerts since the process started

monitorVars == <<clock, counters, totalRequests, recent, series, alertedAt, external, warnings>>

Down == [database |-> "db_down", redis |-> "redis_down", stellar |-> "stellar_down"]
Dependencies == DOMAIN Down
AlertKeys == {"api_latency", "cpu_threshold", "memory_threshold", "db_latency"}
             \cup {Down[d] : d \in Dependencies}
Names == {"cpu_percent", "memory_heap", "database", "redis", "stellar"}
ProbeSteps == {"sampleSystem", "cpuThreshold", "memoryThreshold", "checkDatabase", "dbThreshold",
               "checkRedis", "checkStellar"}
MonitorSteps == ProbeSteps \cup {"latencyThreshold"}

\* The thresholds, unless an administrator made others.
CpuThreshold == 85
MemoryThreshold == 85
DatabaseThreshold == 500
LatencyThreshold == 1000

OkStatus == [status |-> "OK", at |-> 0]

MonitorTypeOK ==
    /\ clock \in 0..LastTick
    /\ \A r \in Routes : counters[r].errors <= counters[r].count
                         /\ Len(counters[r].latencies) <= LatenciesKept
    /\ \A i \in 1..Len(recent) : recent[i] <= clock
    /\ \A n \in Names : Len(series[n]) <= PointsKept
    /\ alertedAt \in [AlertKeys -> 0..LastTick \cup {None}]
    /\ \A d \in Dependencies : external[d].status \in {"OK", "FAIL"}
    /\ \A x \in warnings : x.key \in AlertKeys

NoCounters == [r \in Routes |-> [count |-> 0, errors |-> 0, latencies |-> <<>>]]
NoSeries == [n \in Names |-> <<>>]
NoAlerts == [k \in AlertKeys |-> None]
AllOk == [d \in Dependencies |-> OkStatus]

MonitorInit ==
    /\ clock = 0
    /\ counters = NoCounters /\ totalRequests = 0 /\ recent = <<>> /\ series = NoSeries
    /\ alertedAt = NoAlerts /\ external = AllOk
    /\ warnings = {}

------------------------------------------------------------------------------
Pass ==
    /\ clock < LastTick
    /\ clock' = clock + 1
    /\ UNCHANGED <<handlerVars, counters, totalRequests, recent, series, alertedAt, external, warnings>>

\* The process exits, on a rejection nobody handles among others, and is started again.
Restart ==
    /\ pc' = [q \in Requests |-> "idle"]
    /\ mem' = [q \in Requests |-> NoMemory]
    /\ counters' = NoCounters /\ totalRequests' = 0 /\ recent' = <<>> /\ series' = NoSeries
    /\ alertedAt' = NoAlerts /\ external' = AllOk
    /\ warnings' = {}
    /\ UNCHANGED <<calls, clock>>

------------------------------------------------------------------------------
\* Variant for testing the properties: that an alert was sent is not remembered.
TriggerAlertAgain(key) ==
    /\ warnings' = warnings \cup {[key |-> key, at |-> clock]}
    /\ UNCHANGED alertedAt

\* The time is set first.  That the recipients are read after it and the mail is sent changes
\* nothing here, and neither does their failure.
TriggerAlert(key) ==
    LET silent == IF alertedAt[key] = None THEN FALSE ELSE clock - alertedAt[key] < AlertInterval IN
    \/ /\ ~silent
       /\ alertedAt' = [alertedAt EXCEPT ![key] = clock]
       /\ warnings' = warnings \cup {[key |-> key, at |-> clock]}
    \/ silent /\ UNCHANGED <<alertedAt, warnings>>

AlertIf(exceeded, key) == IF exceeded THEN TriggerAlert(key) ELSE UNCHANGED <<alertedAt, warnings>>

------------------------------------------------------------------------------
\* A response is sent.  The first element of a full list makes room.
Pushed(s, x, most) == IF Len(s) = most THEN Append(Tail(s), x) ELSE Append(s, x)

\* Old times are taken from the front, up to the first that is not old.
LastMinute(times) ==
    {SubSeq(times, n, Len(times)) : n \in
        {i \in 1..Len(times) : times[i] = clock /\ \A k \in 1..(i - 1) : times[k] # clock}}

ObserveRequest(q) ==
    \E r \in Routes, duration \in Latencies, failed \in BOOLEAN :
       /\ Receive(q, "monitoring", "latencyThreshold", duration)
       /\ counters' = [counters EXCEPT ![r] =
             [count |-> @.count + 1,
              errors |-> @.errors + (IF failed THEN 1 ELSE 0),
              latencies |-> Pushed(@.latencies, duration, LatenciesKept)]]
       /\ totalRequests' = totalRequests + 1
       /\ \E kept \in LastMinute(Append(recent, clock)) : recent' = kept
       /\ UNCHANGED <<clock, series, alertedAt, external, warnings>>

\* If the threshold cannot be read there is no alert.
MaybeAlert(q) ==
    /\ At(q, "latencyThreshold")
    /\ \/ AlertIf(mem[q] > LatencyThreshold, "api_latency")
       \/ UNCHANGED <<alertedAt, warnings>>
    /\ Answer(q)
    /\ UNCHANGED <<clock, counters, totalRequests, recent, series, external>>

------------------------------------------------------------------------------
\* The summary, and the same figures for Prometheus: a sample of the system, a check of
\* each dependency, and what there is in memory after that.
GetSummary(q) ==
    /\ Receive(q, "monitoring", "sampleSystem",
          [cpu |-> 0, heap |-> 0, latency |-> 0, status |-> AllOk])
    /\ UNCHANGED monitorVars

Sampled(name, value) == Pushed(series[name], [ts |-> clock, value |-> value], PointsKept)

CollectSystemResources(q) ==
    /\ At(q, "sampleSystem")
    /\ \E x \in Samples :
          /\ series' = [series EXCEPT !["cpu_percent"] = Sampled("cpu_percent", x.cpu),
                                      !["memory_heap"] = Sampled("memory_heap", x.heap)]
          /\ Goto(q, "cpuThreshold", [mem[q] EXCEPT !.cpu = x.cpu, !.heap = x.heap])
    /\ UNCHANGED <<clock, counters, totalRequests, recent, alertedAt, external, warnings>>

CompareCpu(q) ==
    /\ At(q, "cpuThreshold")
    /\ AlertIf(mem[q].cpu > CpuThreshold, "cpu_threshold")
    /\ Goto(q, "memoryThreshold", [mem[q] EXCEPT !.cpu = 0])
    /\ UNCHANGED <<clock, counters, totalRequests, recent, series, external>>

CompareMemory(q) ==
    /\ At(q, "memoryThreshold")
    /\ AlertIf(mem[q].heap > MemoryThreshold, "memory_threshold")
    /\ Goto(q, "checkDatabase", [mem[q] EXCEPT !.heap = 0])
    /\ UNCHANGED <<clock, counters, totalRequests, recent, series, external>>

\* Neither the sample nor the routes catch what these two reads throw.
ThresholdUnreadable(q) ==
    /\ pc[q] \in {"cpuThreshold", "memoryThreshold"}
    /\ Restart

------------------------------------------------------------------------------
\* checkExternalStatus: what the check of a dependency finds, and what follows.
Finds(q, d, status, latency, step) ==
    Goto(q, step, [mem[q] EXCEPT !.latency = latency, !.status[d] = [status |-> status, at |-> clock]])

Fails(q, d, step) ==
    /\ TriggerAlert(Down[d])
    /\ Finds(q, d, "FAIL", 0, step)

CheckDatabase(q) ==
    /\ At(q, "checkDatabase")
    /\ \/ /\ \E latency \in Latencies :
                /\ series' = [series EXCEPT !["database"] = Sampled("database", latency)]
                /\ Finds(q, "database", "OK", latency, "dbThreshold")
          /\ UNCHANGED <<alertedAt, warnings>>
       \/ Fails(q, "database", "checkRedis") /\ UNCHANGED series
    /\ UNCHANGED <<clock, counters, totalRequests, recent, external>>

\* That the threshold cannot be read is a failure of the database too.
CompareDatabase(q) ==
    /\ At(q, "dbThreshold")
    /\ \/ /\ AlertIf(mem[q].latency > DatabaseThreshold, "db_latency")
          /\ Goto(q, "checkRedis", [mem[q] EXCEPT !.latency = 0])
       \/ Fails(q, "database", "checkRedis")
    /\ UNCHANGED <<clock, counters, totalRequests, recent, series, external>>

CheckRedis(q) ==
    /\ At(q, "checkRedis")
    /\ \/ /\ \E latency \in Quick : series' = [series EXCEPT !["redis"] = Sampled("redis", latency)]
          /\ Finds(q, "redis", "OK", 0, "checkStellar")
          /\ UNCHANGED <<alertedAt, warnings>>
       \/ Fails(q, "redis", "checkStellar") /\ UNCHANGED series
    /\ UNCHANGED <<clock, counters, totalRequests, recent, external>>

\* The last check, after which the statuses are those of this request.  A response that is
\* not ok has a latency and fails; a fetch that is aborted has none.
CheckStellar(q) ==
    LET Answered(status) ==
          external' = [mem[q].status EXCEPT !["stellar"] = [status |-> status, at |-> clock]]
        Measured ==
          \E latency \in Quick : series' = [series EXCEPT !["stellar"] = Sampled("stellar", latency)]
    IN
    /\ At(q, "checkStellar")
    /\ \/ Answered("OK") /\ Measured /\ UNCHANGED <<alertedAt, warnings>>
       \/ Answered("FAIL") /\ (Measured \/ UNCHANGED series) /\ TriggerAlert(Down["stellar"])
    /\ Answer(q)
    /\ UNCHANGED <<clock, counters, totalRequests, recent>>

------------------------------------------------------------------------------
\* What is in memory, as the routes show it.  The latencies of a route, by their place in the
\* list: their sum over their number, and their 95th percentile, which is what the list has at
\* that place once it is sorted.
LeastOf(S) == CHOOSE v \in S : \A w \in S : v <= w
GreatestOf(S) == CHOOSE v \in S : \A w \in S : v >= w

Percentile(values) ==
    LET place == (95 * (Cardinality(DOMAIN values) - 1)) \div 100
        UpTo(v) == {i \in DOMAIN values : values[i] <= v}
    IN IF DOMAIN values = {} THEN 0 ELSE LeastOf({v \in Range(values) : Cardinality(UpTo(v)) > place})

\* Variant for testing the properties: the sum is not divided.
AverageSum(values) == FoldFunction(+, 0, values)

Average(values) ==
    IF DOMAIN values = {} THEN 0 ELSE FoldFunction(+, 0, values) \div Cardinality(DOMAIN values)
LatestOf(name) == IF series[name] = <<>> THEN 0 ELSE series[name][Len(series[name])].value

\* getSnapshot, in the summary and, rendered, for Prometheus.
Snapshot ==
    [total |-> totalRequests,
     byRoute |-> [r \in Routes |-> [count |-> counters[r].count,
                                    errors |-> counters[r].errors,
                                    average |-> Average(counters[r].latencies),
                                    p95 |-> Percentile(counters[r].latencies)]],
     lastMinute |-> Cardinality({i \in 1..Len(recent) : recent[i] = clock}),
     cpu |-> LatestOf("cpu_percent"),
     heap |-> LatestOf("memory_heap"),
     external |-> external]

\* getPrometheusMetrics: the same figures, of the routes that were requested.
PrometheusMetrics ==
    LET requested == {r \in Routes : counters[r].count > 0} IN
    [api_request_total |-> [r \in requested |-> Snapshot.byRoute[r].count],
     api_error_total |-> [r \in requested |-> Snapshot.byRoute[r].errors],
     api_latency_ms_p95 |-> [r \in requested |-> Snapshot.byRoute[r].p95],
     api_latency_ms_avg |-> [r \in requested |-> Snapshot.byRoute[r].average],
     throughput_rps |-> Snapshot.lastMinute]

\* getHistorical: the points of a window and one figure for them.
Historical(name, window, aggregation) ==
    LET shown == {i \in 1..Len(series[name]) : series[name][i].ts >= clock - window}
        values == [i \in shown |-> series[name][i].value]
    IN [points |-> [i \in shown |-> series[name][i]],
        aggregated |->
            IF shown = {} THEN None
            ELSE CASE aggregation = "avg" -> Average(values)
                   [] aggregation = "min" -> LeastOf(Range(values))
                   [] aggregation = "max" -> GreatestOf(Range(values))
                   [] aggregation = "p95" -> Percentile(values)]

------------------------------------------------------------------------------
MonitorNext ==
    \/ \E q \in Requests :
          \/ ObserveRequest(q) \/ MaybeAlert(q)
          \/ GetSummary(q) \/ CollectSystemResources(q) \/ CompareCpu(q) \/ CompareMemory(q)
          \/ ThresholdUnreadable(q)
          \/ CheckDatabase(q) \/ CompareDatabase(q) \/ CheckRedis(q) \/ CheckStellar(q)
    \/ Pass

\* The process may exit at any time.
MonitorInterrupted(q) ==
    /\ Failing
    /\ pc[q] \in MonitorSteps
    /\ Restart

------------------------------------------------------------------------------
AlertsAreSparse ==
    \A x, y \in warnings : x.key = y.key /\ x.at <= y.at => x = y \/ y.at - x.at >= AlertInterval
FailuresAreAlerted ==
    \A d \in Dependencies : external[d].status = "FAIL" =>
        \E x \in warnings : /\ x.key = Down[d]
                            /\ x.at <= external[d].at /\ external[d].at - x.at < AlertInterval

\* However the checks of several requests interleave, in the life of one process: one
\* alert is sent once in ten minutes at most, and a failure the dashboard shows was
\* alerted no more than ten minutes before it was found (MetricsService.ts lines 229 to
\* 347 and 476 to 506).
AlertsHold == AlertsAreSparse /\ FailuresAreAlerted

\* The figures of a summary, those for Prometheus and those of a window agree with one
\* another, whatever was observed and dropped before (MetricsService.ts lines 70 to 156
\* and 295 to 474).
FiguresAgree ==
    /\ LET m == PrometheusMetrics IN
          /\ FoldFunction(+, 0, m.api_request_total) = Snapshot.total
          /\ m.throughput_rps <= Snapshot.total
          /\ \A r \in DOMAIN m.api_request_total :
                /\ m.api_error_total[r] <= m.api_request_total[r]
                /\ m.api_latency_ms_p95[r] \in Range(counters[r].latencies)
                /\ m.api_latency_ms_avg[r] <= GreatestOf(Range(counters[r].latencies))
    /\ \A n \in {"cpu_percent", "database"}, window \in 0..1 :
          LET Of(how) == Historical(n, window, how).aggregated IN
          Of("min") # None => Of("min") <= Of("avg") /\ Of("avg") <= Of("max") /\ Of("p95") <= Of("max")
==============================================================================
