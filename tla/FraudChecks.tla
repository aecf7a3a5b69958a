----------------------------- MODULE FraudChecks -----------------------------
(***************************************************************************)
(* Fraud checks, their alerts and the settings they go by, for a merchant: *)
(* src/src/services/FraudDetectionService.ts and its controller.  A check  *)
(* adds up the points of the rules a transaction breaks; a second part,    *)
(* about throttled requests, may raise the result.  The rows a check looks *)
(* at (transactions of the payer, throttled requests) are written by       *)
(* others: what its queries return belongs to the case.                    *)
(***************************************************************************)
EXTENDS Handlers

CONSTANTS
    Cases,       \* transactions, with what the queries about them return
    Changes,     \* changes of the settings: [field, value]
    AlertIds     \* bound: the ids of alerts

\* The columns of the settings, and the rows.
NumberColumns ==
    {"mediumRiskThreshold", "highRiskThreshold", "criticalRiskThreshold", "maxTransactionAmount",
     "dailyLimit", "maxTransactionsPerHour", "maxTransactionsPerDay", "maxSameAmountInHour",
     "maxFailedAttemptsPerHour"}
SwitchColumns == {"autoBlockHighRisk", "autoBlockCritical"}
FraudSettings ==
    [mediumRiskThreshold: Int, highRiskThreshold: Int, criticalRiskThreshold: Int, maxTransactionAmount: Int,
     dailyLimit: Int, maxTransactionsPerHour: Int, maxTransactionsPerDay: Int, maxSameAmountInHour: Int,
     maxFailedAttemptsPerHour: Int, autoBlockHighRisk: BOOLEAN, autoBlockCritical: BOOLEAN]

ASSUME FraudAssumption ==
    /\ Changes \subseteq [field: NumberColumns, value: Int] \cup [field: SwitchColumns, value: BOOLEAN]
    /\ \A t \in Cases : t.amount \in Nat
    /\ IsFiniteSet(AlertIds)
    /\ None \notin AlertIds \cup FraudSettings

VARIABLES
    settings,    \* table merchant_fraud_configs, the row of the merchant
    alerts,      \* table fraud_alerts, by id
    banned,      \* the payers and addresses added to rate_limit_blacklist
    answered,    \* history: what the checks were answered
    reviewed,    \* history: the alerts a reviewer has given a status
    statistics   \* history: the last statistics sent

fraudVars == <<settings, alerts, banned, answered, reviewed, statistics>>

Levels == {"low", "medium", "high", "critical"}
Alert == [level: Levels, status: {"pending", "approved", "blocked"}, score: 0 .. 100, amount: Nat]
CheckSteps == {"readSettings", "insertSettings", "applyRules", "saveAlert", "ratePatterns", "rateAgain",
               "banPayer", "banAddress"}
FraudSteps == CheckSteps \cup {"saveSettings", "saveReview"}
Raised == {i \in AlertIds : alerts[i] # None}

FraudTypeOK ==
    /\ settings \in FraudSettings \cup {None}
    /\ \A i \in Raised : alerts[i] \in Alert

\* The columns' defaults.
DefaultSettings ==
    [mediumRiskThreshold |-> 70, highRiskThreshold |-> 85, criticalRiskThreshold |-> 95,
     maxTransactionAmount |-> 1000, dailyLimit |-> 5000, maxTransactionsPerHour |-> 10,
     maxTransactionsPerDay |-> 50, maxSameAmountInHour |-> 3, maxFailedAttemptsPerHour |-> 5,
     autoBlockHighRisk |-> TRUE, autoBlockCritical |-> TRUE]

FraudInit ==
    /\ settings \in {None, DefaultSettings}
    /\ alerts = [i \in AlertIds |-> None]
    /\ banned = {}
    /\ answered = {}
    /\ reviewed = {}
    /\ statistics = None

FraudIdle ==
    /\ settings = None
    /\ alerts = [i \in AlertIds |-> None]
    /\ banned = {}
    /\ answered = {}
    /\ reviewed = {}
    /\ statistics = None

------------------------------------------------------------------------------
\* The rules a transaction breaks, and their points.
When(rule, broken) == IF broken THEN {rule} ELSE {}

AmountRules(t, s) ==
    When("AMOUNT_EXCEEDS_LIMIT", t.amount > s.maxTransactionAmount)
    \cup When("AMOUNT_UNUSUAL_HIGH", t.average > 0 /\ t.amount > 5 * t.average)

VelocityRules(t, s) ==
    When("VELOCITY_HOURLY_EXCEEDED", t.hourly >= s.maxTransactionsPerHour)
    \cup When("VELOCITY_DAILY_EXCEEDED", t.daily >= s.maxTransactionsPerDay)
    \cup When("DAILY_AMOUNT_LIMIT_EXCEEDED", t.spent > 0 /\ t.spent + t.amount > s.dailyLimit)

PatternRules(t, s) ==
    When("SAME_AMOUNT_PATTERN", t.same >= s.maxSameAmountInHour)
    \cup When("ROUND_AMOUNT_PATTERN", t.amount % 100 = 0 /\ t.amount >= 500)

FailureRules(t, s) == When("EXCESSIVE_FAILED_ATTEMPTS", t.failed >= s.maxFailedAttemptsPerHour)
TimeRules(t) == When("UNUSUAL_TIME", t.hour \in 2 .. 6)

\* The mean of the amounts is not a number, for the driver returns them as text.
AnomalyRules(t) == {}

RulesTriggered(t, s) ==
    AmountRules(t, s) \cup VelocityRules(t, s) \cup PatternRules(t, s) \cup FailureRules(t, s)
    \cup TimeRules(t) \cup AnomalyRules(t)

Points == [AMOUNT_EXCEEDS_LIMIT |-> 50, AMOUNT_UNUSUAL_HIGH |-> 40, VELOCITY_HOURLY_EXCEEDED |-> 40,
           VELOCITY_DAILY_EXCEEDED |-> 35, DAILY_AMOUNT_LIMIT_EXCEEDED |-> 30,
           SAME_AMOUNT_PATTERN |-> 15, ROUND_AMOUNT_PATTERN |-> 5, EXCESSIVE_FAILED_ATTEMPTS |-> 20,
           UNUSUAL_TIME |-> 5, STATISTICAL_ANOMALY |-> 10, EXCESSIVE_RATE_LIMITING |-> 25,
           IP_RATE_LIMIT_ABUSE |-> 30, BURST_MODE_ABUSE |-> 15, RAPID_ENDPOINT_SWITCHING |-> 20,
           HIGH_VOLUME_PATTERN |-> 20]
Score(rules) ==
    LET Of(r) == IF r \in rules THEN Points[r] ELSE 0 IN
    Of("AMOUNT_EXCEEDS_LIMIT") + Of("AMOUNT_UNUSUAL_HIGH") + Of("VELOCITY_HOURLY_EXCEEDED")
    + Of("VELOCITY_DAILY_EXCEEDED") + Of("DAILY_AMOUNT_LIMIT_EXCEEDED") + Of("SAME_AMOUNT_PATTERN")
    + Of("ROUND_AMOUNT_PATTERN") + Of("EXCESSIVE_FAILED_ATTEMPTS") + Of("UNUSUAL_TIME")
    + Of("STATISTICAL_ANOMALY") + Of("EXCESSIVE_RATE_LIMITING") + Of("IP_RATE_LIMIT_ABUSE")
    + Of("BURST_MODE_ABUSE") + Of("RAPID_ENDPOINT_SWITCHING") + Of("HIGH_VOLUME_PATTERN")
AtMost100(n) == IF n > 100 THEN 100 ELSE n

\* What the payer's and the address's throttled requests of the last hour break.
RateLimitingPatterns(t) ==
    When("EXCESSIVE_RATE_LIMITING", t.throttled > 5)
    \cup When("IP_RATE_LIMIT_ABUSE", t.throttledAddress > 10)
    \cup When("BURST_MODE_ABUSE", t.bursts > 3)
    \cup When("RAPID_ENDPOINT_SWITCHING", t.endpoints > 10)
    \cup When("HIGH_VOLUME_PATTERN", t.busy > 5)

CalculateRiskLevel(score, s) ==
    CASE score >= s.criticalRiskThreshold -> "critical"
      [] score < s.criticalRiskThreshold /\ score >= s.highRiskThreshold -> "high"
      [] OTHER -> IF score >= s.mediumRiskThreshold THEN "medium" ELSE "low"

ShouldBlock(level, s) ==
    \/ level = "critical" /\ s.autoBlockCritical
    \/ level = "high" /\ s.autoBlockHighRisk

------------------------------------------------------------------------------
\* checkTransaction, and checkTransactionWithRateLimit, which calls it.
PostCheck(q) ==
    /\ \E t \in Cases, twice \in BOOLEAN :
          Receive(q, "fraud", "readSettings", [case |-> t, twice |-> twice, then |-> "applyRules"])
    /\ UNCHANGED fraudVars

\* getMerchantConfig: the row, or a new one with the defaults.  The index on the
\* one-to-one column refuses a second row.
ReadSettings(q) ==
    /\ At(q, "readSettings")
    /\ \/ settings # None /\ Goto(q, mem[q].then, [mem[q] EXCEPT !.then = settings])
       \/ settings = None /\ Goto(q, "insertSettings", mem[q])
    /\ UNCHANGED fraudVars

InsertSettings(q) ==
    /\ At(q, "insertSettings")
    /\ \/ /\ settings = None
          /\ settings' = DefaultSettings
          /\ Goto(q, mem[q].then, [mem[q] EXCEPT !.then = DefaultSettings])
       \/ settings # None /\ Answer(q) /\ UNCHANGED settings
    /\ UNCHANGED <<alerts, banned, answered, reviewed, statistics>>

\* The result of a check as its caller gets it.
Conclude(m) == answered' = answered \cup {[alert |-> m.alert, block |-> m.block, first |-> m.first,
                                           last |-> m.last, patterns |-> m.patterns]}

ApplyRules(q) ==
    LET t == mem[q].case
        s == mem[q].then
        score == Score(RulesTriggered(t, s))
        level == CalculateRiskLevel(score, s)
        m == [case |-> t, twice |-> mem[q].twice, alert |-> None, score |-> AtMost100(score), level |-> level,
              block |-> ShouldBlock(level, s), first |-> s, last |-> s, patterns |-> {}]
    IN
    /\ At(q, "applyRules")
    /\ \/ m.block /\ Goto(q, "saveAlert", m) /\ UNCHANGED answered
       \/ ~m.block /\ m.twice /\ Goto(q, "ratePatterns", m) /\ UNCHANGED answered
       \/ ~m.block /\ ~m.twice /\ Answer(q) /\ Conclude(m)
    /\ UNCHANGED <<settings, alerts, banned, reviewed, statistics>>

CreateFraudAlert(q) ==
    /\ At(q, "saveAlert")
    /\ \E i \in AlertIds \ Raised :
          LET m == [mem[q] EXCEPT !.alert = i] IN
          /\ alerts' = [alerts EXCEPT ![i] = [level |-> m.level, status |-> "blocked",
                           score |-> m.score, amount |-> m.case.amount]]
          /\ IF m.twice THEN Goto(q, "ratePatterns", m) /\ UNCHANGED answered
                             ELSE Answer(q) /\ Conclude(m)
    /\ UNCHANGED <<settings, banned, reviewed, statistics>>

\* checkRateLimitingPatterns; if one of its queries throws, no pattern is found.
CheckRateLimitingPatterns(q) ==
    /\ At(q, "ratePatterns")
    /\ \E found \in {RateLimitingPatterns(mem[q].case)} \cup (IF Failing THEN {{}} ELSE {}) :
          Goto(q, "rateAgain", [mem[q] EXCEPT !.patterns = found])
    /\ UNCHANGED fraudVars

\* Variant for testing the properties: only the new points count.
RateAgainAnew(q) ==
    LET m == mem[q]
        score == Score(m.patterns)
        level == CalculateRiskLevel(score, settings) IN
    /\ At(q, "rateAgain")
    /\ Goto(q, "banPayer", [m EXCEPT !.score = score, !.level = level,
             !.block = ShouldBlock(level, settings), !.last = settings])
    /\ UNCHANGED fraudVars

\* The settings are read once more, and the level and the decision made from the sum.
RateAgain(q) ==
    LET m == mem[q]
        score == AtMost100(m.score + Score(m.patterns))
        level == CalculateRiskLevel(score, settings) IN
    /\ At(q, "rateAgain")
    /\ Goto(q, "banPayer", [m EXCEPT !.score = score, !.level = level,
             !.block = ShouldBlock(level, settings), !.last = settings])
    /\ UNCHANGED fraudVars

\* The two bans; an error of either is logged and no more.
Ban(q, what, bound) ==
    LET points == Score(mem[q].patterns)
        ban == {<<what, mem[q].case>>} IN
    banned' \in IF points <= bound THEN {banned}
                ELSE {banned \cup ban} \cup (IF Failing THEN {banned} ELSE {})

BanPayer(q) ==
    /\ At(q, "banPayer")
    /\ Ban(q, "payer", 30)
    /\ Goto(q, "banAddress", mem[q])
    /\ UNCHANGED <<settings, alerts, answered, reviewed, statistics>>

BanAddress(q) ==
    /\ At(q, "banAddress")
    /\ Ban(q, "address", 25)
    /\ Answer(q)
    /\ Conclude(mem[q])
    /\ UNCHANGED <<settings, alerts, reviewed, statistics>>

------------------------------------------------------------------------------
\* updateMerchantConfig: the row is read, or made, changed and saved whole.
PutSettings(q) ==
    /\ \E c \in Changes : Receive(q, "fraud", "readSettings", [change |-> c, then |-> "saveSettings"])
    /\ UNCHANGED fraudVars

UpdateMerchantConfig(q) ==
    LET c == mem[q].change IN
    /\ At(q, "saveSettings")
    /\ settings' = [mem[q].then EXCEPT ![c.field] = c.value]
    /\ Answer(q)
    /\ UNCHANGED <<alerts, banned, answered, reviewed, statistics>>

\* reviewFraudAlert: the alert is found, its status changed, and saved.
PatchReview(q) ==
    /\ \E i \in Raised, st \in {"approved", "pending"} : Receive(q, "fraud", "saveReview",
          [id |-> i, row |-> [alerts[i] EXCEPT !.status = st]])
    /\ UNCHANGED fraudVars

ReviewFraudAlert(q) ==
    /\ At(q, "saveReview")
    /\ alerts' = [alerts EXCEPT ![mem[q].id] = mem[q].row]
    /\ reviewed' = reviewed \cup {mem[q].id}
    /\ Answer(q)
    /\ UNCHANGED <<settings, banned, answered, statistics>>

\* getFraudStats.  The sums of the amounts are the amounts one after the other, for the
\* driver returns a decimal as text: they are numbers only if there is no alert.
FraudStats ==
    LET Count(test(_)) == Cardinality({i \in Raised : test(alerts[i])}) IN
    [alerts |-> Cardinality(Raised),
     blocked |-> Count(LAMBDA a : a.status = "blocked"),
     pending |-> Count(LAMBDA a : a.status = "pending"),
     levels |-> [l \in Levels |-> Count(LAMBDA a : a.level = l)],
     totalAmount |-> IF Raised = {} THEN 0 ELSE "text"]

GetFraudStats(q) ==
    /\ Serve(q, "fraud")
    /\ statistics' = FraudStats
    /\ UNCHANGED <<settings, alerts, banned, answered, reviewed>>

FraudNext == \E q \in Requests :
    \/ PostCheck(q) \/ ReadSettings(q) \/ InsertSettings(q) \/ ApplyRules(q) \/ CreateFraudAlert(q)
    \/ CheckRateLimitingPatterns(q) \/ RateAgain(q) \/ BanPayer(q) \/ BanAddress(q)
    \/ PutSettings(q) \/ UpdateMerchantConfig(q) \/ PatchReview(q) \/ ReviewFraudAlert(q)
    \/ GetFraudStats(q)

FraudInterrupted(q) ==
    /\ pc[q] \in FraudSteps
    /\ Interrupted(q)
    /\ UNCHANGED fraudVars

------------------------------------------------------------------------------
\* Settings by which more points never lead to less.
Monotone(s) ==
    /\ s.autoBlockHighRisk => s.autoBlockCritical
    /\ s.criticalRiskThreshold <= 100
    /\ s.highRiskThreshold <= s.criticalRiskThreshold

\* A check that raised an alert "blocked" is answered as blocked, and one that raised none is
\* not unless throttled requests made the difference, although the points are capped and the
\* settings read again for the second decision: provided that the settings were not changed
\* in between, do not block the high risk and spare the critical, and have no threshold
\* beyond the cap.  Who is banned for throttled requests made them; and no alert waits for a
\* review, or is counted so, that no reviewer put back (FraudDetectionService.ts lines 42 to
\* 94, 96 to 168 and 568 to 646).
AnswersMatchAlerts ==
    /\ \A a \in answered : a.first = a.last /\ Monotone(a.first) =>
          /\ a.alert # None => a.block
          /\ a.alert = None /\ a.block => a.patterns # {}
    /\ \A b \in banned : RateLimitingPatterns(b[2]) # {}
    /\ \A i \in Raised : alerts[i].status = "blocked" \/ i \in reviewed
    /\ statistics # None => statistics.pending <= Cardinality(reviewed)
==============================================================================
