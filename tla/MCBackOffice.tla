---------------------------- MODULE MCBackOffice ----------------------------
(***************************************************************************)
(* Instances of BackOffice for TLC.  A behaviour calls one component: they *)
(* share no table, so nothing is lost by not mixing their calls.           *)
(***************************************************************************)
EXTENDS BackOffice, TLC

CONSTANTS q1, q2, u1, u2, u3, c1, c2, n1, n2, f1, l1, l2, p1, p2, a1, a2, b1, b2,
          i1, i2, m1

Components == {"referrals", "notices", "flags", "reports", "fraud", "limits", "settings",
               "monitoring", "usage"}
Only(c, n) == [d \in Components |-> IF d = c THEN n ELSE 0]
MCBudgets == {Only("referrals", 3), Only("notices", 5), Only("flags", 3), Only("reports", 3),
              Only("fraud", 3), Only("limits", 2), Only("settings", 3),
              Only("monitoring", 2), Only("usage", 3)}

MCProgramBodies ==
    {[referrerReward |-> 1, refereeReward |-> 1, total |-> 3],
     [referrerReward |-> 2, used |-> 1],
     [status |-> "ACTIVE", total |-> 1]}
MCIssuances == {c1 :> u1 @@ c2 :> None}
MCRules == {[users |-> {u1}, percentage |-> 50], [users |-> None, percentage |-> 0]}
MCInRollout(u, percentage) == percentage = 50 /\ u = u1
MCProduct(l) == IF l = l1 THEN "product" ELSE "service"
\* A sale of each link, the older one not completed yet: its status changes among the queries.
MCBooks == {[p \in {p1, p2} |->
    IF p = p1 THEN [link |-> l1, amount |-> 1, age |-> 0, status |-> "completed"]
              ELSE [link |-> l2, amount |-> 2, age |-> 2, status |-> "pending"]]}
MCDates == {None, 2}
MCCases ==
    LET Plain == [amount |-> 40, average |-> 0, hourly |-> 0, daily |-> 0, spent |-> 0, same |-> 0,
                  failed |-> 0, hour |-> 12, throttled |-> 0, throttledAddress |-> 0, bursts |-> 0,
                  endpoints |-> 0, busy |-> 0]
    IN {[Plain EXCEPT !.amount = 1200, !.hourly = 10, !.throttled = 6, !.bursts = 4],
        [Plain EXCEPT !.amount = 1200, !.average = 100, !.hourly = 10],
        [Plain EXCEPT !.hourly = 11, !.throttled = 9, !.throttledAddress = 11, !.busy = 6]}
MCChanges == {[field |-> "autoBlockCritical", value |-> FALSE],
              [field |-> "criticalRiskThreshold", value |-> 120]}
MCRoles == <<"USER", "MERCHANT">>
MCMerchantNames == {{}, {"premium", "enterprise"}}
MCLimitBodies ==
    {[isActive |-> TRUE, role |-> "USER"], [second |-> 1, minute |-> 5, type |-> "premium"]}

MCKeys == <<"NODE_ENV", "SECRET", "SMTP_USER">>
MCParts == {<<"development", "dev">>}
MCEnvironments == [values |-> {"development", "production"}, text |-> FALSE]
MCTexts == {"dev", "development", "production", "s", Blank}
MCPuts ==
    {[key |-> "NODE_ENV", value |-> "dev", encrypted |-> FALSE, required |-> TRUE, allowed |-> NoList],
     [key |-> "NODE_ENV", value |-> "development", encrypted |-> FALSE, required |-> FALSE,
      allowed |-> MCEnvironments],
     [key |-> "SECRET", value |-> "s", encrypted |-> FALSE, required |-> TRUE,
      allowed |-> [values |-> {"s"}, text |-> FALSE]]}
MCStages == <<"development", "production">>
MCDefaults ==
    <<[key |-> "NODE_ENV", values |-> [e \in {"development", "production"} |-> e],
       encrypted |-> FALSE, required |-> TRUE, allowed |-> MCEnvironments],
      [key |-> "SMTP_USER", values |-> [e \in {"development", "production"} |-> Blank],
       encrypted |-> FALSE, required |-> TRUE, allowed |-> NoList]>>
MCTables ==
    {[k \in {"NODE_ENV", "SECRET", "SMTP_USER"} |-> None],
     [k \in {"NODE_ENV", "SECRET", "SMTP_USER"} |->
         IF k = "NODE_ENV"
         THEN [id |-> 1, value |-> "development", encrypted |-> FALSE, required |-> TRUE, allowed |-> MCEnvironments]
         ELSE IF k = "SECRET"
         THEN [id |-> 2, value |-> "s", encrypted |-> TRUE, required |-> TRUE, allowed |-> NoList]
         ELSE None]}

\* One address was refused an hour ago, or long ago too, or none was.
MCHistories ==
    LET Table(hour, older) == [o \in {i1, i2} |-> [w \in {m1, None} |-> [a \in 0 .. 3 |->
           IF o = i1 /\ w = None /\ a = 1 THEN hour ELSE IF o = i1 /\ w = m1 /\ a = 3 THEN older ELSE 0]]]
    IN {Table(0, 0), Table(1, 1)}

MCSamples == {[cpu |-> 90, heap |-> 50]}

Symmetry == Permutations(Requests)
==============================================================================
