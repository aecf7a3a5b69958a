----------------------------- MODULE RateLimits -----------------------------
(***************************************************************************)
(* The limits configured for the roles of a merchant's users, the defaults *)
(* made when there are none, and the job that adapts them:                 *)
(* src/src/services/rateLimitConfigService.ts, adaptiveRateLimitService.ts *)
(* and the configuration endpoints of RateLimitController.ts.  The limits  *)
(* per hour and per day follow those per second and are left out.          *)
(***************************************************************************)
EXTENDS Handlers

CONSTANTS
    LimitIds,        \* bound: the ids of configurations
    Roles,           \* some of the roles of users, in the order of the enumeration
    MerchantNames,   \* what the merchant may be called in the course of time: sets of words
    LimitBodies      \* bodies of requests: the columns they name, but for id and merchant

VARIABLES
    limits,      \* table rate_limit_configs, by id
    asked,       \* history: the requests per minute last set by a client or a default
    removed,     \* history: configurations that were deleted and not activated since
    made,        \* history: configurations made from the defaults, which no request gave
                 \* another role or activated since
    crowded,     \* history: roles that two requests were about to make defaults for
    shared       \* history: configurations that two requests were about to save

limitVars == <<limits, asked, removed, made, crowded, shared>>

Types == {"standard", "premium", "enterprise"}
LimitRow == [role: {Roles[n] : n \in DOMAIN Roles} \cup {None}, type: Types \cup {None},
             second: Nat, minute: Nat, isActive: BOOLEAN]
NewRow == [role |-> None, type |-> None, second |-> 0, minute |-> 0, isActive |-> TRUE]
FillSteps == {"findType", "insertDefault"}
SaveSteps == {"saveLimits", "readLimits", "saveAdjusted"}
LimitSteps == FillSteps \cup SaveSteps \cup {"findRole", "findLimits", "findAny"}

\* There are roles, a body gives columns values they may have, and a row is not null.
ASSUME LimitAssumption ==
    /\ Roles \in Seq({Roles[n] : n \in DOMAIN Roles}) /\ Roles # <<>>
    /\ \A b \in LimitBodies : DOMAIN b \subseteq DOMAIN NewRow /\ Assigned(NewRow, b) \in LimitRow
    /\ None \notin LimitRow

Configured == {i \in LimitIds : limits[i] # None}
Serving(i) == i \in Configured /\ limits[i].isActive
LimitTypeOK == \A i \in Configured : limits[i] \in LimitRow

Tiers == [basic |-> [second |-> 5, minute |-> 60],
          premium |-> [second |-> 10, minute |-> 300],
          enterprise |-> [second |-> 50, minute |-> 1000]]

LimitInit ==
    /\ LET Holding(row) == [i \in LimitIds |-> IF i = (CHOOSE j \in LimitIds : TRUE) THEN row ELSE None]
       IN limits \in {Holding(None)} \cup
             {Holding([role |-> Roles[n], type |-> "standard", second |-> 5, minute |-> minute, isActive |-> a]) :
                 n \in DOMAIN Roles, minute \in {0, 11}, a \in BOOLEAN}
    /\ asked = [i \in LimitIds |-> IF limits[i] = None THEN 0 ELSE limits[i].minute]
    /\ removed = {i \in LimitIds : i \in Configured /\ ~Serving(i)}
    /\ made = {}
    /\ crowded = {}
    /\ shared = {}

LimitIdle ==
    /\ limits = [i \in LimitIds |-> None]
    /\ asked = [i \in LimitIds |-> 0]
    /\ removed = {}
    /\ made = {}
    /\ crowded = {}
    /\ shared = {}

------------------------------------------------------------------------------
\* What a merchant is by its business name, and the limits of a role, which are those of
\* the merchant's type if the role has none.
DetermineMerchantType(name) ==
    IF "enterprise" \in name THEN "enterprise" ELSE IF "premium" \in name THEN "premium" ELSE "standard"

DefaultLimits(role, type) ==
    CASE role = "USER" -> Tiers.basic
      [] role = "ADMIN" -> Tiers.premium
      [] OTHER -> IF type = "standard" THEN Tiers.basic ELSE Tiers[type]

\* getConfigForUser makes a configuration if it finds none, getEffectiveLimits only
\* answers with the defaults.  An error of either is answered with defaults too.
GetConfigForUser(q) ==
    /\ \E n \in DOMAIN Roles : Receive(q, "limits", "findRole",
          [how |-> "create", role |-> Roles[n], type |-> None, left |-> <<>>])
    /\ UNCHANGED limitVars

GetEffectiveLimits(q) ==
    /\ \E n \in DOMAIN Roles : Receive(q, "limits", "findRole",
          [how |-> "answer", role |-> Roles[n], type |-> None, left |-> <<>>])
    /\ UNCHANGED limitVars

\* initializeDefaultConfigsForMerchant goes through the roles.
InitializeDefaultConfigs(q) ==
    /\ \E name \in MerchantNames : Receive(q, "limits", "findRole",
          [how |-> "initialize", role |-> Head(Roles), type |-> DetermineMerchantType(name),
           left |-> Tail(Roles)])
    /\ UNCHANGED limitVars

NextRole(q) ==
    LET left == mem[q].left IN
    IF left = <<>> THEN Answer(q)
    ELSE Goto(q, "findRole", [mem[q] EXCEPT !.role = Head(left), !.left = Tail(left)])

FindRole(q) ==
    LET found == \E i \in Configured : Serving(i) /\ limits[i].role = mem[q].role IN
    /\ At(q, "findRole")
    /\ \/ found /\ NextRole(q)
       \/ ~found /\ Goto(q, IF mem[q].how = "initialize" THEN "insertDefault" ELSE "findType", mem[q])
    /\ UNCHANGED <<limits, asked, removed, made>>

FindMerchantType(q) ==
    /\ At(q, "findType")
    /\ \E name \in MerchantNames :
          LET type == DetermineMerchantType(name)
              found == \E i \in Configured : Serving(i) /\ limits[i].type = type IN
          IF found \/ mem[q].how = "answer" THEN Answer(q)
          ELSE Goto(q, "insertDefault", [mem[q] EXCEPT !.type = type])
    /\ UNCHANGED <<limits, asked, removed, made>>

Insert(i, row) ==
    /\ limits' = [limits EXCEPT ![i] = row]
    /\ asked' = [asked EXCEPT ![i] = row.minute]

InsertDefault(q) ==
    LET new == DefaultLimits(mem[q].role, mem[q].type) IN
    /\ At(q, "insertDefault")
    /\ \E i \in LimitIds \ Configured :
          /\ Insert(i, [role |-> mem[q].role, type |-> mem[q].type, second |-> new.second,
                        minute |-> new.minute, isActive |-> TRUE])
          /\ made' = made \cup {i}
    /\ NextRole(q)
    /\ UNCHANGED removed

------------------------------------------------------------------------------
\* createConfig: none of the limits may be missing or zero, the rest is as in the body.
CreateConfig(q) ==
    /\ Serve(q, "limits")
    /\ \E i \in LimitIds \ Configured, body \in LimitBodies :
          LET row == Assigned(NewRow, body) IN
          /\ row.second # 0 /\ row.minute # 0
          /\ Insert(i, row)
    /\ UNCHANGED <<removed, made>>

\* updateConfig and deleteConfig find the row, active or not, assign the body, or that it
\* is not active, and save it whole.  bulkUpdateConfigs does so for one after the other,
\* whether or not one fails.
Updates == [id: LimitIds, body: LimitBodies]
PutConfig(q) ==
    /\ \E u \in Updates : Receive(q, "limits", "findLimits", [bulk |-> FALSE, todo |-> <<u>>])
    /\ UNCHANGED limitVars

BulkUpdateConfigs(q) ==
    /\ \E u \in Updates, v \in Updates :
          Receive(q, "limits", "findLimits", [bulk |-> TRUE, todo |-> <<u, v>>])
    /\ UNCHANGED limitVars

DeleteConfig(q) ==
    /\ \E i \in LimitIds : Receive(q, "limits", "findLimits", [bulk |-> FALSE,
          todo |-> <<[id |-> i, body |-> [isActive |-> FALSE]]>>])
    /\ UNCHANGED limitVars

NextUpdate(q) ==
    LET left == Tail(mem[q].todo) IN
    IF left = <<>> THEN Answer(q)
    ELSE Goto(q, "findLimits", [bulk |-> mem[q].bulk, todo |-> left])

FindConfig(q) ==
    LET u == Head(mem[q].todo) IN
    /\ At(q, "findLimits")
    /\ \/ u.id \notin Configured /\ NextUpdate(q)
       \/ /\ u.id \in Configured
          /\ Goto(q, "saveLimits", [bulk |-> mem[q].bulk, todo |-> mem[q].todo, id |-> u.id,
                row |-> Assigned(limits[u.id], u.body)])
    /\ UNCHANGED <<limits, asked, removed, made>>

\* The configurations made from defaults, less one that is activated or given a role.
MadeStill(i, row) ==
    IF (row.isActive /\ ~Serving(i)) \/ row.role # limits[i].role THEN made \ {i} ELSE made

SaveConfig(q) ==
    LET i == mem[q].id
        body == Head(mem[q].todo).body IN
    /\ At(q, "saveLimits")
    /\ Insert(i, mem[q].row)
    /\ removed' = CASE "isActive" \notin DOMAIN body -> removed
                     [] "isActive" \in DOMAIN body /\ body.isActive -> removed \ {i}
                     [] OTHER -> removed \cup {i}
    /\ made' = MadeStill(i, mem[q].row)
    /\ NextUpdate(q)

UpdateFails(q) ==
    /\ Failing
    /\ pc[q] \in {"findLimits", "saveLimits"}
    /\ mem[q].bulk
    /\ NextUpdate(q)
    /\ UNCHANGED <<limits, asked, removed, made>>

------------------------------------------------------------------------------
\* adjustLimits: for each endpoint with events in the last hour, a configuration is found.
\* The events come from before authentication and name no merchant, and a null is left out
\* of the condition: it is any configuration, active or not.  Every event is of a throttled
\* request, so the limits are lowered, by 5 % and to 10 requests per minute at least.
AdjustLimits(q) ==
    /\ \E endpoints \in 1 .. 2 : Receive(q, "limits", "findAny", [left |-> endpoints])
    /\ UNCHANGED limitVars

NextEndpoint(q) ==
    IF mem[q].left = 1 THEN Answer(q) ELSE Goto(q, "findAny", [left |-> mem[q].left - 1])

AtLeast(low, n) == IF n < low THEN low ELSE n
\* Variant for testing the properties: no minimum.
LoweredFreely(n) == (95 * n) \div 100
Lowered(n) == AtLeast(10, (95 * n) \div 100)

\* The other limits are multiplied by the same ratio, and rounded up.
InProportion(n, new, old) == AtLeast(1, (n * new + old - 1) \div old)

FindAnyConfig(q) ==
    /\ At(q, "findAny")
    /\ \/ Configured = {} /\ NextEndpoint(q)
       \/ \E i \in Configured :
             LET old == limits[i]
                 new == Lowered(old.minute) IN
             \/ new = old.minute /\ NextEndpoint(q)
             \/ /\ new # old.minute
                /\ Goto(q, "readLimits", [left |-> mem[q].left, id |-> i, row |->
                      IF old.minute = 0 THEN None ELSE
                      [old EXCEPT !.minute = new, !.second = InProportion(@, new, old.minute)]])
    /\ UNCHANGED <<limits, asked, removed, made>>

\* updateConfig reads the row again and assigns every column of the one read before.
ReadConfigAgain(q) ==
    /\ At(q, "readLimits")
    /\ Goto(q, "saveAdjusted", mem[q])
    /\ UNCHANGED <<limits, asked, removed, made>>

\* Beside no requests per minute the others become infinite, which the columns refuse:
\* the job ends.
SaveAdjusted(q) ==
    LET i == mem[q].id
        row == mem[q].row IN
    /\ At(q, "saveAdjusted")
    /\ \/ row = None /\ Answer(q) /\ UNCHANGED <<limits, made>>
       \/ /\ row # None
          /\ limits' = [limits EXCEPT ![i] = row]
          /\ made' = MadeStill(i, row)
          /\ NextEndpoint(q)
    /\ UNCHANGED <<asked, removed>>

------------------------------------------------------------------------------
Fills(q) == IF pc'[q] \in FillSteps THEN {mem'[q].role} ELSE {}
Saves(q) == IF pc'[q] \in SaveSteps THEN {mem'[q].id} ELSE {}
LimitHistory ==
    /\ crowded' = crowded \cup InBoth(Fills)
    /\ shared' = shared \cup InBoth(Saves)

LimitCalls(q) ==
    \/ GetConfigForUser(q) \/ GetEffectiveLimits(q) \/ InitializeDefaultConfigs(q)
    \/ PutConfig(q) \/ BulkUpdateConfigs(q) \/ DeleteConfig(q) \/ AdjustLimits(q)

LimitAwaits(q) ==
    \/ FindRole(q) \/ FindMerchantType(q) \/ InsertDefault(q) \/ CreateConfig(q)
    \/ FindConfig(q) \/ SaveConfig(q) \/ UpdateFails(q)
    \/ FindAnyConfig(q) \/ ReadConfigAgain(q) \/ SaveAdjusted(q)

LimitNext == \E q \in Requests :
    \/ LimitCalls(q)
    \/ LimitAwaits(q) /\ LimitHistory

LimitInterrupted(q) ==
    /\ pc[q] \in LimitSteps
    /\ Interrupted(q)
    /\ UNCHANGED limitVars

------------------------------------------------------------------------------
\* Between what was last asked for and ten requests per minute.
WithinReach(i) ==
    \/ limits[i].minute \in 10 .. asked[i]
    \/ limits[i].minute \in asked[i] .. 10

\* A configuration that was deleted stays deleted, and the adaptation takes its limit to
\* no other side of what was asked for and no further than ten a minute, unless two were
\* about to save it at once, when the older copy, as of the job, brings back a deleted row
\* and takes back a change.  Defaults give a role a second configuration only if two
\* requests make them at once: what a request itself gives a role or activates, as any
\* column of its body is assigned, is not counted (rateLimitConfigService.ts lines 22 to
\* 83, 149 to 163, 201 to 212 and 247 to 298; adaptiveRateLimitService.ts lines 94 to 160).
LimitsAsConfigured ==
    /\ \A i \in Configured \ shared :
          /\ i \in removed => ~Serving(i)
          /\ WithinReach(i)
    /\ \A i, j \in made :
          i # j /\ Serving(i) /\ Serving(j) /\ limits[i].role = limits[j].role
             => limits[i].role \in crowded
==============================================================================
