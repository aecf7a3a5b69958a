---------------------------- MODULE FeatureFlags ----------------------------
(***************************************************************************)
(* Feature flags and the audit log their changes are written to:           *)
(* src/src/services/ConfigurationService.ts lines 348 to 510, the          *)
(* middlewares that gate a route by a flag, and                            *)
(* src/src/services/AuditService.ts.                                       *)
(***************************************************************************)
EXTENDS Handlers

CONSTANTS
    Flags,
    Audience,      \* users, "anonymous" among them
    Rules,         \* targeting rules: [users, percentage], None where not given
    InRollout(_, _)  \* whether the hash of a user is below a percentage

VARIABLES
    flags,      \* table feature_flags of the environment, by name
    auditLog,   \* table audit_logs, the rows about flags
    gated,      \* history: the rules by which featureFlagMiddleware let a user through
    writes,     \* history: how many flags were saved, which names a version
    unlogged    \* history: flags saved by overlapping requests, or not logged

flagVars == <<flags, auditLog, gated, writes, unlogged>>
flagTables == <<flags, auditLog, gated, writes>>

Flag == [ver: Nat, enabled: BOOLEAN, window: {"early", "open", "over"}, rules: Rules]
Entry == [flag: Flags, action: {"CREATE", "UPDATE"}, old: Nat, new: Nat]

\* Null is no version, percentage or row, and the hash is no negative number.
ASSUME FlagAssumption ==
    /\ None \notin Flag \cup Nat
    /\ \A u \in Audience : ~InRollout(u, 0)

FlagTypeOK ==
    /\ \A f \in Flags : flags[f] = None \/ flags[f] \in Flag
    /\ \A i \in DOMAIN auditLog : auditLog[i] \in Entry
FlagSteps == {"saveFlag", "logFlag"}

FlagInit ==
    /\ flags = [f \in Flags |-> None]
    /\ auditLog = <<>>
    /\ gated = {}
    /\ writes = 0
    /\ unlogged = {}

------------------------------------------------------------------------------
\* evaluateTargetingRules for a caller with a context, which the middleware gives.
\* The percentage is looked at here too, so that 0 excludes everybody.
TargetingMatches(rules, u) ==
    /\ rules.users # None => u \in rules.users
    /\ rules.percentage # None => InRollout(u, rules.percentage)

\* evaluateFeatureFlag: the schedule, the rules, the percentage unless it is 0,
\* then the flag.
Enabled(f, u) ==
    /\ flags[f] # None
    /\ flags[f].window = "open"
    /\ TargetingMatches(flags[f].rules, u)
    /\ flags[f].rules.percentage \notin {None, 0} => InRollout(u, flags[f].rules.percentage)
    /\ flags[f].enabled

\* featureFlagMiddleware lets the request of u through, on the row as it is now.
FeatureFlagGate(q) ==
    /\ \E f \in Flags, u \in Audience :
          /\ Enabled(f, u)
          /\ gated' = gated \cup {[user |-> u, rules |-> flags[f].rules]}
    /\ Serve(q, "flags")
    /\ UNCHANGED <<flags, auditLog, writes>>

\* setFeatureFlag: the row is found and changed in memory, saved, and then logged.
SetFeatureFlag(q) ==
    /\ \E f \in Flags, e \in BOOLEAN, w \in {"early", "open", "over"}, r \in Rules :
          Receive(q, "flags", "saveFlag", [flag |-> f, found |-> flags[f],
                  row |-> [ver |-> 0, enabled |-> e, window |-> w, rules |-> r]])
    /\ UNCHANGED flagTables

\* A second insertion of a name is refused by the unique index.
SaveFlag(q) ==
    LET f == mem[q].flag IN
    /\ At(q, "saveFlag")
    /\ \/ /\ mem[q].found # None \/ flags[f] = None
          /\ writes' = writes + 1
          /\ flags' = [flags EXCEPT ![f] = [mem[q].row EXCEPT !.ver = writes + 1]]
          /\ Goto(q, "logFlag", [mem[q] EXCEPT !.row.ver = writes + 1])
       \/ /\ mem[q].found = None /\ flags[f] # None
          /\ Answer(q)
          /\ UNCHANGED <<flags, writes>>
    /\ UNCHANGED <<auditLog, gated>>

\* Variant for testing the properties: the old row is not copied before it is changed.
EntryOfAlias(f, found, row) ==
    [flag |-> f, action |-> IF found = None THEN "CREATE" ELSE "UPDATE",
     old |-> row.ver, new |-> row.ver]

\* createAuditLog of the values found and of those saved.
EntryOf(f, found, row) ==
    [flag |-> f, action |-> IF found = None THEN "CREATE" ELSE "UPDATE",
     old |-> IF found = None THEN 0 ELSE found.ver, new |-> row.ver]

CreateAuditLog(q) ==
    /\ At(q, "logFlag")
    /\ auditLog' = Append(auditLog, EntryOf(mem[q].flag, mem[q].found, mem[q].row))
    /\ Answer(q)
    /\ UNCHANGED <<flags, gated, writes>>

\* Requests that are changing one flag at once.
Changing(q) == IF pc'[q] \in FlagSteps THEN {mem'[q].flag} ELSE {}
FlagHistory == unlogged' = unlogged \cup InBoth(Changing)

FlagNext == \E q \in Requests :
    /\ FeatureFlagGate(q) \/ SetFeatureFlag(q) \/ SaveFlag(q) \/ CreateAuditLog(q)
    /\ FlagHistory

FlagInterrupted(q) ==
    /\ pc[q] \in FlagSteps
    /\ Interrupted(q)
    /\ unlogged' = IF At(q, "logFlag") THEN unlogged \cup {mem[q].flag} ELSE unlogged
    /\ UNCHANGED flagTables

------------------------------------------------------------------------------
EntriesOf(f) == {i \in DOMAIN auditLog : auditLog[i].flag = f}

\* An entry replays those before it: a creation if there is none.
Replays(i, earlier) ==
    IF earlier = {} THEN auditLog[i].action = "CREATE"
    ELSE auditLog[i].action = "UPDATE" /\ auditLog[i].old = auditLog[Latest(earlier)].new

\* What the log tells of a flag can be replayed: it begins with the creation, each
\* entry starts from the version the one before ended with, and the last is the
\* version in force, unless a change is in progress, was cut off before its entry
\* or overlapped another (ConfigurationService.ts lines 433 to 510).  A rollout of
\* 0 percent, which line 404 takes for none, lets nobody through.
LogReplaysFlag ==
    /\ \A f \in Flags \ unlogged : LET es == EntriesOf(f) IN
          /\ \A i \in es : Replays(i, {j \in es : j < i})
          /\ (\A q \in Requests : pc[q] \in FlagSteps => mem[q].flag # f) =>
                IF es = {} THEN flags[f] = None
                ELSE flags[f] # None /\ auditLog[Latest(es)].new = flags[f].ver
    /\ \A g \in gated : g.rules.percentage # 0
==============================================================================
