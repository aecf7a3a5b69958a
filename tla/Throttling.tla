----------------------------- MODULE Throttling -----------------------------
(***************************************************************************)
(* The rate limiter in front of every route, the whitelist and blacklist   *)
(* it asks, and the bans it gives: src/src/middleware/rateLimiter.ts,      *)
(* src/src/services/whitelistBlacklistService.ts and                       *)
(* rateLimitMonitoring.service.ts.  It runs before authentication, so a    *)
(* request is known by its IP address only.                                *)
(***************************************************************************)
EXTENDS Handlers

CONSTANTS
    Hosts,       \* IP addresses
    BanAfter,    \* throttled requests within five minutes that lead to a ban
    MaxDay       \* bound: the last day

Lists == {"black", "white"}
Days == 0 .. MaxDay

VARIABLES
    entries,     \* tables rate_limit_blacklist and rate_limit_whitelist, by address
    strikes,     \* throttled rows of rate_limit_history within five minutes
    day,         \* the clock
    granted,     \* history: the entry as the last call that changed it answered it
    disputed     \* history: entries that two requests were about to save at once

throttleVars == <<entries, strikes, day, granted, disputed>>
throttleTables == <<entries, strikes, day, granted>>

Entry == [isActive: BOOLEAN, expiresAt: Days \cup {None, MaxDay + 1}]

ASSUME ThrottleAssumption ==
    /\ BanAfter \in Nat
    /\ MaxDay \in Nat
    /\ None \notin Nat \cup Entry

HoldSteps == {"saveEntry", "insertEntry", "expireEntry"}
ThrottleSteps == HoldSteps \cup
    {"isBlacklisted", "isWhitelisted", "countRequest", "logEvent", "countEvents", "findEntry"}

ThrottleTypeOK ==
    /\ entries \in [Lists -> [Hosts -> Entry \cup {None}]]
    /\ granted \in [Lists -> [Hosts -> Entry \cup {None}]]
    /\ strikes \in [Hosts -> 0 .. BanAfter + 1]
    /\ day \in Days

ThrottleInit ==
    /\ entries = [l \in Lists |-> [h \in Hosts |-> None]]
    /\ strikes \in {[h \in Hosts |-> 0], [h \in Hosts |-> BanAfter]}
    /\ day = 0
    /\ granted = entries
    /\ disputed = {}

ThrottleIdle ==
    /\ entries = [l \in Lists |-> [h \in Hosts |-> None]]
    /\ strikes = [h \in Hosts |-> 0]
    /\ day = 0
    /\ granted = entries
    /\ disputed = {}

Active(row) == IF row = None THEN FALSE ELSE row.isActive
Expired(row) == IF row.expiresAt = None THEN FALSE ELSE row.expiresAt < day
InForce(row) == Active(row) /\ ~Expired(row)
SetEntry(f, l, h, row) == [f EXCEPT ![l][h] = row]

------------------------------------------------------------------------------
\* intelligentRateLimiter: the limit of a request.  An entry of either list makes it 0.
\* What it refuses is logged by its handler, and again by the monitoring middleware.
Request(q) ==
    /\ \E h \in Hosts : Receive(q, "throttling", "isBlacklisted", [host |-> h, again |-> TRUE])

\* globalRateLimiter, which is asked before the other, logs nothing of its own.
RefusedByGlobal(q) ==
    /\ \E h \in Hosts : Receive(q, "throttling", "logEvent", [host |-> h, again |-> FALSE])

\* A lookup: to step "listed" if an entry is in force, to step "other" if not; one that
\* has expired is deactivated before, with the row that was read.
Lookup(q, l, listed, other) ==
    LET h == mem[q].host
        row == entries[l][h] IN
    \/ InForce(row) /\ Goto(q, listed, mem[q])
    \/ ~Active(row) /\ Goto(q, other, mem[q])
    \/ /\ Active(row) /\ Expired(row)
       /\ Goto(q, "expireEntry", [host |-> h, again |-> TRUE, list |-> l,
             row |-> [row EXCEPT !.isActive = FALSE], then |-> other])

\* Variant for testing the properties: an entry that may expire one day is deactivated
\* at once.
IsBlacklistedEagerly(q) ==
    LET h == mem[q].host
        row == entries["black"][h] IN
    /\ At(q, "isBlacklisted")
    /\ \/ /\ Active(row) /\ row.expiresAt # None
          /\ Goto(q, "expireEntry", [host |-> h, again |-> TRUE, list |-> "black",
                row |-> [row EXCEPT !.isActive = FALSE], then |-> "isWhitelisted"])
       \/ Lookup(q, "black", "logEvent", "isWhitelisted")

IsBlacklisted(q) ==
    /\ At(q, "isBlacklisted")
    /\ Lookup(q, "black", "logEvent", "isWhitelisted")

IsWhitelisted(q) ==
    /\ At(q, "isWhitelisted")
    /\ Lookup(q, "white", "logEvent", "countRequest")

ExpireEntry(q) ==
    /\ At(q, "expireEntry")
    /\ entries' = SetEntry(entries, mem[q].list, mem[q].host, mem[q].row)
    /\ Goto(q, mem[q].then, [host |-> mem[q].host, again |-> TRUE])
    /\ UNCHANGED <<strikes, day, granted>>

\* A lookup that throws finds nothing, and leaves the entry as it is.
LookupFails(q) ==
    /\ Failing
    /\ \/ At(q, "isBlacklisted") /\ Goto(q, "isWhitelisted", mem[q])
       \/ At(q, "isWhitelisted") /\ Goto(q, "countRequest", mem[q])
       \/ At(q, "expireEntry") /\ Goto(q, mem[q].then, [host |-> mem[q].host, again |-> TRUE])

\* The requests counted within the minute are within the limit, or not.
CountRequest(q) ==
    /\ At(q, "countRequest")
    /\ Answer(q) \/ Goto(q, "logEvent", mem[q])

\* createRateLimitMonitoringMiddleware logs a refusal when it is sent.
Finish(q) ==
    IF mem[q].again THEN Goto(q, "logEvent", [host |-> mem[q].host, again |-> FALSE]) ELSE Answer(q)

\* The handler logs the throttled request, and bans the address for a day if there were
\* too many.  The bound is on the counter: it only matters whether it is exceeded.
LogAdvancedRateLimitEvent(q) ==
    LET h == mem[q].host IN
    /\ At(q, "logEvent")
    /\ strikes' = [strikes EXCEPT ![h] = IF @ > BanAfter THEN @ ELSE @ + 1]
    /\ Goto(q, "countEvents", mem[q])
    /\ UNCHANGED <<entries, day, granted>>

CheckForAdvancedSuspiciousActivity(q) ==
    LET h == mem[q].host IN
    /\ At(q, "countEvents")
    /\ \/ strikes[h] > BanAfter /\ Goto(q, "findEntry",
             [host |-> h, again |-> mem[q].again, list |-> "black", until |-> day + 1])
       \/ strikes[h] <= BanAfter /\ Finish(q)

\* An error while the handler logs is caught, and the refusal sent all the same.
LogFails(q) ==
    /\ Failing
    /\ pc[q] \in {"logEvent", "countEvents", "findEntry", "insertEntry", "saveEntry"}
    /\ mem[q].again
    /\ Finish(q)

------------------------------------------------------------------------------
\* addToBlacklist and addToWhitelist.  An entry there is already is activated again, and
\* without a new date it keeps the one it had.
PostBlacklist(q) ==
    /\ \E h \in Hosts, until \in {None, day, day + 1} :
          Receive(q, "throttling", "findEntry",
              [host |-> h, again |-> FALSE, list |-> "black", until |-> until])

PostWhitelist(q) ==
    /\ \E h \in Hosts, until \in {None, day + 1} :
          Receive(q, "throttling", "findEntry",
              [host |-> h, again |-> FALSE, list |-> "white", until |-> until])

AddTo(q, l) ==
    LET h == mem[q].host
        old == entries[l][h]
        row == [isActive |-> TRUE, expiresAt |->
                  IF mem[q].until = None /\ old # None THEN old.expiresAt ELSE mem[q].until] IN
    /\ At(q, "findEntry")
    /\ mem[q].list = l
    /\ Goto(q, IF old = None THEN "insertEntry" ELSE "saveEntry",
          [host |-> h, again |-> mem[q].again, list |-> l, row |-> row])

AddToBlacklist(q) == AddTo(q, "black")
AddToWhitelist(q) == AddTo(q, "white")

\* The unique index on the value refuses a second row.
InsertEntry(q) ==
    LET l == mem[q].list
        h == mem[q].host
        new == entries[l][h] = None IN
    /\ At(q, "insertEntry")
    /\ entries' = IF new THEN SetEntry(entries, l, h, mem[q].row) ELSE entries
    /\ granted' = IF new THEN SetEntry(granted, l, h, mem[q].row) ELSE granted
    /\ Finish(q)
    /\ UNCHANGED <<strikes, day>>

SaveEntry(q) ==
    LET l == mem[q].list
        h == mem[q].host IN
    /\ At(q, "saveEntry")
    /\ entries' = SetEntry(entries, l, h, mem[q].row)
    /\ granted' = SetEntry(granted, l, h, mem[q].row)
    /\ Finish(q)
    /\ UNCHANGED <<strikes, day>>

RemoveFrom(q, l) ==
    \E h \in Hosts :
       /\ entries[l][h] # None
       /\ Receive(q, "throttling", "saveEntry", [host |-> h, again |-> FALSE, list |-> l,
             row |-> [entries[l][h] EXCEPT !.isActive = FALSE]])

RemoveFromBlacklist(q) == RemoveFrom(q, "black")
RemoveFromWhitelist(q) == RemoveFrom(q, "white")

------------------------------------------------------------------------------
\* A day passes, or five minutes do.
DayPasses ==
    /\ day < MaxDay
    /\ day' = day + 1
    /\ strikes' = [h \in Hosts |-> 0]
    /\ UNCHANGED <<handlerVars, entries, granted>>

StrikesFade ==
    /\ \E h \in Hosts : strikes[h] > 0 /\ strikes' = [strikes EXCEPT ![h] = 0]
    /\ UNCHANGED <<handlerVars, entries, day, granted>>

Holds(q) == IF pc'[q] \in HoldSteps THEN {<<mem'[q].list, mem'[q].host>>} ELSE {}
ThrottleHistory ==
    disputed' = disputed \cup {x \in Lists \X Hosts :
                   \E q, r \in Requests : q # r /\ x \in Holds(q) \cap Holds(r)}

ThrottleReads(q) ==
    /\ \/ Request(q) \/ RefusedByGlobal(q) \/ IsBlacklisted(q) \/ IsWhitelisted(q) \/ LookupFails(q) \/ CountRequest(q)
       \/ CheckForAdvancedSuspiciousActivity(q)
       \/ PostBlacklist(q) \/ PostWhitelist(q) \/ AddToBlacklist(q) \/ AddToWhitelist(q)
       \/ RemoveFromBlacklist(q) \/ RemoveFromWhitelist(q) \/ LogFails(q)
    /\ UNCHANGED throttleTables

ThrottleNext ==
    /\ \/ \E q \in Requests :
             \/ ThrottleReads(q) \/ ExpireEntry(q) \/ LogAdvancedRateLimitEvent(q)
             \/ InsertEntry(q) \/ SaveEntry(q)
       \/ calls.throttling > 0 /\ (DayPasses \/ StrikesFade)
    /\ ThrottleHistory

ThrottleInterrupted(q) ==
    /\ pc[q] \in ThrottleSteps
    /\ Interrupted(q)
    /\ UNCHANGED throttleVars

------------------------------------------------------------------------------
\* What the lists say of an address is what the last call that changed its entry was
\* answered: a ban or a pass ends by its date or by its removal.  Deactivating an entry
\* that has expired, at whichever request comes next, never ends one that was renewed,
\* unless the two were about to save the entry at once (whitelistBlacklistService.ts
\* lines 33 to 200, rateLimitMonitoring.service.ts lines 216 to 227).
ListsAreAsGranted ==
    \A l \in Lists, h \in Hosts : <<l, h>> \notin disputed =>
       /\ InForce(entries[l][h]) <=> InForce(granted[l][h])
       /\ entries[l][h] # None => entries[l][h].expiresAt = granted[l][h].expiresAt
==============================================================================
