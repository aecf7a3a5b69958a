------------------------- MODULE ConfigurationCache -------------------------
(***************************************************************************)
(* The configuration table and the cache each server process keeps of it:  *)
(* src/src/services/ConfigurationService.ts, as the handlers of            *)
(* src/src/controllers/ConfigurationController.ts call it.                 *)
(*                                                                         *)
(* A read that misses the cache queries the table and then fills the       *)
(* cache; a write saves the row and then clears its entry; a reload clears *)
(* the cache, queries all rows and fills it.  Other requests run between   *)
(* these steps.  A value is named by the setConfig call that wrote it.     *)
(***************************************************************************)
EXTENDS Naturals, FiniteSets

CONSTANTS
    Servers,    \* server processes, each with a cache
    Keys,
    Requests,   \* requests in progress at once
    Options,    \* options.isEncrypted of the writes: TRUE, FALSE or undefined
    Faults,     \* which of "db", "crash" the environment does
    MaxWrites   \* bound: calls of setConfig

Encryption == {"yes", "no", "undefined"}

ASSUME ConfigAssumption ==
    /\ Options \subseteq Encryption
    /\ Faults \subseteq {"db", "crash"}
    /\ MaxWrites \in Nat

VARIABLES
    row,      \* table configurations, by key
    cache,    \* each server's Map
    up,       \* servers whose initialize() succeeded
    pc,       \* where each request is; steps are named for what comes next
    mem,      \* what a request holds
    writes,   \* setConfig calls so far
    stale,    \* history: entries a server may have kept although a write went by
    mixed     \* history: rows whose flag and value come from different writes

vars == <<row, cache, up, pc, mem, writes, stale, mixed>>

\* cipher: the stored value is encrypted; enc: the column isEncrypted says so.
Row == [id: 1 .. MaxWrites, ver: 1 .. MaxWrites, cipher: BOOLEAN, enc: BOOLEAN]
NoRow == [id |-> 0]
Table == UNION {[K -> Row] : K \in SUBSET Keys}

\* decryptValue throws on a value that is not encrypted.
Readable(r) == r.enc => r.cipher

\* The request at server s, and what it holds: the row or rows it read, the entity
\* it saves; late is history, the keys written since it read them.
Idle == [server |-> "none"]
Goto(q, step) == pc' = [pc EXCEPT ![q] = step]
Finish(q) == Goto(q, "idle") /\ mem' = [mem EXCEPT ![q] = Idle]
At(q, step) == pc[q] = step
On(q, s) == pc[q] # "idle" /\ mem[q].server = s

Without(f, k) == [x \in DOMAIN f \ {k} |-> f[x]]
With(f, k, v) == [x \in DOMAIN f \cup {k} |-> IF x = k THEN v ELSE f[x]]

------------------------------------------------------------------------------
Init ==
    /\ row = [k \in {} |-> NoRow]
    /\ cache = [s \in Servers |-> [k \in {} |-> NoRow]]
    /\ up = [s \in Servers |-> FALSE]
    /\ pc = [q \in Requests |-> "idle"]
    /\ mem = [q \in Requests |-> Idle]
    /\ writes = 0
    /\ stale = [s \in Servers |-> {}]
    /\ mixed = {}

------------------------------------------------------------------------------
\* getConfig, when the key is not in the cache: findOne.  A row that cannot be
\* decrypted makes it throw; no row gives the default.
GetConfig(q) ==
    /\ At(q, "idle")
    /\ \E s \in Servers, k \in DOMAIN row :
          /\ up[s]
          /\ k \notin DOMAIN cache[s]
          /\ Readable(row[k])
          /\ mem' = [mem EXCEPT ![q] =
                [server |-> s, key |-> k, rows |-> With([x \in {} |-> NoRow], k, row[k]),
                 late |-> {}]]
    /\ Goto(q, "fill")
    /\ UNCHANGED <<row, cache, up, writes, stale, mixed>>

\* getConfig: cache.set.
FillCache(q) ==
    /\ At(q, "fill")
    /\ LET s == mem[q].server
           k == mem[q].key
       IN  /\ cache' = [cache EXCEPT ![s] = With(@, k, mem[q].rows[k])]
           /\ stale' = [stale EXCEPT ![s] = (@ \ {k}) \cup mem[q].late]
    /\ Finish(q)
    /\ UNCHANGED <<row, up, writes, mixed>>

------------------------------------------------------------------------------
\* setConfig: findOne, and the new or changed entity, not yet saved.  An option
\* that is undefined leaves the column of an old row as it was.
SetConfig(q) ==
    /\ At(q, "idle")
    /\ writes < MaxWrites
    /\ writes' = writes + 1
    /\ \E s \in Servers, k \in Keys, option \in Options :
          LET found == IF k \in DOMAIN row THEN row[k] ELSE NoRow
              ent   == [id |-> found.id, ver |-> writes + 1,
                        cipher |-> option = "yes",
                        enc |-> \/ option = "yes"
                                \/ option = "undefined" /\ found # NoRow /\ found.enc]
          IN  /\ up[s]
              /\ mem' = [mem EXCEPT ![q] = [server |-> s, key |-> k, entity |-> ent]]
    /\ Goto(q, "select")
    /\ UNCHANGED <<row, cache, up, stale, mixed>>

\* save() reads the row of the entity's id, to update what differs.
SaveSelect(q) ==
    /\ At(q, "select")
    /\ LET k    == mem[q].key
           seen == IF k \in DOMAIN row /\ row[k].id = mem[q].entity.id
                   THEN row[k] ELSE NoRow
       IN  mem' = [mem EXCEPT ![q] = [server |-> mem[q].server, key |-> k,
                                      entity |-> mem[q].entity, seen |-> seen]]
    /\ Goto(q, "write")
    /\ UNCHANGED <<row, cache, up, writes, stale, mixed>>

\* History: a write of k by request q passes by the copies that are read or cached.
PassesBy(q, k) ==
    /\ stale' = [s \in Servers |->
          IF s # mem[q].server /\ k \in DOMAIN cache[s] THEN stale[s] \cup {k} ELSE stale[s]]
    /\ mem' = [p \in Requests |->
          IF pc[p] \in {"fill", "load"} /\ k \in DOMAIN mem[p].rows
          THEN [mem[p] EXCEPT !.late = @ \cup {k}]
          ELSE mem[p]]

\* History: is the flag that the write of entity ent leaves that of its value?  Not
\* when the option was undefined for an encrypted row, nor when another write came
\* between the reading and the writing of the row.
Mixes(k, ent, overlapped) ==
    mixed' = IF overlapped \/ ~Readable(ent) THEN mixed \cup {k} ELSE mixed \ {k}

\* Variant for testing the properties: an UPDATE that leaves the flag.
UpdatedButFlag(r, ent, seen) == [r EXCEPT !.ver = ent.ver, !.cipher = ent.cipher]

\* The row that save() leaves: an INSERT generates the id, an UPDATE writes the columns
\* that differ from the row as it was read.
Inserted(ent) == [ent EXCEPT !.id = IF @ = 0 THEN ent.ver ELSE @]
Updated(r, ent, seen) ==
    [r EXCEPT !.ver = ent.ver, !.cipher = ent.cipher,
              !.enc = IF ent.enc = seen.enc THEN @ ELSE ent.enc]

\* save(): INSERT when there was no row; a row of that key by now is an error.
SaveInsert(q) ==
    /\ At(q, "write")
    /\ mem[q].seen = NoRow
    /\ LET k   == mem[q].key
           ent == mem[q].entity
       IN  IF k \in DOMAIN row
           THEN Finish(q) /\ UNCHANGED <<row, stale, mixed>>
           ELSE /\ row' = With(row, k, Inserted(ent))
                /\ Mixes(k, ent, FALSE)
                /\ PassesBy(q, k)
                /\ Goto(q, "clear")
    /\ UNCHANGED <<cache, up, writes>>

\* save(): UPDATE; when the row is gone by now nothing is updated.
SaveUpdate(q) ==
    /\ At(q, "write")
    /\ mem[q].seen # NoRow
    /\ LET k    == mem[q].key
           ent  == mem[q].entity
           seen == mem[q].seen
       IN  IF k \in DOMAIN row /\ row[k].id = seen.id
           THEN /\ row' = With(row, k, Updated(row[k], ent, seen))
                /\ Mixes(k, ent, row[k] # seen)
                /\ PassesBy(q, k)
           ELSE UNCHANGED <<row, mem, stale, mixed>>
    /\ Goto(q, "clear")
    /\ UNCHANGED <<cache, up, writes>>

\* Variant for testing the properties: the entry stays.
KeepEntry(q) ==
    /\ At(q, "clear")
    /\ Finish(q)
    /\ UNCHANGED <<row, cache, up, writes, stale, mixed>>

\* setConfig and deleteConfig: cache.delete; the audit log changes nothing else.
ClearEntry(q) ==
    /\ At(q, "clear")
    /\ LET s == mem[q].server
           k == mem[q].key
       IN  /\ cache' = [cache EXCEPT ![s] = Without(@, k)]
           /\ stale' = [stale EXCEPT ![s] = @ \ {k}]
    /\ Finish(q)
    /\ UNCHANGED <<row, up, writes, mixed>>

------------------------------------------------------------------------------
\* deleteConfig: findOne; an unknown key is an error.
DeleteConfig(q) ==
    /\ At(q, "idle")
    /\ \E s \in Servers, k \in DOMAIN row :
          /\ up[s]
          /\ mem' = [mem EXCEPT ![q] = [server |-> s, key |-> k, entity |-> row[k]]]
    /\ Goto(q, "remove")
    /\ UNCHANGED <<row, cache, up, writes, stale, mixed>>

\* deleteConfig: remove() deletes by id.
RemoveRow(q) ==
    /\ At(q, "remove")
    /\ LET k == mem[q].key
       IN  IF k \in DOMAIN row /\ row[k].id = mem[q].entity.id
           THEN row' = Without(row, k) /\ PassesBy(q, k)
           ELSE UNCHANGED <<row, mem, stale>>
    /\ Goto(q, "clear")
    /\ UNCHANGED <<cache, up, writes, mixed>>

------------------------------------------------------------------------------
\* reloadConfigurations: clearCache; or initialize, by a process that starts.
Reload(q) ==
    /\ At(q, "idle")
    /\ \E s \in Servers :
          /\ up[s] \/ \A p \in Requests : ~On(p, s)
          /\ cache' = [cache EXCEPT ![s] = [k \in {} |-> NoRow]]
          /\ stale' = [stale EXCEPT ![s] = {}]
          /\ mem' = [mem EXCEPT ![q] = [server |-> s]]
    /\ Goto(q, "find")
    /\ UNCHANGED <<row, up, writes, mixed>>

\* loadConfigurations: find.
FindAll(q) ==
    /\ At(q, "find")
    /\ mem' = [mem EXCEPT ![q] = [server |-> mem[q].server, rows |-> row, late |-> {}]]
    /\ Goto(q, "load")
    /\ UNCHANGED <<row, cache, up, writes, stale, mixed>>

\* loadConfigurations: clear and fill.  A row that cannot be decrypted throws: the
\* rows before it stay in the cache, and a process that starts exits.
Load(q) ==
    /\ At(q, "load")
    /\ LET s    == mem[q].server
           rows == mem[q].rows
           good == {k \in DOMAIN rows : Readable(rows[k])}
           done == good = DOMAIN rows
       IN  \E loaded \in IF done THEN {good} ELSE IF up[s] THEN SUBSET good ELSE {{}} :
              /\ cache' = [cache EXCEPT ![s] = [k \in loaded |-> rows[k]]]
              /\ stale' = [stale EXCEPT ![s] = mem[q].late \cap loaded]
              /\ up' = [up EXCEPT ![s] = @ \/ done]
    /\ Finish(q)
    /\ UNCHANGED <<row, writes, mixed>>

------------------------------------------------------------------------------
\* A database call throws.  After a write it is the answer that was lost: the row
\* is written and its entry not cleared.
RequestFails(q) ==
    /\ "db" \in Faults
    /\ pc[q] \notin {"idle", "fill", "load"}
    /\ stale' = IF At(q, "clear")
                THEN [stale EXCEPT ![mem[q].server] = @ \cup {mem[q].key}]
                ELSE stale
    /\ Finish(q)
    /\ UNCHANGED <<row, cache, up, writes, mixed>>

\* A server process exits with its cache and its requests.
Crash ==
    /\ "crash" \in Faults
    /\ \E s \in Servers :
          /\ up' = [up EXCEPT ![s] = FALSE]
          /\ cache' = [cache EXCEPT ![s] = [k \in {} |-> NoRow]]
          /\ stale' = [stale EXCEPT ![s] = {}]
          /\ pc' = [q \in Requests |-> IF On(q, s) THEN "idle" ELSE pc[q]]
          /\ mem' = [q \in Requests |-> IF On(q, s) THEN Idle ELSE mem[q]]
    /\ UNCHANGED <<row, writes, mixed>>

Step(q) ==
    \/ GetConfig(q) \/ FillCache(q)
    \/ SetConfig(q) \/ SaveSelect(q) \/ SaveInsert(q) \/ SaveUpdate(q)
    \/ DeleteConfig(q) \/ RemoveRow(q) \/ ClearEntry(q)
    \/ Reload(q) \/ FindAll(q) \/ Load(q)
    \/ RequestFails(q)

Next == (\E q \in Requests : Step(q)) \/ Crash

Spec == Init /\ [][Next]_vars
------------------------------------------------------------------------------
(***************************************************************************)
(* Properties.                                                             *)
(***************************************************************************)
Steps == {"fill", "select", "write", "clear", "remove", "find", "load"}

TypeOK ==
    /\ row \in Table
    /\ cache \in [Servers -> Table]
    /\ up \in [Servers -> BOOLEAN]
    /\ pc \in [Requests -> Steps \cup {"idle"}]
    /\ writes \in 0 .. MaxWrites
    /\ stale \in [Servers -> SUBSET Keys]
    /\ mixed \subseteq Keys
    /\ \A q \in Requests :
          /\ pc[q] # "idle" => mem[q].server \in Servers
          /\ pc[q] \in {"fill", "load"} =>
                mem[q].rows \in Table /\ mem[q].late \subseteq DOMAIN mem[q].rows
          /\ pc[q] \notin {"idle", "find", "load"} => mem[q].key \in Keys
    /\ \A k \in DOMAIN row : row[k].id <= row[k].ver

\* The cache tells the table's value, once the write in progress has cleared its
\* entry, unless the value was read before a write and cached after it, or was
\* written by another process, or the answer of the write was lost.
CacheFollowsTable ==
    \A s \in Servers : \A k \in DOMAIN cache[s] :
        \/ k \in DOMAIN row /\ cache[s][k] = row[k]
        \/ k \in stale[s]
        \/ \E q \in Requests : At(q, "clear") /\ On(q, s) /\ mem[q].key = k

\* The column isEncrypted of a stored value tells whether it is encrypted, so that
\* getConfig neither throws nor serves the cipher text, unless the last write of the
\* row left the option out of an encrypted one or overlapped another.
FlagTellsCipher ==
    \A k \in DOMAIN row : row[k].enc = row[k].cipher \/ k \in mixed
==============================================================================
