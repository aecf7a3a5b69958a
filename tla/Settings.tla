------------------------------ MODULE Settings ------------------------------
(***************************************************************************)
(* Configurations as administrators move them: writes and deletions, the   *)
(* export and the import of a file (ConfigurationController.ts), the       *)
(* script that writes the defaults (scripts/initializeConfigurations.ts),  *)
(* and what ConfigurationService.initialize demands of the rows at a       *)
(* start.  The caches of several servers are in ConfigurationCache.        *)
(***************************************************************************)
EXTENDS Handlers, SequencesExt

CONSTANTS
    Keys,       \* of configurations, in the order of an export
    Texts,      \* values of configurations; one may be Blank
    Puts,       \* what administrators ask for: some entries
    Parts,      \* pairs of values of which the second is a part of the first
    Stages,     \* the environments the script goes through, in order
    Defaults,   \* its entries, with a value for each environment
    Tables      \* rows there may be at the beginning

VARIABLES
    configured,  \* table configurations of the current environment
    filled,      \* keys in the server's cache
    ids,         \* ids given to rows
    files,       \* exported files
    disturbed,   \* history: keys another request wrote during this one, or that failed in it
    outcomes     \* history: what requests left, of keys not disturbed

settingVars == <<configured, filled, ids, files, disturbed, outcomes>>
settingTables == <<configured, filled, ids, files>>

Mask == "[ENCRYPTED]"
Blank == ""  \* nothing, or nothing but spaces
NoList == [values |-> {}, text |-> FALSE]

KeySet == {Keys[i] : i \in 1..Len(Keys)}

\* allowed: the values a list allows, NoList if there is none; text: the column holds the
\* JSON of the list's JSON, which an import makes of the text an export gives.
Lists == [values: SUBSET Texts, text: BOOLEAN]
SettingRow(n) == [id: 1 .. n, value: Texts \cup {Mask}, encrypted: BOOLEAN, required: BOOLEAN,
                  allowed: Lists]

\* The script has an entry for a key at most, and its values are among those it allows.
ASSUME SettingAssumption ==
    /\ Keys \in Seq(KeySet)
    /\ Puts \subseteq [key: KeySet, value: Texts, encrypted: BOOLEAN, required: BOOLEAN, allowed: Lists]
    /\ Tables \subseteq [KeySet -> SettingRow(Cardinality(KeySet)) \cup {None}]
    /\ None \notin [id: Nat, value: Texts \cup {Mask}, encrypted: BOOLEAN, required: BOOLEAN, allowed: Lists]
    /\ Len(Stages) \in Nat \ {0} /\ Len(Defaults) \in Nat \ {0}
    /\ \A i \in 1 .. Len(Defaults) : LET d == Defaults[i] IN
          /\ d.key \in KeySet /\ d.encrypted \in BOOLEAN /\ d.required \in BOOLEAN /\ d.allowed \in Lists
          /\ \A n \in 1 .. Len(Stages) :
                /\ d.values[Stages[n]] \in Texts
                /\ d.required /\ d.allowed # NoList =>
                      ~d.encrypted /\ d.values[Stages[n]] \in d.allowed.values
          /\ \A j \in 1 .. Len(Defaults) : Defaults[j].key = d.key => i = j

SavingSteps == {"saveSetting", "removeSetting"}
SettingSteps == SavingSteps \cup {"checkStart", "getSetting", "fillSetting", "findSetting", "logSetting",
                                  "findToRemoveSetting", "logRemovalOfSetting"}

SettingTypeOK ==
    /\ configured \in [KeySet -> SettingRow(ids) \cup {None}]
    /\ filled \subseteq KeySet
    /\ \A f \in files : Len(f) <= Len(Keys)
    /\ disturbed \in [Requests -> SUBSET KeySet]
    /\ \A o \in outcomes : o.kind \in {"put", "import", "script", "remove"}

SettingInit ==
    /\ configured \in Tables
    /\ filled = {}
    /\ ids = Cardinality(KeySet)
    /\ files = {}
    /\ disturbed = [q \in Requests |-> {}]
    /\ outcomes = {}

SettingIdle ==
    /\ configured = [k \in KeySet |-> None]
    /\ filled = {}
    /\ ids = 0
    /\ files = {}
    /\ disturbed = [q \in Requests |-> {}]
    /\ outcomes = {}

------------------------------------------------------------------------------
\* validateRequiredConfigurations of one row.  A required value is there and is one that the
\* list allows, if there is a list.  A list in the JSON of its JSON is a text, and includes()
\* looks for a part of it; an encrypted value is taken as it is stored, which is never blank.
Vacant(row) == row.required /\ ~row.encrypted /\ row.value = Blank

Starts(row) ==
    row # None /\ row.required =>
        /\ ~Vacant(row)
        /\ row.allowed # NoList =>
              /\ ~row.encrypted
              /\ \/ row.value \in row.allowed.values
                 \/ row.allowed.text /\ \E v \in row.allowed.values : <<v, row.value>> \in Parts

\* A request is a list of calls of setConfig, or the removal of a key.
Task(kind, overwrite, entries) ==
    [kind |-> kind, overwrite |-> overwrite, todo |-> entries, asked |-> ToSet(entries),
     before |-> configured, found |-> None]

PutSetting(q) ==
    /\ \E e \in Puts : Receive(q, "settings", "findSetting", Task("put", TRUE, <<e>>))
    /\ UNCHANGED settingTables

\* getConfig, as the rest of the server calls it.
ReadSetting(q) ==
    /\ \E k \in KeySet : Receive(q, "settings", "getSetting", Task("get", FALSE, <<[key |-> k]>>))
    /\ UNCHANGED settingTables

PostImport(q) ==
    /\ \E f \in files, overwrite \in BOOLEAN :
          Receive(q, "settings", "getSetting", Task("import", overwrite, f))
    /\ UNCHANGED settingTables

\* All the rows are those of the current environment, whichever the loop is at.
DefaultEntries(stage) ==
    [i \in 1..Len(Defaults) |->
        [key |-> Defaults[i].key, value |-> Defaults[i].values[stage], encrypted |-> Defaults[i].encrypted,
         required |-> Defaults[i].required, allowed |-> Defaults[i].allowed]]

RunScript(q) ==
    /\ Receive(q, "settings", "checkStart", Task("script", TRUE,
          FlattenSeq([n \in 1..Len(Stages) |-> DefaultEntries(Stages[n])])))
    /\ UNCHANGED settingTables

\* The script initializes the service first, like the server, and gives up if that throws.
CheckStart(q) ==
    /\ At(q, "checkStart")
    /\ \/ (\A k \in KeySet : Starts(configured[k])) /\ Goto(q, "findSetting", mem[q])
       \/ (\E k \in KeySet : ~Starts(configured[k])) /\ Answer(q)
    /\ UNCHANGED settingTables

\* The next call of the request, if any.
Proceed(q) ==
    IF Len(mem[q].todo) = 1 THEN Answer(q)
    ELSE Goto(q, IF mem[q].kind = "import" THEN "getSetting" ELSE "findSetting",
              [mem[q] EXCEPT !.todo = Tail(@), !.found = None])

\* Variant for testing the properties: an import takes a cached value for a missing one.
ExistingUnlessCached(q) ==
    IF mem[q].kind = "import" /\ Head(mem[q].todo).key \in filled THEN Goto(q, "findSetting", mem[q])
    ELSE IF mem[q].overwrite THEN Goto(q, "findSetting", mem[q]) ELSE Proceed(q)

\* An existing configuration is skipped unless the import overwrites.
Existing(q) == IF mem[q].overwrite THEN Goto(q, "findSetting", mem[q]) ELSE Proceed(q)

GetSetting(q) ==
    LET k == Head(mem[q].todo).key IN
    /\ At(q, "getSetting")
    /\ \/ k \in filled /\ Existing(q)
       \/ k \notin filled /\ configured[k] # None /\ Goto(q, "fillSetting", mem[q])
       \/ k \notin filled /\ configured[k] = None /\ mem[q].kind = "import" /\ Goto(q, "findSetting", mem[q])
       \/ k \notin filled /\ configured[k] = None /\ mem[q].kind = "get" /\ Answer(q)
    /\ UNCHANGED settingTables

\* The row may be gone by now: its value is cached all the same.
FillSetting(q) ==
    /\ At(q, "fillSetting")
    /\ filled' = filled \cup {Head(mem[q].todo).key}
    /\ Existing(q)
    /\ UNCHANGED <<configured, ids, files>>

------------------------------------------------------------------------------
\* The row setConfig will save; a list that is not given leaves the row's.
Merged(found, e) ==
    [id |-> IF found = None THEN 0 ELSE found.id, value |-> e.value, encrypted |-> e.encrypted,
     required |-> e.required,
     allowed |-> IF e.allowed = NoList /\ found # None THEN found.allowed ELSE e.allowed]

FindSetting(q) ==
    LET e == Head(mem[q].todo) IN
    /\ At(q, "findSetting")
    /\ Goto(q, "saveSetting", [mem[q] EXCEPT !.found = Merged(configured[e.key], e)])
    /\ UNCHANGED settingTables

\* save() of a row deleted meanwhile inserts it again; a second row of a key is refused.
RowFits(k, row) == configured[k] # None => row.id = configured[k].id

PutRow(k, row) ==
    /\ RowFits(k, row)
    /\ configured' = [configured EXCEPT ![k] = [row EXCEPT !.id = IF @ = 0 THEN ids + 1 ELSE @]]
    /\ ids' = IF row.id = 0 THEN ids + 1 ELSE ids

\* The script is a process of its own and clears its own cache, not the server's.
SaveSetting(q) ==
    LET k == Head(mem[q].todo).key IN
    /\ At(q, "saveSetting")
    /\ PutRow(k, mem[q].found)
    /\ filled' = IF mem[q].kind = "script" THEN filled ELSE filled \ {k}
    /\ Goto(q, "logSetting", mem[q])
    /\ UNCHANGED files

\* createAuditLog.
LogSetting(q) ==
    /\ At(q, "logSetting")
    /\ Proceed(q)
    /\ UNCHANGED settingTables

\* A call that throws ends the request; an import counts an error and goes on.
Throws(q) == IF mem[q].kind = "import" THEN Proceed(q) ELSE Answer(q)

RefuseSetting(q) ==
    /\ At(q, "saveSetting")
    /\ ~RowFits(Head(mem[q].todo).key, mem[q].found)
    /\ Throws(q)
    /\ UNCHANGED settingTables

\* An error of the database, maybe after the row was written.
EntryFails(q) ==
    /\ Failing
    /\ pc[q] \in {"getSetting", "findSetting", "saveSetting", "logSetting"}
    /\ mem[q].kind = "import"
    /\ Proceed(q)
    /\ \/ UNCHANGED settingTables
       \/ At(q, "saveSetting") /\ PutRow(Head(mem[q].todo).key, mem[q].found) /\ UNCHANGED <<filled, files>>

------------------------------------------------------------------------------
DeleteSetting(q) ==
    /\ \E k \in KeySet : Receive(q, "settings", "findToRemoveSetting", Task("remove", TRUE, <<[key |-> k]>>))
    /\ UNCHANGED settingTables

FindToRemoveSetting(q) ==
    LET row == configured[Head(mem[q].todo).key] IN
    /\ At(q, "findToRemoveSetting")
    /\ \/ row # None /\ Goto(q, "removeSetting", [mem[q] EXCEPT !.found = row])
       \/ row = None /\ Answer(q)
    /\ UNCHANGED settingTables

\* remove() deletes the row of that id, not one created since.
WithoutRow(k, row) ==
    IF configured[k] # None /\ configured[k].id = row.id THEN [configured EXCEPT ![k] = None] ELSE configured

RemoveSetting(q) ==
    LET k == Head(mem[q].todo).key IN
    /\ At(q, "removeSetting")
    /\ configured' = WithoutRow(k, mem[q].found)
    /\ filled' = filled \ {k}
    /\ Goto(q, "logRemovalOfSetting", mem[q])
    /\ UNCHANGED <<ids, files>>

LogRemovalOfSetting(q) ==
    /\ At(q, "logRemovalOfSetting")
    /\ Answer(q)
    /\ UNCHANGED settingTables

\* An entry of an export: encrypted values are masked.  `row` is history: the row as it was.
Exported(k) ==
    LET row == configured[k] IN
    [key |-> k, value |-> IF row.encrypted THEN Mask ELSE row.value, encrypted |-> row.encrypted,
     required |-> row.required, row |-> row,
     allowed |-> IF row.allowed = NoList THEN NoList ELSE [row.allowed EXCEPT !.text = TRUE]]

\* One query, of the rows in their order.
ExportedEntries ==
    LET entries[i \in 0 .. Len(Keys)] ==
          IF i = 0 THEN <<>>
          ELSE IF configured[Keys[i]] = None THEN entries[i - 1]
          ELSE Append(entries[i - 1], Exported(Keys[i]))
    IN entries[Len(Keys)]

ExportSettings(q) ==
    /\ Serve(q, "settings")
    /\ ExportedEntries # <<>>
    /\ files' = files \cup {ExportedEntries}
    /\ UNCHANGED <<configured, filled, ids>>

------------------------------------------------------------------------------
KeysOf(q) ==
    IF pc[q] \notin SettingSteps THEN {}
    ELSE IF mem[q].kind = "get" THEN {} ELSE {e.key : e \in mem[q].asked}

\* Requests in progress with keys in common disturb each other, however they end;
\* failed: the keys of calls that failed in this step.
SettingHistory(failed) ==
    LET Completed(q) == pc[q] \notin {"idle", "checkStart"} /\ pc'[q] = "idle" /\ Len(mem[q].todo) = 1
        Outcome(q, k) ==
          [kind |-> mem[q].kind, overwrite |-> mem[q].overwrite, asked |-> {e \in mem[q].asked : e.key = k},
           before |-> mem[q].before[k], after |-> configured'[k]]
    IN
    /\ disturbed' = [q \in Requests |->
          IF pc'[q] = "idle" THEN {}
          ELSE disturbed[q] \cup failed \cup (KeysOf(q)' \cap UNION {KeysOf(p)' : p \in Requests \ {q}})]
    /\ outcomes' = outcomes \cup UNION {{Outcome(q, k) : k \in KeysOf(q) \ (disturbed[q] \cup failed)} :
                                        q \in {p \in Requests : Completed(p)}}

SettingCall(q) ==
    \/ PutSetting(q) \/ ReadSetting(q) \/ PostImport(q) \/ RunScript(q) \/ CheckStart(q)
    \/ GetSetting(q) \/ FillSetting(q)
    \/ FindSetting(q) \/ SaveSetting(q) \/ LogSetting(q) \/ RefuseSetting(q)
    \/ DeleteSetting(q) \/ FindToRemoveSetting(q) \/ RemoveSetting(q) \/ LogRemovalOfSetting(q)
    \/ ExportSettings(q)

SettingNext == \E q \in Requests :
    \/ SettingCall(q) /\ SettingHistory({})
    \/ EntryFails(q) /\ SettingHistory({Head(mem[q].todo).key})

\* A request cut off while it saves may have written the row.
SettingInterrupted(q) ==
    /\ pc[q] \in SettingSteps
    /\ Interrupted(q)
    /\ disturbed' = [disturbed EXCEPT ![q] = {}]
    /\ \/ UNCHANGED <<configured, ids>>
       \/ At(q, "saveSetting") /\ PutRow(Head(mem[q].todo).key, mem[q].found)
       \/ /\ At(q, "removeSetting")
          /\ configured' = WithoutRow(Head(mem[q].todo).key, mem[q].found)
          /\ UNCHANGED ids
    /\ UNCHANGED <<filled, files, outcomes>>

------------------------------------------------------------------------------
\* What requests leave of the keys that no other request was writing meanwhile.  An import
\* that does not overwrite leaves what there is; one that does brings back the exported
\* configuration, with the mask for a secret, and a server that could start with it can
\* start with what the import makes of it, unless a list was there that the file has not.
\* The script leaves the production values, whatever the environment, and a server can
\* start with each, with the same exception, if and only if it is not a required value that
\* is empty: SMTP_USER's is (ConfigurationController.ts lines 74 to 152 and 410 to 512,
\* initializeConfigurations.ts, ConfigurationService.ts lines 164 to 309 and 588 to 625).
SettingsAsAnswered == \A o \in outcomes : \A e \in o.asked :
    LET listKept == e.allowed = NoList /\ o.before # None /\ o.before.allowed # NoList IN
    /\ o.kind = "remove" => o.after = None
    /\ o.kind = "put" => o.after # None /\ o.after.value = e.value
    /\ o.kind = "import" /\ ~o.overwrite => o.before = None \/ o.after = o.before
    /\ o.kind = "import" /\ o.overwrite =>
          /\ o.after.value = IF e.row.encrypted THEN Mask ELSE e.row.value
          /\ Starts(e.row) /\ ~listKept => Starts(o.after)
    /\ o.kind = "script" =>
          /\ \E i \in 1..Len(Defaults) :
                Defaults[i].key = e.key /\ o.after.value = Defaults[i].values[Stages[Len(Stages)]]
          /\ ~listKept => (Starts(o.after) <=> ~Vacant(o.after))
=============================================================================
