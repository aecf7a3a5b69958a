----------------------------- MODULE AuditTrail -----------------------------
(***************************************************************************)
(* The audit log of users, payment links, merchants, webhooks and          *)
(* sessions: src/src/subscribers/AuditSubscriber.ts, which TypeORM calls   *)
(* inside the transaction of a save, services/AuditService.ts, which       *)
(* writes the entry over a connection, and so in a transaction, of its     *)
(* own, and controllers/AuditController.ts, which pages through the log.   *)
(***************************************************************************)
EXTENDS Handlers

CONSTANTS
    Records,     \* ids of rows of the audited tables
    Contents,    \* what a column may hold
    PageSize     \* entries of a page of the log

Columns == {"name", "password"}

\* There is a row to begin with; neither an id nor a row is null.
ASSUME AuditAssumption ==
    /\ Records # {} /\ Contents # {}
    /\ None \notin Records \cup [Columns -> Contents]
    /\ PageSize \in Nat \ {0}

VARIABLES
    audited,     \* the audited tables, as committed
    trail,       \* table audit_logs, oldest first
    issued,      \* history: ids given out
    gone,        \* history: rows deleted
    unlogged,    \* history: rows of which a change has no entry
    undone,      \* history: rows of which an entry's change was rolled back
    missed       \* history: entries a reader of all pages has not seen

auditVars == <<audited, trail, issued, gone, unlogged, undone, missed>>

Content == [Columns -> Contents \cup {"[REDACTED]"}]
LogEntry == [record: Records \cup {None}, action: {"CREATE", "UPDATE", "DELETE"},
             old: Content \cup {None}, new: Content \cup {None}]

LockingSteps == {"logChange", "commitChange", "logRemoval", "commitRemoval"}
AuditSteps == LockingSteps \cup {"findRecord", "loadRecord", "change", "findToRemove", "remove", "readPage"}

Kept == {r \in Records : audited[r] # None}
\* A transaction has written the row and neither committed nor rolled back.
Locked(r) == \E q \in Requests : pc[q] \in LockingSteps /\ mem[q].record = r

AuditTypeOK ==
    /\ audited \in [Records -> [Columns -> Contents] \cup {None}]
    /\ \A i \in 1..Len(trail) : trail[i] \in LogEntry
    /\ gone \cup unlogged \cup undone \subseteq issued
    /\ issued \subseteq Records
    /\ missed \subseteq 1..Len(trail)

\* What an entry shows of a row.
Sanitize(row) == IF row = None THEN None ELSE [row EXCEPT !["password"] = "[REDACTED]"]

AuditInit ==
    LET r == CHOOSE s \in Records : TRUE
        x == CHOOSE c \in Contents : TRUE
        row == [c \in Columns |-> x] IN
        /\ audited = [s \in Records |-> IF s = r THEN row ELSE None]
        /\ trail = <<[record |-> r, action |-> "CREATE", old |-> None, new |-> Sanitize(row)]>>
        /\ issued = {r}
        /\ gone = {}
        /\ unlogged = {}
        /\ undone = {}
        /\ missed = {}

AuditIdle ==
    /\ audited = [r \in Records |-> None]
    /\ trail = <<>>
    /\ issued = {}
    /\ gone = {}
    /\ unlogged = {}
    /\ undone = {}
    /\ missed = {}

------------------------------------------------------------------------------
\* A request for a change of one column, under the context of auditMiddleware.
PostChange(q) ==
    /\ \E r \in Kept, c \in Columns, x \in Contents :
          Receive(q, "audit", "findRecord", [record |-> r, column |-> c, value |-> x])
    /\ UNCHANGED auditVars

FindRecord(q) ==
    LET r == mem[q].record IN
    /\ At(q, "findRecord")
    /\ \/ r \in Kept /\ Goto(q, "loadRecord", [record |-> r,
              held |-> [audited[r] EXCEPT ![mem[q].column] = mem[q].value]])
       \/ r \notin Kept /\ Answer(q)
    /\ UNCHANGED auditVars

\* save() reads the row again: it will update the columns that differ from the entity it
\* was given, or insert the entity if the row is gone.
LoadRecord(q) ==
    LET base == audited[mem[q].record] IN
    /\ At(q, "loadRecord")
    /\ \/ base # mem[q].held /\ Goto(q, "change",
              [record |-> mem[q].record, held |-> mem[q].held, base |-> base])
       \/ base = mem[q].held /\ Answer(q)
    /\ UNCHANGED auditVars

PostCreate(q) ==
    /\ \E r \in Records \ issued, x \in Contents :
          /\ Receive(q, "audit", "change",
                [record |-> r, held |-> [c \in Columns |-> x], base |-> None])
          /\ issued' = issued \cup {r}
    /\ UNCHANGED <<audited, trail, gone, unlogged, undone, missed>>

\* Variant for testing the properties: entries are written by beforeUpdate, before the
\* statement that takes the lock.
ChangeUnlocked(q) ==
    /\ At(q, "change")
    /\ Goto(q, "logChange", mem[q])
    /\ UNCHANGED auditVars

\* The UPDATE or the INSERT waits for a transaction that has written the row.
Change(q) ==
    LET r == mem[q].record
        duplicate == mem[q].base = None /\ r \in Kept
    IN
    /\ At(q, "change")
    /\ ~Locked(r)
    /\ \/ ~duplicate /\ Goto(q, "logChange", mem[q])
       \/ duplicate /\ Answer(q)
    /\ UNCHANGED auditVars

Log(r, action, old, new) ==
    trail' = Append(trail, [record |-> r, action |-> action, old |-> Sanitize(old), new |-> Sanitize(new)])

\* afterInsert and afterUpdate: the entry shows the entity given to save(), whatever the
\* row is now; an error is logged and the save goes on.
LogChange(q) ==
    LET r == mem[q].record IN
    /\ At(q, "logChange")
    /\ Goto(q, "commitChange", mem[q])
    /\ \/ /\ Log(r, IF mem[q].base = None THEN "CREATE" ELSE "UPDATE", mem[q].base, mem[q].held)
          /\ UNCHANGED unlogged
       \/ /\ Failing
          /\ unlogged' = unlogged \cup {r}
          /\ UNCHANGED trail
    /\ UNCHANGED <<audited, issued, gone, undone, missed>>

Written(q) ==
    LET r == mem[q].record
        row == audited[r]
    IN IF mem[q].base = None THEN mem[q].held
       ELSE IF row = None THEN None
       ELSE [c \in Columns |-> IF mem[q].held[c] # mem[q].base[c] THEN mem[q].held[c] ELSE row[c]]

CommitChange(q) ==
    /\ At(q, "commitChange")
    /\ audited' = [audited EXCEPT ![mem[q].record] = Written(q)]
    /\ Answer(q)
    /\ UNCHANGED <<trail, issued, gone, unlogged, undone, missed>>

\* remove() of an entity: its id is cleared before afterRemove, and the entry names none.
PostRemove(q) ==
    /\ \E r \in Kept : Receive(q, "audit", "findToRemove", [record |-> r])
    /\ UNCHANGED auditVars

FindToRemove(q) ==
    LET r == mem[q].record IN
    /\ At(q, "findToRemove")
    /\ \/ r \in Kept /\ Goto(q, "remove", [record |-> r, held |-> audited[r]])
       \/ r \notin Kept /\ Answer(q)
    /\ UNCHANGED auditVars

Remove(q) ==
    /\ At(q, "remove")
    /\ ~Locked(mem[q].record)
    /\ Goto(q, "logRemoval", mem[q])
    /\ UNCHANGED auditVars

LogRemoval(q) ==
    /\ At(q, "logRemoval")
    /\ Goto(q, "commitRemoval", mem[q])
    /\ \/ Log(None, "DELETE", mem[q].held, None)
       \/ Failing /\ UNCHANGED trail
    /\ UNCHANGED <<audited, issued, gone, unlogged, undone, missed>>

Discard(r) ==
    /\ audited' = [audited EXCEPT ![r] = None]
    /\ gone' = gone \cup {r}
    /\ UNCHANGED <<trail, issued, unlogged, undone, missed>>

CommitRemoval(q) ==
    /\ At(q, "commitRemoval")
    /\ Discard(mem[q].record)
    /\ Answer(q)

\* update() and delete() by id have no entity: the subscriber writes no entry.
UpdateById(q) ==
    /\ Serve(q, "audit")
    /\ \E r \in Kept, c \in Columns, x \in Contents :
          /\ ~Locked(r)
          /\ audited' = [audited EXCEPT ![r][c] = x]
          /\ unlogged' = unlogged \cup {r}
    /\ UNCHANGED <<trail, issued, gone, undone, missed>>

DeleteById(q) ==
    /\ Serve(q, "audit")
    /\ \E r \in Kept : ~Locked(r) /\ Discard(r)

------------------------------------------------------------------------------
\* A reader asks for one page after the other, newest entries first, until the last.
GetAuditLogs(q) ==
    /\ Receive(q, "audit", "readPage", [page |-> 1, first |-> Len(trail), got |-> {}])
    /\ UNCHANGED auditVars

Page(n) ==
    LET last == Len(trail) - (n - 1) * PageSize
    IN {i \in 1..Len(trail) : last - PageSize < i /\ i <= last}

ReadPage(q) ==
    LET got == mem[q].got \cup Page(mem[q].page) IN
    /\ At(q, "readPage")
    /\ \/ /\ mem[q].page * PageSize < Len(trail)
          /\ Goto(q, "readPage", [mem[q] EXCEPT !.page = @ + 1, !.got = got])
          /\ UNCHANGED missed
       \/ /\ mem[q].page * PageSize >= Len(trail)
          /\ Answer(q)
          /\ missed' = missed \cup ((1..mem[q].first) \ got)
    /\ UNCHANGED <<audited, trail, issued, gone, unlogged, undone>>

------------------------------------------------------------------------------
AuditNext == \E q \in Requests :
    \/ PostChange(q) \/ FindRecord(q) \/ LoadRecord(q) \/ PostCreate(q)
    \/ Change(q) \/ LogChange(q) \/ CommitChange(q)
    \/ PostRemove(q) \/ FindToRemove(q) \/ Remove(q) \/ LogRemoval(q) \/ CommitRemoval(q)
    \/ UpdateById(q) \/ DeleteById(q)
    \/ GetAuditLogs(q) \/ ReadPage(q)

\* The transaction is rolled back, and an entry written meanwhile stays.
AuditInterrupted(q) ==
    /\ pc[q] \in AuditSteps
    /\ Interrupted(q)
    /\ undone' = IF At(q, "commitChange") THEN undone \cup {mem[q].record} ELSE undone
    /\ UNCHANGED <<audited, trail, issued, gone, unlogged, missed>>

------------------------------------------------------------------------------
\* The log replays a row: each column that entries show holds what the last entry to
\* change it says, however saves of the row overlap, and although an entry shows the
\* entity a request held rather than the row it left.  Deleted rows are excepted, and
\* those of which a change was rolled back after its entry or had none.  And whoever
\* reads all the pages while entries are added misses none of those there at the start
\* (AuditSubscriber.ts lines 36 to 120, AuditService.ts lines 51 to 130).
TrailReplaysRows ==
    /\ \A r \in Kept \ (gone \cup unlogged \cup undone) :
          LET Sets(i) ==
                /\ trail[i].record = r
                /\ trail[i].action = "CREATE" \/ trail[i].old["name"] # trail[i].new["name"]
              latest == CHOOSE i \in 1..Len(trail) : Sets(i) /\ \A j \in (i + 1)..Len(trail) : ~Sets(j)
          IN ~Locked(r) => audited[r]["name"] = trail[latest].new["name"]
    /\ missed = {}
==============================================================================
