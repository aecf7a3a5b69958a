------------------------------- MODULE Notices -------------------------------
(***************************************************************************)
(* In-app notifications: src/src/services/inAppNotificationService.ts, its *)
(* controller, and the events that responses carry.                        *)
(***************************************************************************)
EXTENDS Handlers

CONSTANTS
    Recipients,
    NoticeIds

VARIABLES
    notices,    \* table in_app_notifications
    issued,     \* history: the ids given out; the database gives none twice
    everRead,   \* history: notifications a save or update has marked as read
    deletedBy   \* history: <<notification, recipient>> of the deletions

noticeVars == <<notices, issued, everRead, deletedBy>>

Notice == [recipient: Recipients \cup {None}, isRead: BOOLEAN,
           status: {"unread", "read", "archived"}]
NoticeTypeOK == \A n \in NoticeIds : notices[n] = None \/ notices[n] \in Notice
NoticeSteps == {"createNotification", "saveRead"}
Present == {n \in NoticeIds : notices[n] # None}

NoticeInit ==
    /\ notices = [n \in NoticeIds |-> None]
    /\ issued = {}
    /\ everRead = {}
    /\ deletedBy = {}

\* attachNotificationEvent: the response is sent, and the event it carries is
\* processed beside the requests that follow; an error is only logged.
NotificationEvent(q) ==
    /\ \E r \in Recipients \cup {None} :
          Receive(q, "notices", "createNotification", [recipient |-> r])
    /\ UNCHANGED noticeVars

\* createPaymentNotification and createFraudAlertNotification have a recipient,
\* createSystemUpdateNotification has none.
CreateNotification(q) ==
    /\ At(q, "createNotification")
    /\ \E n \in NoticeIds \ issued :
          /\ issued' = issued \cup {n}
          /\ notices' = [notices EXCEPT ![n] =
                [recipient |-> mem[q].recipient, isRead |-> FALSE, status |-> "unread"]]
    /\ Answer(q)
    /\ UNCHANGED <<everRead, deletedBy>>

\* markAsRead finds the notification of the user and saves the whole row.
MarkAsRead(q) ==
    /\ \E n \in Present : \E r \in Recipients :
          /\ notices[n].recipient = r
          /\ Receive(q, "notices", "saveRead", [notice |-> n, row |-> notices[n]])
    /\ UNCHANGED noticeVars

Read(row) == [row EXCEPT !.isRead = TRUE, !.status = "read"]

\* Variant for testing the properties: the status is set and the flag is not.
SaveReadStatus(q) ==
    /\ At(q, "saveRead")
    /\ notices' = [notices EXCEPT ![mem[q].notice] = [mem[q].row EXCEPT !.status = "read"]]
    /\ everRead' = everRead \cup {mem[q].notice}
    /\ Answer(q)
    /\ UNCHANGED <<issued, deletedBy>>

SaveRead(q) ==
    /\ At(q, "saveRead")
    /\ notices' = [notices EXCEPT ![mem[q].notice] = Read(mem[q].row)]
    /\ everRead' = everRead \cup {mem[q].notice}
    /\ Answer(q)
    /\ UNCHANGED <<issued, deletedBy>>

Unread(r) == {n \in Present : notices[n].recipient = r /\ ~notices[n].isRead}

\* markAllAsRead, one UPDATE.  It takes an unread notification out of the archive.
MarkAllAsRead(q) ==
    /\ Serve(q, "notices")
    /\ \E r \in Recipients :
          /\ notices' = [n \in NoticeIds |-> IF n \in Unread(r) THEN Read(notices[n]) ELSE notices[n]]
          /\ everRead' = everRead \cup Unread(r)
    /\ UNCHANGED <<issued, deletedBy>>

\* softDelete archives and leaves isRead alone.
DeleteNotification(q) ==
    /\ Serve(q, "notices")
    /\ \E n \in Present : \E r \in Recipients :
          /\ notices[n].recipient = r
          /\ notices' = [notices EXCEPT ![n].status = "archived"]
          /\ deletedBy' = deletedBy \cup {<<n, r>>}
    /\ UNCHANGED <<issued, everRead>>

\* deleteExpiredNotifications, one DELETE.  A save in progress inserts its row again.
DeleteExpiredNotifications(q) ==
    /\ Serve(q, "notices")
    /\ \E n \in Present : notices' = [notices EXCEPT ![n] = None]
    /\ UNCHANGED <<issued, everRead, deletedBy>>

NoticeNext == \E q \in Requests :
    \/ NotificationEvent(q) \/ CreateNotification(q)
    \/ MarkAsRead(q) \/ SaveRead(q) \/ MarkAllAsRead(q)
    \/ DeleteNotification(q) \/ DeleteExpiredNotifications(q)

NoticeInterrupted(q) ==
    /\ pc[q] \in NoticeSteps
    /\ Interrupted(q)
    /\ UNCHANGED noticeVars

\* The flag the unread count is taken from and the status that is shown agree: a
\* notification is unread until it is read or archived, one that was read stays so
\* whichever row is saved last, and only the recipient's deletion archives one
\* (inAppNotificationService.ts lines 124 to 177).
FlagAgreesWithStatus ==
    \A n \in Present : LET row == notices[n] IN
       /\ row.status = "read" => row.isRead
       /\ row.status = "unread" => ~row.isRead
       /\ n \in everRead => row.isRead
       /\ row.status = "archived" => <<n, row.recipient>> \in deletedBy
==============================================================================
