------------------------------- MODULE MailSync -------------------------------
(***************************************************************************)
(* The mail pipeline of one account: Dovecot delivers, the watcher copies  *)
(* INBOX into message_view and announces what is new, API requests change  *)
(* the rows behind its back.  The three only meet in the tables of         *)
(* MailStore; nothing locks, and no transaction spans two statements.      *)
(***************************************************************************)
EXTENDS Watcher, MessageApi

vars == <<storeVars, watcherVars, req>>

Init == StoreInit /\ WatcherInit /\ ApiInit

Next ==
    \/ Deliver /\ UNCHANGED <<watcherVars, req>>
    \/ WatcherNext /\ UNCHANGED req
    \/ ApiNext /\ UNCHANGED watcherVars

\* The watcher's goroutine, and each handler once it has been called.  Clients
\* need not call and mail need not arrive.
Fairness ==
    /\ WF_vars(WatcherStep /\ UNCHANGED req)
    /\ \A r \in Requests : WF_vars(ApiStep(r) /\ UNCHANGED watcherVars)

Spec == Init /\ [][Next]_vars /\ Fairness

------------------------------------------------------------------------------

\* Shape of every variable, and the references between them: todo is mail that
\* Dovecot holds, fetched is flags that Dovecot set, a request names a row.
TypeOK == StoreTypeOK /\ WatcherTypeOK /\ ApiTypeOK

\* A consumer of the event log can look up every message an event names: no
\* event about a message precedes the message's first row (insert before emit
\* in scanNewMessages, lookup before emit in Update and Delete).
EventsBacked ==
    \A i \in DOMAIN events : events[i].uid # 0 => Tracked(events[i].uid)

\* A message is announced again only because a row of it was moved to Trash in
\* between, which is when the scan takes it for new: neither a repeated scan,
\* a reconnection nor a crash announces a message twice.
RepeatOnlyAfterTrash ==
    \A u \in Uids : \A i, j \in Announcements(u) :
        i # j => HasRow(u, "INBOX") /\ HasRow(u, "Trash")

\* And it is never announced a third time, whatever clients delete: the second
\* row cannot join the first in Trash.
AnnouncedAtMostTwice ==
    \A u \in Uids : \A i, j, k \in Announcements(u) : i = j \/ j = k \/ i = k

\* A row whose body columns are NULL is due to the race of the known-message
\* upsert with a move to Trash: nothing else leaves a headers-only row, which the
\* handlers cannot scan into a MessageView.
BodylessOnlyAfterTrash ==
    \A i \in DOMAIN message_view :
        message_view[i].body = "NULL" => HasRow(message_view[i].uid, "Trash")

\* Request r has asked for row i to be marked read.
AskedRead(r, i) ==
    /\ req[r].stage \notin {"idle", "lookup"}
    /\ req[r].id = i
    /\ req[r].call.op = "patch"
    /\ req[r].call.is_read = "true"

\* A row reads as read only if Dovecot has \Seen on the message or some client
\* asked for that row to be marked: a stale scan result never invents it.
ReadHasCause ==
    \A i \in DOMAIN message_view :
        message_view[i].is_read =>
            \/ message_view[i].uid \in seen
            \/ \E r \in Requests : AskedRead(r, i)

\* What is left of a row, and of an event, when flags, bodies and the events of
\* the handlers are hidden.
RowKeys ==
    [i \in DOMAIN message_view |->
        [uid |-> message_view[i].uid, folder |-> message_view[i].folder]]
AnnouncedUids ==
    [i \in DOMAIN events |->
        IF events[i].type = "MessageDelivered" THEN events[i].uid ELSE 0]

\* The progress of the scan and the requests are hidden too.
Lifecycle == INSTANCE MailLifecycle WITH
    rows <- RowKeys, log <- AnnouncedUids, due <- (stage = "emit")

\* The pipeline implements the life of a message as MailLifecycle states it:
\* whatever clients do between two statements of the scan, the only row ever
\* announced is the one inserted last, before the next is inserted and at most
\* once, so that the log follows the order of the rows (scanNewMessages).
ImplementsLifecycle == Lifecycle!Spec

------------------------------------------------------------------------------
(* What makes these invariants inductive.                                   *)

\* UNIQUE(account_id, dovecot_uid, folder), as the statements keep it.
OneRowPerFolder ==
    \A i, j \in DOMAIN message_view :
        /\ message_view[i].uid = message_view[j].uid
        /\ message_view[i].folder = message_view[j].folder
        => i = j

\* A handler that looked its row up knows that row's uid.
LookupsBacked ==
    \A r \in Requests :
        /\ req[r].stage \in {"idle", "lookup"} => req[r].uid = 0
        /\ req[r].uid # 0 => /\ req[r].id \in DOMAIN message_view
                             /\ message_view[req[r].id].uid = req[r].uid

\* The message the watcher is about to announce has a row.
EmitsBacked == stage = "emit" => \A u \in todo : Current(u) => Tracked(u)

\* Only the watcher puts rows into INBOX, so a message the scan has yet to
\* handle and does not know still has no row there, however old "known" is.
ScanIsFresh ==
    /\ stage \in {"loop", "extract", "insert"} =>
          \A u \in todo \ known : ~HasRow(u, "INBOX")
    /\ stage = "emit" =>
          \A u \in todo \ known : Current(u) \/ ~HasRow(u, "INBOX")
    /\ stage \in {"extract", "insert", "emit"} =>
          \A u \in todo : Current(u) => u \notin known

\* The pending announcement is the first, or the second of a message whose
\* first row is in Trash.
EmitIsDue ==
    stage = "emit" =>
        \A u \in todo : Current(u) =>
            /\ \A i, j \in Announcements(u) : i = j
            /\ Announcements(u) # {} => HasRow(u, "INBOX") /\ HasRow(u, "Trash")

\* The row about to be announced is the last one.
EmitIsLast ==
    stage = "emit" =>
        \A u \in todo : Current(u) =>
            /\ Len(message_view) > 0
            /\ message_view[Len(message_view)].uid = u

\* A known message had a row in INBOX when the scan asked: it still has one there,
\* or in Trash.
KnownTracked == \A u \in known : Tracked(u)

\* Inductive together with TypeOK.
BackedInv == OneRowPerFolder /\ EventsBacked /\ LookupsBacked /\ EmitsBacked

\* Inductive together with TypeOK and BackedInv, unless reads are truncated.
AnnounceInv ==
    ScanIsFresh /\ EmitIsDue /\ RepeatOnlyAfterTrash /\ AnnouncedAtMostTwice

\* Inductive together with TypeOK.
ContentInv == KnownTracked /\ BodylessOnlyAfterTrash /\ ReadHasCause

------------------------------------------------------------------------------

\* Row i agrees with Dovecot about message u of INBOX.
Agrees(i, u) ==
    /\ message_view[i].uid = u
    /\ message_view[i].folder = "INBOX"
    /\ message_view[i].is_read = (u \in seen)

\* "On any conflict between this table and Dovecot, DOVECOT WINS"
\* (migrations/004): once clients stop and faults end, INBOX is in the view,
\* message by message, with Dovecot's read state.  It holds for the messages that
\* PostgreSQL accepts, and while INBOX has none that keeps extractBody from
\* returning: one that has ends the scans, so that not even the flags of earlier
\* messages are copied any more.
ViewConverges ==
    <>[](inbox \cap Unparsable = {} =>
            \A u \in inbox \ (Unstorable \cup Unquotable) :
                \E i \in DOMAIN message_view : Agrees(i, u))

==============================================================================
