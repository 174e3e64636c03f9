------------------------------ MODULE MailStore ------------------------------
(***************************************************************************)
(* The state that skybeam-mail's three binaries share, for one account:    *)
(*                                                                         *)
(*   inbox, seen    the Dovecot INBOX (external): the delivered UIDs, and  *)
(*                  those that carry the \Seen flag                        *)
(*   message_view   the read cache (migrations/004): a row's id is its     *)
(*                  place in insertion order, no statement deletes a row   *)
(*   events         the append-only event log (migrations/003)             *)
(*   faults         how many faults have happened so far                   *)
(*                                                                         *)
(* Every SQL statement of the program is one atomic step, so the module    *)
(* has one action or operator per statement.  Every query filters on the   *)
(* account id, so accounts do not interact and one is enough.              *)
(***************************************************************************)
EXTENDS Naturals, Sequences

CONSTANTS
    Uids,        \* IMAP UIDs that may be delivered to INBOX
    Faults,      \* kinds of fault that may happen, see Fail
    MaxFaults    \* bound on the number of faults in a behaviour

ASSUME UidsAssumption == Uids \subseteq Nat \ {0}
ASSUME MaxFaultsAssumption == MaxFaults \in Nat

VARIABLES inbox, seen, message_view, events, faults

storeVars == <<inbox, seen, message_view, events, faults>>

------------------------------------------------------------------------------

Folders == {"INBOX", "Trash"}   \* the only names the modelled code writes

\* What body_text, body_html and snippet hold: NULL when the INSERT does not name
\* them, "" when no body was fetched, or what extractBody made of the body.
Bodies == {"NULL", "empty", "fetched"}

\* The columns of message_view that some property tells apart.
Row == [uid: Uids, folder: Folders, is_read: BOOLEAN, is_starred: BOOLEAN,
        is_deleted: BOOLEAN, body: Bodies]

EventTypes == {"MessageDelivered", "MessageRead", "MessageUnread",
               "MessageStarred", "MessageUnstarred", "MessageDeleted"}

\* uid 0 and folder "" are the zero values of a MessageView that was never
\* scanned.
UidOrZero == Uids \cup {0}
FolderOrEmpty == Folders \cup {""}

Event == [type: EventTypes, uid: UidOrZero, folder: FolderOrEmpty]

StoreTypeOK ==
    /\ inbox \subseteq Uids
    /\ seen \subseteq inbox
    /\ message_view \in Seq(Row)
    /\ events \in Seq(Event)
    /\ faults \in 0 .. MaxFaults

StoreInit ==
    /\ inbox = {}
    /\ seen = {}
    /\ message_view = <<>>
    /\ events = <<>>
    /\ faults = 0

------------------------------------------------------------------------------
(* Faults: at most MaxFaults of the kinds in Faults.                       *)

Fail(kind) ==
    /\ kind \in Faults
    /\ faults < MaxFaults
    /\ faults' = faults + 1

------------------------------------------------------------------------------
(* Dovecot (external).  Postfix delivers over LMTP, with growing UIDs; no  *)
(* client but the watcher opens the mailbox, and nothing expunges it.      *)

Deliver ==
    \E u \in Uids \ inbox :
        /\ \A v \in inbox : v < u
        /\ inbox' = inbox \cup {u}
        /\ UNCHANGED <<seen, message_view, events, faults>>

\* FETCH BODY[] without PEEK on a mailbox opened with SELECT sets \Seen.
SetSeen(u) == seen' = seen \cup {u}

------------------------------------------------------------------------------
(* SQL on message_view.                                                    *)

Ids(u, f) == {i \in DOMAIN message_view :
                /\ message_view[i].uid = u
                /\ message_view[i].folder = f}

HasRow(u, f) == Ids(u, f) # {}

Tracked(u) == \E f \in Folders : HasRow(u, f)

NewRow(u, isRead, body) ==
    [uid |-> u, folder |-> "INBOX", is_read |-> isRead, is_starred |-> FALSE,
     is_deleted |-> FALSE, body |-> body]

\* (Mutant.) The upsert of a known message forgets is_read.
UpsertHeadersKeepsRead(u, isRead) ==
    message_view' = IF HasRow(u, "INBOX")
                    THEN message_view
                    ELSE Append(message_view, NewRow(u, isRead, "NULL"))

\* (Mutant.) The upsert of a known message takes the body columns of EXCLUDED too.
UpsertHeadersOverwrites(u, isRead) ==
    message_view' = IF HasRow(u, "INBOX")
                    THEN [i \in DOMAIN message_view |->
                            IF i \in Ids(u, "INBOX")
                            THEN [message_view[i] EXCEPT !.is_read = isRead,
                                                         !.body = "NULL"]
                            ELSE message_view[i]]
                    ELSE Append(message_view, NewRow(u, isRead, "NULL"))

\* The UPSERT of a message the scan already knows.
UpsertHeaders(u, isRead) ==
    IF HasRow(u, "INBOX")
    THEN \E i \in Ids(u, "INBOX") :
            message_view' = [message_view EXCEPT ![i].is_read = isRead]
    ELSE message_view' = Append(message_view, NewRow(u, isRead, "NULL"))

\* The UPSERT of a message the scan takes for new: on conflict it refreshes
\* last_synced_at only.
InsertMessage(u, isRead, hasBody) ==
    message_view' = IF HasRow(u, "INBOX")
                    THEN message_view
                    ELSE Append(message_view,
                                NewRow(u, isRead,
                                       IF hasBody THEN "fetched" ELSE "empty"))

\* UPDATE ... WHERE id: no effect on an id no row has (0 is such an id).
UpdateRow(id, row) ==
    message_view' = IF id \in DOMAIN message_view
                    THEN [message_view EXCEPT ![id] = row]
                    ELSE message_view

\* (Mutant.) A move that would violate the constraint deletes the row instead.
MoveToTrashOrDelete(id) ==
    IF id \in DOMAIN message_view /\ HasRow(message_view[id].uid, "Trash")
    THEN message_view' = SelectSeq(message_view, LAMBDA row : row # message_view[id])
    ELSE UpdateRow(id, [message_view[id] EXCEPT !.folder = "Trash"])

\* (Mutant.) The row is deleted instead of moved.
MoveToTrashDeletes(id) ==
    message_view' = SelectSeq(message_view,
                              LAMBDA row : id \notin DOMAIN message_view
                                           \/ row # message_view[id])

\* SET folder = 'Trash' violates UNIQUE(account_id, dovecot_uid, folder) when
\* another row of the message is in Trash; the statement then changes nothing.
MoveToTrash(id) ==
    IF id \in DOMAIN message_view /\ HasRow(message_view[id].uid, "Trash")
    THEN UNCHANGED message_view
    ELSE UpdateRow(id, [message_view[id] EXCEPT !.folder = "Trash"])

\* INSERT INTO events.
Emit(type, u, f) ==
    events' = Append(events, [type |-> type, uid |-> u, folder |-> f])

------------------------------------------------------------------------------
(* Queries the properties use.                                             *)

\* Indexes of the MessageDelivered events of message u.
Announcements(u) == {i \in DOMAIN events :
                       /\ events[i].type = "MessageDelivered"
                       /\ events[i].uid = u}

==============================================================================
