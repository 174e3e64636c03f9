---------------------------- MODULE MailLifecycle ----------------------------
(***************************************************************************)
(* What the pipeline promises to those who read the view and the event     *)
(* log, without the scans, the requests and their stages: mail arrives,    *)
(* gets rows, the newest row may be announced once, a row may move to      *)
(* Trash, and a message that left INBOX may get another row.  MailSync     *)
(* implements this module (MailSync!ImplementsLifecycle).                  *)
(*                                                                         *)
(*   rows   the rows of the view in the order of their creation            *)
(*   log    per event the UID it announces, 0 if it announces nothing      *)
(*   due    whether the newest row may still be announced                  *)
(***************************************************************************)
EXTENDS Naturals, Sequences

CONSTANT Uids

VARIABLES inbox, rows, log, due

vars == <<inbox, rows, log, due>>

Init ==
    /\ inbox = {}
    /\ rows = <<>>
    /\ log = <<>>
    /\ due = FALSE

Holds(u, f) == \E i \in DOMAIN rows : rows[i] = [uid |-> u, folder |-> f]

\* Mail arrives with growing UIDs.
Arrive ==
    \E u \in Uids \ inbox :
        /\ \A v \in inbox : v < u
        /\ inbox' = inbox \cup {u}
        /\ UNCHANGED <<rows, log, due>>

\* A message without a row in INBOX gets one, to be announced or not.
Store ==
    \E u \in inbox :
        /\ ~Holds(u, "INBOX")
        /\ rows' = Append(rows, [uid |-> u, folder |-> "INBOX"])
        /\ due' \in BOOLEAN
        /\ UNCHANGED <<inbox, log>>

\* Only the newest row is announced, and only once.
Announce ==
    /\ due
    /\ log' = Append(log, rows[Len(rows)].uid)
    /\ due' = FALSE
    /\ UNCHANGED <<inbox, rows>>

\* The event is lost.
GiveUp ==
    /\ due
    /\ due' = FALSE
    /\ UNCHANGED <<inbox, rows, log>>

\* One row of a message, and no more, ends in Trash.
MoveToTrash ==
    \E i \in DOMAIN rows :
        /\ rows[i].folder = "INBOX"
        /\ ~Holds(rows[i].uid, "Trash")
        /\ rows' = [rows EXCEPT ![i].folder = "Trash"]
        /\ UNCHANGED <<inbox, log, due>>

LogOther ==
    /\ log' = Append(log, 0)
    /\ UNCHANGED <<inbox, rows, due>>

Next == Arrive \/ Store \/ Announce \/ GiveUp \/ MoveToTrash \/ LogOther

Spec == Init /\ [][Next]_vars

==============================================================================
