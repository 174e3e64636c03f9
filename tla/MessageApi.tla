------------------------------ MODULE MessageApi ------------------------------
(***************************************************************************)
(* The handlers of internal/api/handlers/messages.go that write:           *)
(* Update (PATCH /messages/:id) and Delete (DELETE /messages/:id).  Each   *)
(* request runs in a goroutine of its own; its SQL statements are separate *)
(* transactions, so each is an action.  GET handlers only read; Raw and    *)
(* Send answer 501.                                                        *)
(*                                                                         *)
(*   req[r].stage   the statement the handler is about to run              *)
(*   req[r].call    what the client asked for                              *)
(*   req[r].id      the row it names, 0 for an id that no row has          *)
(*   req[r].uid, req[r].folder   what the lookup read                      *)
(***************************************************************************)
EXTENDS MailStore

CONSTANTS
    Requests,    \* the requests of a behaviour, each handled once
    Calls        \* what clients ask for, a subset of AllCalls

\* An optional boolean of the PATCH body.
Optional == {"absent", "true", "false"}

AllCalls == [op: {"patch"}, is_read: Optional, is_starred: Optional]
            \cup [op: {"delete"}, permanent: BOOLEAN]

ASSUME CallsAssumption == Calls \subseteq AllCalls

VARIABLE req

ReqStages == {"idle", "lookup", "read", "readEvent", "star", "starEvent",
              "delete", "deleteEvent", "done"}

NoCall == [op |-> "none"]

Request == [stage: ReqStages, call: Calls \cup {NoCall}, id: Nat,
            uid: UidOrZero, folder: FolderOrEmpty]

\* A request keeps the id of an existing row, and what it looked up there.
ApiTypeOK ==
    /\ req \in [Requests -> Request]
    /\ \A r \in Requests :
          /\ req[r].id \in 0 .. Len(message_view)
          /\ req[r].stage # "idle" => req[r].call \in Calls
          /\ req[r].stage \in {"read", "readEvent", "star", "starEvent"}
                => req[r].call.op = "patch"
          /\ req[r].stage \in {"delete", "deleteEvent"}
                => req[r].call.op = "delete"

ApiInit ==
    req = [r \in Requests |-> [stage |-> "idle", call |-> NoCall, id |-> 0,
                               uid |-> 0, folder |-> ""]]

------------------------------------------------------------------------------
(* The order of a handler's statements.                                    *)

AfterRead(call) == IF call.is_starred = "absent" THEN "done" ELSE "star"

\* (Mutant.) A delete is handled as an update.
AfterLookupUpdates(call) == IF call.op = "delete" THEN "read" ELSE AfterRead(call)

AfterLookup(call) ==
    IF call.op = "delete" THEN "delete"
    ELSE IF call.is_read = "absent" THEN AfterRead(call) ELSE "read"

GoTo(r, stage) == req' = [req EXCEPT ![r].stage = stage]

------------------------------------------------------------------------------

\* A client sends a request for a row it has seen, or for an unknown id.
Begin(r) ==
    /\ req[r].stage = "idle"
    /\ \E call \in Calls, id \in 0 .. Len(message_view) :
          req' = [req EXCEPT ![r] = [@ EXCEPT !.stage = "lookup",
                                              !.call = call, !.id = id]]
    /\ UNCHANGED storeVars

\* The SELECT by id; pgx.ErrNoRows answers 404.
Lookup(r) ==
    /\ req[r].stage = "lookup"
    /\ IF req[r].id \in DOMAIN message_view
       THEN req' = [req EXCEPT ![r] =
                      [@ EXCEPT !.stage = AfterLookup(req[r].call),
                                !.uid = message_view[req[r].id].uid,
                                !.folder = message_view[req[r].id].folder]]
       ELSE GoTo(r, "done")
    /\ UNCHANGED storeVars

\* Any other error is not looked at: the handler goes on with zero values.
LookupFails(r) ==
    /\ req[r].stage = "lookup"
    /\ Fail("lookup")
    /\ GoTo(r, AfterLookup(req[r].call))
    /\ UNCHANGED <<inbox, seen, message_view, events>>

------------------------------------------------------------------------------
(* Update.                                                                 *)

\* (Mutant.) Whether is_read is given is stored instead of its value.
UpdateReadIfGiven(r) ==
    /\ req[r].stage = "read"
    /\ UpdateRow(req[r].id, [message_view[req[r].id] EXCEPT
                               !.is_read = (req[r].call.is_read # "absent")])
    /\ GoTo(r, "readEvent")
    /\ UNCHANGED <<inbox, seen, events, faults>>

UpdateRead(r) ==
    /\ req[r].stage = "read"
    /\ UpdateRow(req[r].id, [message_view[req[r].id] EXCEPT
                               !.is_read = (req[r].call.is_read = "true")])
    /\ GoTo(r, "readEvent")
    /\ UNCHANGED <<inbox, seen, events, faults>>

EmitRead(r) ==
    /\ req[r].stage = "readEvent"
    /\ Emit(IF req[r].call.is_read = "true" THEN "MessageRead" ELSE "MessageUnread",
            req[r].uid, req[r].folder)
    /\ GoTo(r, AfterRead(req[r].call))
    /\ UNCHANGED <<inbox, seen, message_view, faults>>

UpdateStarred(r) ==
    /\ req[r].stage = "star"
    /\ UpdateRow(req[r].id, [message_view[req[r].id] EXCEPT
                               !.is_starred = (req[r].call.is_starred = "true")])
    /\ GoTo(r, "starEvent")
    /\ UNCHANGED <<inbox, seen, events, faults>>

EmitStarred(r) ==
    /\ req[r].stage = "starEvent"
    /\ Emit(IF req[r].call.is_starred = "true" THEN "MessageStarred"
                                               ELSE "MessageUnstarred",
            req[r].uid, req[r].folder)
    /\ GoTo(r, "done")
    /\ UNCHANGED <<inbox, seen, message_view, faults>>

------------------------------------------------------------------------------
(* Delete.                                                                 *)

DeleteRow(r) ==
    /\ req[r].stage = "delete"
    /\ IF req[r].call.permanent
       THEN UpdateRow(req[r].id, [message_view[req[r].id] EXCEPT
                                    !.is_deleted = TRUE])
       ELSE MoveToTrash(req[r].id)
    /\ GoTo(r, "deleteEvent")
    /\ UNCHANGED <<inbox, seen, events, faults>>

EmitDeleted(r) ==
    /\ req[r].stage = "deleteEvent"
    /\ Emit("MessageDeleted", req[r].uid, req[r].folder)
    /\ GoTo(r, "done")
    /\ UNCHANGED <<inbox, seen, message_view, faults>>

------------------------------------------------------------------------------
(* Failures.  No handler looks at the error of its UPDATE or of EmitWith.  *)

NextStage(r) ==
    CASE req[r].stage = "read"        -> "readEvent"
      [] req[r].stage = "readEvent"   -> AfterRead(req[r].call)
      [] req[r].stage = "star"        -> "starEvent"
      [] req[r].stage = "starEvent"   -> "done"
      [] req[r].stage = "delete"      -> "deleteEvent"
      [] req[r].stage = "deleteEvent" -> "done"

UpdateFails(r) ==
    /\ req[r].stage \in {"read", "star", "delete"}
    /\ Fail("update")
    /\ GoTo(r, NextStage(r))
    /\ UNCHANGED <<inbox, seen, message_view, events>>

EmitFails(r) ==
    /\ req[r].stage \in {"readEvent", "starEvent", "deleteEvent"}
    /\ Fail("emit")
    /\ GoTo(r, NextStage(r))
    /\ UNCHANGED <<inbox, seen, message_view, events>>

\* The client goes away, the 30 seconds of the Timeout middleware pass, or the
\* process dies: no later statement of the request takes effect.
Abort(r) ==
    /\ req[r].stage \notin {"idle", "done"}
    /\ Fail("abort")
    /\ GoTo(r, "done")
    /\ UNCHANGED <<inbox, seen, message_view, events>>

------------------------------------------------------------------------------

ApiStep(r) ==
    \/ Lookup(r) \/ UpdateRead(r) \/ EmitRead(r) \/ UpdateStarred(r)
    \/ EmitStarred(r) \/ DeleteRow(r) \/ EmitDeleted(r)

ApiFault(r) == LookupFails(r) \/ UpdateFails(r) \/ EmitFails(r) \/ Abort(r)

ApiNext == \E r \in Requests : Begin(r) \/ ApiStep(r) \/ ApiFault(r)

==============================================================================
