------------------------------ MODULE FolderView ------------------------------
(***************************************************************************)
(* The folder summary of one account (migrations/005): the reconciler      *)
(* derives it from message_view (internal/reconciler/service.go), clients  *)
(* create and delete folders (internal/api/handlers/folders.go).           *)
(*                                                                         *)
(*   folder_view     a listed folder's name -> its counts                  *)
(*   sync[s]         a goroutine of reconcileAccount: runAll starts one at *)
(*                   each tick, whether or not the last one has ended      *)
(*   folder_req[r]   a request to create or to delete a folder             *)
(*   folder_events   which events were logged, without order or number:    *)
(*                   nothing in the program reads them                     *)
(*   folder_faults   how many faults have happened so far                  *)
(*                                                                         *)
(* An INSERT ... SELECT reads message_view when the statement starts and   *)
(* may then wait for a row lock, so it is two actions.                     *)
(***************************************************************************)
EXTENDS MailStore, FiniteSets

CONSTANTS
    Listed,          \* folders listed when the account was made
    Syncs,           \* goroutines that may run at a time
    FolderRequests,  \* requests of a behaviour, each handled once
    FolderNames,     \* names that clients give
    FolderFaults,    \* kinds of fault that may happen, see FolderFail
    MaxFolderFaults  \* bound on the number of faults in a behaviour

\* What migrations/005 and scripts/add-account.sh call the system folders.
SystemFolders == {"INBOX", "Sent", "Drafts", "Trash", "Archive", "Spam"}

ASSUME ListedAssumption == Listed \subseteq SystemFolders
ASSUME MaxFolderFaultsAssumption == MaxFolderFaults \in Nat

VARIABLES folder_view, sync, folder_req, folder_events, folder_faults

folderVars == <<folder_view, sync, folder_req, folder_events, folder_faults>>

------------------------------------------------------------------------------

Names == SystemFolders \cup FolderNames

Counts == [total: Nat, unread: Nat]

\* Counts for some of the names.
IsSummary(t) == DOMAIN t \subseteq Names /\ \A f \in DOMAIN t : t[f] \in Counts

FolderEvents == [type: {"FolderCreated", "FolderDeleted"}, folder: FolderNames]
                \cup [type: {"ReconcileCompleted"}]

SyncStages == {"idle", "read", "write", "event"}

FolderStages == {"idle", "insert", "insertEvent", "count", "remove",
                 "removeEvent", "done"}

\* A request under way has a name.
FolderRequestsOK ==
    /\ folder_req \in [FolderRequests -> [stage: FolderStages, name: FolderNames \cup {""}]]
    /\ \A r \in FolderRequests :
          folder_req[r].stage \notin {"idle", "done"} => folder_req[r].name \in FolderNames

FolderTypeOK ==
    /\ IsSummary(folder_view)
    /\ DOMAIN sync = Syncs
    /\ \A s \in Syncs : sync[s].stage \in SyncStages /\ IsSummary(sync[s].counts)
    /\ FolderRequestsOK
    /\ folder_events \subseteq FolderEvents
    /\ folder_faults \in 0 .. MaxFolderFaults

NoFolders == [f \in {} |-> [total |-> 0, unread |-> 0]]

\* scripts/add-account.sh lists the system folders, CreateAccount lists none.
FolderInit ==
    /\ folder_view = [f \in Listed |-> [total |-> 0, unread |-> 0]]
    /\ sync = [s \in Syncs |-> [stage |-> "idle", counts |-> NoFolders]]
    /\ folder_req = [r \in FolderRequests |-> [stage |-> "idle", name |-> ""]]
    /\ folder_events = {}
    /\ folder_faults = 0

FolderFail(kind) ==
    /\ kind \in FolderFaults
    /\ folder_faults < MaxFolderFaults
    /\ folder_faults' = folder_faults + 1

LogFolder(event) == folder_events' = folder_events \cup {event}

------------------------------------------------------------------------------
(* The reconciler.                                                         *)

\* Rows of folder f that count.
Live(f) == {i \in DOMAIN message_view :
              message_view[i].folder = f /\ ~message_view[i].is_deleted}

CountsOf(f) == [total |-> Cardinality(Live(f)),
                unread |-> Cardinality({i \in Live(f) : ~message_view[i].is_read})]

\* GROUP BY folder: a folder without rows is in no group.
GroupedCounts == [f \in {g \in Folders : Live(g) # {}} |-> CountsOf(f)]

SyncGoTo(s, stage) == sync' = [sync EXCEPT ![s].stage = stage]

\* A tick.  Connecting, logging in and visiting the folders changes nothing,
\* and ends the goroutine if it fails.
StartSync(s) ==
    /\ sync[s].stage = "idle"
    /\ SyncGoTo(s, "read")
    /\ UNCHANGED <<folder_view, folder_req, folder_events, folder_faults>>

ConnectSyncFails(s) ==
    /\ sync[s].stage = "read"
    /\ FolderFail("connect")
    /\ SyncGoTo(s, "idle")
    /\ UNCHANGED <<folder_view, folder_req, folder_events>>

ReadCounts(s) ==
    /\ sync[s].stage = "read"
    /\ sync' = [sync EXCEPT ![s] = [stage |-> "write", counts |-> GroupedCounts]]
    /\ UNCHANGED <<folder_view, folder_req, folder_events, folder_faults>>

\* (Mutant.) ON CONFLICT DO NOTHING, as in InsertFolder.
WriteNewCounts(s) ==
    /\ sync[s].stage = "write"
    /\ LET counts == sync[s].counts IN
       folder_view' = [f \in DOMAIN counts \cup DOMAIN folder_view |->
                         IF f \in DOMAIN folder_view THEN folder_view[f] ELSE counts[f]]
    /\ sync' = [sync EXCEPT ![s] = [stage |-> "event", counts |-> NoFolders]]
    /\ UNCHANGED <<folder_req, folder_events, folder_faults>>

\* ON CONFLICT DO UPDATE: the counts read replace those of the folder.
WriteCounts(s) ==
    /\ sync[s].stage = "write"
    /\ LET counts == sync[s].counts IN
       folder_view' = [f \in DOMAIN counts \cup DOMAIN folder_view |->
                         IF f \in DOMAIN counts THEN counts[f] ELSE folder_view[f]]
    /\ sync' = [sync EXCEPT ![s] = [stage |-> "event", counts |-> NoFolders]]
    /\ UNCHANGED <<folder_req, folder_events, folder_faults>>

\* The error is logged, and the reconciliation is announced as completed.
RefreshFails(s) ==
    /\ sync[s].stage \in {"read", "write"}
    /\ FolderFail("refresh")
    /\ sync' = [sync EXCEPT ![s] = [stage |-> "event", counts |-> NoFolders]]
    /\ UNCHANGED <<folder_view, folder_req, folder_events>>

EmitReconciled(s) ==
    /\ sync[s].stage = "event"
    /\ LogFolder([type |-> "ReconcileCompleted"])
    /\ SyncGoTo(s, "idle")
    /\ UNCHANGED <<folder_view, folder_req, folder_faults>>

EmitReconciledFails(s) ==
    /\ sync[s].stage = "event"
    /\ FolderFail("emit")
    /\ SyncGoTo(s, "idle")
    /\ UNCHANGED <<folder_view, folder_req, folder_events>>

ReconcilerCrash ==
    /\ FolderFail("crash")
    /\ sync' = [s \in Syncs |-> [stage |-> "idle", counts |-> NoFolders]]
    /\ UNCHANGED <<folder_view, folder_req, folder_events>>

SyncStep(s) == StartSync(s) \/ ReadCounts(s) \/ WriteCounts(s) \/ EmitReconciled(s)

SyncFault(s) == ConnectSyncFails(s) \/ RefreshFails(s) \/ EmitReconciledFails(s)

------------------------------------------------------------------------------
(* The folder handlers.                                                    *)

\* (Mutant.) Trash is missing from the list.
ProtectedButTrash == {"INBOX", "Sent", "Drafts", "Archive"}

Protected == {"INBOX", "Sent", "Trash", "Drafts", "Archive"}

FolderGoTo(r, stage) == folder_req' = [folder_req EXCEPT ![r].stage = stage]

FolderDone(r) == folder_req' = [folder_req EXCEPT ![r] = [stage |-> "done", name |-> ""]]

\* (Mutant.) The name is not checked.
BeginCreateUnchecked(r) ==
    /\ folder_req[r].stage = "idle"
    /\ \E name \in FolderNames \cup {""} :
          folder_req' = [folder_req EXCEPT ![r] = [stage |-> "insert", name |-> name]]
    /\ UNCHANGED <<folder_view, sync, folder_events, folder_faults>>

\* A request without a name is refused.
BeginCreate(r) ==
    /\ folder_req[r].stage = "idle"
    /\ \E name \in FolderNames :
          folder_req' = [folder_req EXCEPT ![r] = [stage |-> "insert", name |-> name]]
    /\ UNCHANGED <<folder_view, sync, folder_events, folder_faults>>

\* On conflict it does nothing, and the event follows all the same.
InsertFolder(r) ==
    /\ folder_req[r].stage = "insert"
    /\ folder_view' = [f \in DOMAIN folder_view \cup {folder_req[r].name} |->
                         IF f \in DOMAIN folder_view
                         THEN folder_view[f]
                         ELSE [total |-> 0, unread |-> 0]]
    /\ FolderGoTo(r, "insertEvent")
    /\ UNCHANGED <<sync, folder_events, folder_faults>>

EmitCreated(r) ==
    /\ folder_req[r].stage = "insertEvent"
    /\ LogFolder([type |-> "FolderCreated", folder |-> folder_req[r].name])
    /\ FolderDone(r)
    /\ UNCHANGED <<folder_view, sync, folder_faults>>

\* A protected folder is refused before any statement.
BeginDelete(r) ==
    /\ folder_req[r].stage = "idle"
    /\ \E name \in FolderNames :
          IF name \in Protected
          THEN FolderDone(r)
          ELSE folder_req' = [folder_req EXCEPT ![r] = [stage |-> "count", name |-> name]]
    /\ UNCHANGED <<folder_view, sync, folder_events, folder_faults>>

\* The count takes rows of any kind; above zero the request is refused.
CountRows(r) ==
    /\ folder_req[r].stage = "count"
    /\ IF \E i \in DOMAIN message_view : message_view[i].folder = folder_req[r].name
       THEN FolderDone(r)
       ELSE FolderGoTo(r, "remove")
    /\ UNCHANGED <<folder_view, sync, folder_events, folder_faults>>

\* The error is dropped and count stays 0.
CountRowsFails(r) ==
    /\ folder_req[r].stage = "count"
    /\ FolderFail("count")
    /\ FolderGoTo(r, "remove")
    /\ UNCHANGED <<folder_view, sync, folder_events>>

RemoveFolder(r) ==
    /\ folder_req[r].stage = "remove"
    /\ folder_view' = [f \in DOMAIN folder_view \ {folder_req[r].name} |-> folder_view[f]]
    /\ FolderGoTo(r, "removeEvent")
    /\ UNCHANGED <<sync, folder_events, folder_faults>>

\* The error is dropped and the event follows all the same.
RemoveFolderFails(r) ==
    /\ folder_req[r].stage = "remove"
    /\ FolderFail("remove")
    /\ FolderGoTo(r, "removeEvent")
    /\ UNCHANGED <<folder_view, sync, folder_events>>

EmitRemoved(r) ==
    /\ folder_req[r].stage = "removeEvent"
    /\ LogFolder([type |-> "FolderDeleted", folder |-> folder_req[r].name])
    /\ FolderDone(r)
    /\ UNCHANGED <<folder_view, sync, folder_faults>>

\* The insert or an event fails, or the request is cut off: nothing follows.
FolderRequestFails(r) ==
    /\ folder_req[r].stage \notin {"idle", "done"}
    /\ FolderFail("request")
    /\ FolderDone(r)
    /\ UNCHANGED <<folder_view, sync, folder_events>>

------------------------------------------------------------------------------

FolderNext ==
    \/ \E s \in Syncs : SyncStep(s) \/ SyncFault(s)
    \/ ReconcilerCrash
    \/ \E r \in FolderRequests :
          \/ BeginCreate(r) \/ InsertFolder(r) \/ EmitCreated(r)
          \/ BeginDelete(r) \/ CountRows(r) \/ CountRowsFails(r)
          \/ RemoveFolder(r) \/ RemoveFolderFails(r) \/ EmitRemoved(r)
          \/ FolderRequestFails(r)

==============================================================================
