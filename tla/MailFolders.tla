------------------------------ MODULE MailFolders ------------------------------
(***************************************************************************)
(* The mail pipeline together with the folder summary: watcher and message *)
(* handlers write message_view, the reconciler counts it while they do.    *)
(***************************************************************************)
EXTENDS MailSync, FolderView

FoldersInit == Init /\ FolderInit

FoldersNext ==
    \/ Next /\ UNCHANGED folderVars
    \/ FolderNext /\ UNCHANGED vars

\* The tickers never stop, and a goroutine they start is scheduled.
FolderFairness == \A s \in Syncs : WF_<<vars, folderVars>>(SyncStep(s) /\ UNCHANGED vars)

FoldersSpec ==
    /\ FoldersInit
    /\ [][FoldersNext]_<<vars, folderVars>>
    /\ Fairness
    /\ FolderFairness

------------------------------------------------------------------------------

\* A folder that holds a message is never unlisted.  Delete checks that the
\* folder is empty and removes it in two statements, between which a message
\* may enter; what keeps the promise is that the folders rows can enter are all
\* protected (Delete in folders.go, the statements that write folder).
MailFoldersStay ==
    [][\A f \in DOMAIN folder_view :
          (\E i \in DOMAIN message_view : message_view[i].folder = f)
             => f \in DOMAIN folder_view']_folder_view

\* Makes MailFoldersStay inductive: no request is about to remove a protected
\* folder.
RemovesUnprotected ==
    \A r \in FolderRequests :
        folder_req[r].stage \in {"count", "remove"} => folder_req[r].name \notin Protected

\* Folder f is listed with the counts of its rows.
Counted(f) == f \in DOMAIN folder_view /\ folder_view[f] = CountsOf(f)

\* "Counts are derived from message_view" (migrations/005:3): once its rows no
\* longer change, a folder that holds one is listed with its true counts,
\* although refreshes overlap and an older one may write last.
CountsConverge == <>[](\A f \in Folders : Live(f) # {} => Counted(f))

==============================================================================
