-------------------------- MODULE MailFoldersProofs ---------------------------
(***************************************************************************)
(* Proofs about MailFolders: composing the pipeline with the folder        *)
(* summary keeps the pipeline's guarantees, and a folder that holds a      *)
(* message stays listed.                                                   *)
(***************************************************************************)
EXTENDS MailFolders, MailSyncProofs, FiniteSetTheorems

\* A step of the composed system is a step of the pipeline or leaves it alone.
LEMMA PipelineStep ==
    [FoldersNext]_<<vars, folderVars>> => [Next]_vars
  BY DEF FoldersNext

\* The folder side only reads what the pipeline writes: by the shape of FoldersSpec
\* what holds of MailSync holds of the composition.
LEMMA FoldersImplementMailSync == FoldersSpec => Spec
  BY PipelineStep, PTL DEF FoldersSpec, FoldersInit, Spec

FolderInv == FolderRequestsOK /\ RemovesUnprotected

\* Assigning one entry of a function.
LEMMA AssignEntry ==
    ASSUME NEW D, NEW E, NEW f \in [D -> E], NEW d \in D, NEW e \in E
    PROVE  /\ [f EXCEPT ![d] = e] \in [D -> E]
           /\ \A q \in D : [f EXCEPT ![d] = e][q] = IF q = d THEN e ELSE f[q]
  OBVIOUS

\* Assigning the stage of a request keeps its name.
LEMMA AssignStage ==
    ASSUME NEW S, NEW T, NEW e \in [stage: S, name: T], NEW st \in S
    PROVE  [e EXCEPT !.stage = st] = [stage |-> st, name |-> e.name]
  OBVIOUS

\* FolderInv holds initially.
LEMMA FolderInvInit == FolderInit => FolderInv
  <1> SUFFICES ASSUME FolderInit PROVE FolderInv
    OBVIOUS
  <1> DEFINE entry == [stage |-> "idle", name |-> ""]
  <1>1. /\ entry \in [stage: FolderStages, name: FolderNames \cup {""}]
        /\ entry.stage = "idle"
    BY DEF FolderStages
  <1>2. folder_req = [r \in FolderRequests |-> entry]
    BY DEF FolderInit
  <1> HIDE DEF entry
  <1> QED BY <1>1, <1>2 DEF FolderInv, FolderRequestsOK, RemovesUnprotected

\* A request that goes on to a stage after the protected check keeps FolderInv.
LEMMA FolderInvStep ==
    ASSUME FolderInv, NEW r \in FolderRequests, NEW st \in FolderStages,
           NEW nm \in FolderNames \cup {""},
           st \notin {"idle", "done"} => nm \in FolderNames,
           st \in {"count", "remove"} => nm \notin Protected,
           folder_req' = [folder_req EXCEPT ![r] = [stage |-> st, name |-> nm]]
    PROVE  FolderInv'
  <1> DEFINE entry == [stage |-> st, name |-> nm]
             entries == [stage: FolderStages, name: FolderNames \cup {""}]
  <1>0. folder_req \in [FolderRequests -> entries]
    BY DEF FolderInv, FolderRequestsOK
  <1>1. /\ entry \in [stage: FolderStages, name: FolderNames \cup {""}]
        /\ entry.stage = st /\ entry.name = nm
    OBVIOUS
  <1>2. folder_req' = [folder_req EXCEPT ![r] = entry]
    OBVIOUS
  <1>3. /\ folder_req' \in [FolderRequests -> entries]
        /\ \A q \in FolderRequests : folder_req'[q] = IF q = r THEN entry ELSE folder_req[q]
    <2>1. entry \in entries
      BY <1>1
    <2> HIDE DEF entry, entries
    <2>2. /\ [folder_req EXCEPT ![r] = entry] \in [FolderRequests -> entries]
          /\ \A q \in FolderRequests :
                [folder_req EXCEPT ![r] = entry][q] = IF q = r THEN entry ELSE folder_req[q]
      BY <1>0, <2>1, AssignEntry
    <2> QED BY <1>2, <2>2, Zenon
  <1> HIDE DEF entry
  <1> QED BY <1>1, <1>3 DEF FolderInv, FolderRequestsOK, RemovesUnprotected

\* Every step of the folder side preserves FolderInv.
LEMMA FolderInvNext == FolderInv /\ [FolderNext]_folderVars => FolderInv'
  <1> SUFFICES ASSUME FolderInv, [FolderNext]_folderVars PROVE FolderInv'
    OBVIOUS
  <1>1. CASE UNCHANGED folder_req
    BY <1>1 DEF FolderInv, FolderRequestsOK, RemovesUnprotected
  <1>2. ASSUME NEW r \in FolderRequests,
               \/ BeginCreate(r) \/ InsertFolder(r) \/ EmitCreated(r)
               \/ BeginDelete(r) \/ CountRows(r) \/ CountRowsFails(r)
               \/ RemoveFolder(r) \/ RemoveFolderFails(r) \/ EmitRemoved(r)
               \/ FolderRequestFails(r)
        PROVE  FolderInv'
    <2>0. folder_req[r] \in [stage: FolderStages, name: FolderNames \cup {""}]
      BY DEF FolderInv, FolderRequestsOK
    <2>1. CASE FolderDone(r)
      BY <2>1, FolderInvStep DEF FolderDone, FolderStages
    <2>2. CASE BeginCreate(r)
      <3>1. PICK nm \in FolderNames :
               folder_req' = [folder_req EXCEPT ![r] = [stage |-> "insert", name |-> nm]]
        BY <2>2 DEF BeginCreate
      <3> QED BY <3>1, FolderInvStep DEF FolderStages
    <2>3. CASE BeginDelete(r) /\ ~FolderDone(r)
      <3>1. PICK nm \in FolderNames :
               /\ nm \notin Protected
               /\ folder_req' = [folder_req EXCEPT ![r] = [stage |-> "count", name |-> nm]]
        BY <2>3 DEF BeginDelete
      <3> QED BY <3>1, FolderInvStep DEF FolderStages
    <2>4. ASSUME NEW st \in FolderStages \ {"idle", "done"}, FolderGoTo(r, st),
                 folder_req[r].stage \notin {"idle", "done"},
                 st \in {"count", "remove"} => folder_req[r].stage \in {"count", "remove"}
          PROVE  FolderInv'
      <3>1. folder_req' = [folder_req EXCEPT ![r] = [stage |-> st, name |-> folder_req[r].name]]
        <4>1. [folder_req[r] EXCEPT !.stage = st] = [stage |-> st, name |-> folder_req[r].name]
          BY <2>0, AssignStage
        <4> QED BY <2>4, <4>1 DEF FolderGoTo
      <3>2. folder_req[r].name \in FolderNames
        BY <2>4 DEF FolderInv, FolderRequestsOK
      <3>3. st \in {"count", "remove"} => folder_req[r].name \notin Protected
        BY <2>4 DEF FolderInv, RemovesUnprotected
      <3> QED BY <3>1, <3>2, <3>3, FolderInvStep
    <2>5. CASE \/ InsertFolder(r) \/ (CountRows(r) /\ ~FolderDone(r)) \/ CountRowsFails(r)
               \/ RemoveFolder(r) \/ RemoveFolderFails(r)
      BY <2>4, <2>5 DEF InsertFolder, CountRows, CountRowsFails, RemoveFolder,
                        RemoveFolderFails, FolderStages
    <2>6. CASE EmitCreated(r) \/ EmitRemoved(r) \/ FolderRequestFails(r)
      BY <2>1, <2>6 DEF EmitCreated, EmitRemoved, FolderRequestFails
    <2> QED BY <1>2, <2>1, <2>2, <2>3, <2>5, <2>6
  <1>3. ASSUME NEW s \in Syncs, SyncStep(s) \/ SyncFault(s)
        PROVE  UNCHANGED folder_req
    BY <1>3 DEF SyncStep, SyncFault, StartSync, ConnectSyncFails, ReadCounts, WriteCounts,
                RefreshFails, EmitReconciled, EmitReconciledFails
  <1>4. CASE ReconcilerCrash \/ UNCHANGED folderVars
    BY <1>1, <1>4 DEF ReconcilerCrash, folderVars
  <1> QED BY <1>1, <1>2, <1>3, <1>4 DEF FolderNext

\* A step that unlists a folder unlists an unprotected one.
LEMMA UnlistsUnprotected ==
    ASSUME FolderInv, FolderNext, NEW f \in DOMAIN folder_view, f \notin DOMAIN folder_view'
    PROVE  f \notin Protected
  <1>1. PICK r \in FolderRequests : RemoveFolder(r)
    <2>1. ASSUME NEW s \in Syncs, SyncStep(s) \/ SyncFault(s)
          PROVE  FALSE
      BY <2>1 DEF SyncStep, SyncFault, StartSync, ConnectSyncFails, ReadCounts, WriteCounts,
                  RefreshFails, EmitReconciled, EmitReconciledFails
    <2>2. ~ReconcilerCrash
      BY DEF ReconcilerCrash
    <2>3. ASSUME NEW r \in FolderRequests,
                 \/ BeginCreate(r) \/ InsertFolder(r) \/ EmitCreated(r)
                 \/ BeginDelete(r) \/ CountRows(r) \/ CountRowsFails(r)
                 \/ RemoveFolderFails(r) \/ EmitRemoved(r) \/ FolderRequestFails(r)
          PROVE  FALSE
      BY <2>3 DEF BeginCreate, InsertFolder, EmitCreated, BeginDelete, CountRows,
                  CountRowsFails, RemoveFolderFails, EmitRemoved, FolderRequestFails
    <2> QED BY <2>1, <2>2, <2>3 DEF FolderNext
  <1>2. f = folder_req[r].name
    BY <1>1 DEF RemoveFolder
  <1> QED BY <1>1, <1>2 DEF RemoveFolder, FolderInv, RemovesUnprotected

\* A folder that holds a message is never unlisted, however the two statements
\* of a delete interleave with moves and scans: rows only enter folders that
\* Delete protects.
THEOREM MailFoldersStayCorrect == FoldersSpec => MailFoldersStay
  <1>1. FolderInv /\ TypeOK /\ [FoldersNext]_<<vars, folderVars>>
           => [\A f \in DOMAIN folder_view :
                 (\E i \in DOMAIN message_view : message_view[i].folder = f)
                    => f \in DOMAIN folder_view']_folder_view
    <2> SUFFICES ASSUME FolderInv, TypeOK, FolderNext,
                        NEW f \in DOMAIN folder_view, f \notin DOMAIN folder_view',
                        NEW i \in DOMAIN message_view, message_view[i].folder = f
                 PROVE  FALSE
      BY DEF FoldersNext, folderVars
    <2>1. message_view[i] \in Row
      BY RowIsRecord DEF TypeOK, StoreTypeOK
    <2>2. f \in Protected
      BY <2>1 DEF Row, Folders, Protected
    <2> QED BY <2>2, UnlistsUnprotected
  <1>2. FolderInv /\ [FoldersNext]_<<vars, folderVars>> => FolderInv'
    BY FolderInvNext DEF FoldersNext
  <1>3. FoldersInit => FolderInv
    BY FolderInvInit DEF FoldersInit
  <1>4. FoldersSpec => []TypeOK
    BY FoldersImplementMailSync, TypeCorrect, PTL
  <1> QED BY <1>1, <1>2, <1>3, <1>4, PTL DEF FoldersSpec, MailFoldersStay

------------------------------------------------------------------------------
(* Type correctness of the folder side.                                     *)

\* The counts of a folder are numbers, for its rows are finitely many.
LEMMA CountsType ==
    ASSUME message_view \in Seq(Row), NEW f
    PROVE  CountsOf(f) \in Counts
  <1> DEFINE unread == {i \in Live(f) : ~message_view[i].is_read}
  <1>1. IsFiniteSet(1 .. Len(message_view))
    BY LenProperties, FS_Interval
  <1>2. Live(f) \subseteq 1 .. Len(message_view) /\ unread \subseteq Live(f)
    BY LenProperties DEF Live
  <1>3. Cardinality(Live(f)) \in Nat /\ Cardinality(unread) \in Nat
    BY <1>1, <1>2, FS_Subset, FS_CardinalityType
  <1>4. CountsOf(f) = [total |-> Cardinality(Live(f)), unread |-> Cardinality(unread)]
    BY DEF CountsOf
  <1> HIDE DEF unread
  <1> QED BY <1>3, <1>4 DEF Counts

LEMMA NoFoldersSummary == IsSummary(NoFolders)
  BY DEF IsSummary, NoFolders

LEMMA GroupedSummary ==
    ASSUME message_view \in Seq(Row)
    PROVE  IsSummary(GroupedCounts)
  <1>1. DOMAIN GroupedCounts \subseteq Names
    BY DEF GroupedCounts, Folders, Names, SystemFolders
  <1>2. ASSUME NEW f \in DOMAIN GroupedCounts PROVE GroupedCounts[f] \in Counts
    BY CountsType DEF GroupedCounts
  <1> QED BY <1>1, <1>2 DEF IsSummary

\* One summary over another.
LEMMA MergedSummary ==
    ASSUME NEW t, NEW u, IsSummary(t), IsSummary(u)
    PROVE  IsSummary([f \in DOMAIN t \cup DOMAIN u |->
                        IF f \in DOMAIN t THEN t[f] ELSE u[f]])
  BY DEF IsSummary

\* Each goroutine of the reconciler is a stage and a summary.
SyncTypeOK ==
    /\ DOMAIN sync = Syncs
    /\ \A s \in Syncs : sync[s].stage \in SyncStages /\ IsSummary(sync[s].counts)
    /\ sync = [s \in Syncs |-> [stage |-> sync[s].stage, counts |-> sync[s].counts]]

LEMMA AssignSync ==
    ASSUME SyncTypeOK, NEW s \in Syncs, NEW st \in SyncStages, NEW c, IsSummary(c),
           sync' = [sync EXCEPT ![s] = [stage |-> st, counts |-> c]]
    PROVE  SyncTypeOK'
  <1> DEFINE entry == [stage |-> st, counts |-> c]
  <1>1. entry.stage = st /\ entry.counts = c
    OBVIOUS
  <1>2. entry = [stage |-> entry.stage, counts |-> entry.counts]
    OBVIOUS
  <1>3. sync' = [q \in Syncs |-> IF q = s THEN entry ELSE sync[q]]
    BY DEF SyncTypeOK
  <1> HIDE DEF entry
  <1>4. ASSUME NEW q \in Syncs
        PROVE  /\ sync'[q].stage \in SyncStages /\ IsSummary(sync'[q].counts)
               /\ sync'[q] = [stage |-> sync'[q].stage, counts |-> sync'[q].counts]
    <2>1. sync[q] = [stage |-> sync[q].stage, counts |-> sync[q].counts]
      BY DEF SyncTypeOK
    <2>2. CASE q = s
      BY <1>1, <1>2, <1>3, <2>2
    <2>3. CASE q # s
      <3>1. sync'[q] = sync[q]
        BY <1>3, <2>3
      <3> QED BY <2>1, <3>1 DEF SyncTypeOK
    <2> QED BY <2>2, <2>3
  <1>5. \A q \in Syncs : IsSummary(sync'[q].counts)
    BY <1>4
  <1>6. sync' = [q \in Syncs |-> [stage |-> sync'[q].stage, counts |-> sync'[q].counts]]
    BY <1>3, <1>4
  <1> QED BY <1>3, <1>4, <1>5, <1>6 DEF SyncTypeOK, IsSummary

LEMMA SyncGoesTo ==
    ASSUME SyncTypeOK, NEW s \in Syncs, NEW st \in SyncStages, SyncGoTo(s, st)
    PROVE  SyncTypeOK'
  <1>1. sync[s] = [stage |-> sync[s].stage, counts |-> sync[s].counts]
        /\ IsSummary(sync[s].counts)
    BY DEF SyncTypeOK
  <1>2. [sync[s] EXCEPT !.stage = st] = [stage |-> st, counts |-> sync[s].counts]
    BY <1>1
  <1>3. sync' = [sync EXCEPT ![s] = [stage |-> st, counts |-> sync[s].counts]]
    BY <1>2 DEF SyncGoTo
  <1> QED BY <1>1, <1>3, AssignSync

LEMMA FolderFailType ==
    ASSUME folder_faults \in 0 .. MaxFolderFaults, NEW kind, FolderFail(kind)
    PROVE  folder_faults' \in 0 .. MaxFolderFaults
  <1>1. folder_faults < MaxFolderFaults /\ folder_faults' = folder_faults + 1
    BY DEF FolderFail
  <1> QED BY <1>1, MaxFolderFaultsAssumption

\* What FolderTypeOK says, with the shape of the goroutines and without the
\* requests.
FolderRestOK ==
    /\ IsSummary(folder_view)
    /\ SyncTypeOK
    /\ folder_events \subseteq FolderEvents
    /\ folder_faults \in 0 .. MaxFolderFaults

LEMMA FolderRestInit == FolderInit => FolderRestOK
  <1> SUFFICES ASSUME FolderInit PROVE FolderRestOK
    OBVIOUS
  <1>1. IsSummary(folder_view)
    <2>1. [total |-> 0, unread |-> 0] \in Counts
      BY DEF Counts
    <2> QED BY <2>1, ListedAssumption DEF FolderInit, IsSummary, Names
  <1>2. SyncTypeOK
    BY NoFoldersSummary DEF FolderInit, SyncTypeOK, SyncStages
  <1>3. folder_faults \in 0 .. MaxFolderFaults
    <2>1. folder_faults = 0
      BY DEF FolderInit
    <2> QED BY <2>1, MaxFolderFaultsAssumption
  <1> QED BY <1>1, <1>2, <1>3 DEF FolderInit, FolderRestOK

\* The steps of the reconciler.
LEMMA SyncStepType ==
    ASSUME message_view \in Seq(Row), FolderRestOK, NEW s \in Syncs,
           SyncStep(s) \/ SyncFault(s)
    PROVE  FolderRestOK'
  <1> USE DEF FolderRestOK
  <1>1. CASE StartSync(s) \/ ConnectSyncFails(s) \/ EmitReconciledFails(s)
    <2>1. SyncTypeOK'
      BY <1>1, SyncGoesTo DEF StartSync, ConnectSyncFails, EmitReconciledFails, SyncStages
    <2>2. folder_faults' \in 0 .. MaxFolderFaults
      BY <1>1, FolderFailType DEF StartSync, ConnectSyncFails, EmitReconciledFails
    <2>3. UNCHANGED <<folder_view, folder_events>>
      BY <1>1 DEF StartSync, ConnectSyncFails, EmitReconciledFails
    <2> QED BY <2>1, <2>2, <2>3 DEF IsSummary
  <1>2. CASE ReadCounts(s)
    <2>1. SyncTypeOK'
      BY <1>2, GroupedSummary, AssignSync DEF ReadCounts, SyncStages
    <2> QED BY <1>2, <2>1 DEF ReadCounts, IsSummary
  <1>3. CASE WriteCounts(s)
    <2>1. SyncTypeOK'
      BY <1>3, NoFoldersSummary, AssignSync DEF WriteCounts, SyncStages
    <2>2. IsSummary(sync[s].counts)
      BY DEF SyncTypeOK
    <2> DEFINE counts == sync[s].counts
               merged == [f \in DOMAIN counts \cup DOMAIN folder_view |->
                            IF f \in DOMAIN counts THEN counts[f] ELSE folder_view[f]]
    <2>3. folder_view' = merged
      BY <1>3 DEF WriteCounts
    <2>4. IsSummary(merged)
      BY <2>2, MergedSummary
    <2> HIDE DEF merged
    <2>5. IsSummary(folder_view')
      BY <2>3, <2>4
    <2> QED BY <1>3, <2>1, <2>5 DEF WriteCounts, IsSummary
  <1>4. CASE RefreshFails(s)
    <2>1. SyncTypeOK'
      BY <1>4, NoFoldersSummary, AssignSync DEF RefreshFails, SyncStages
    <2>2. folder_faults' \in 0 .. MaxFolderFaults
      BY <1>4, FolderFailType DEF RefreshFails
    <2> QED BY <1>4, <2>1, <2>2 DEF RefreshFails, IsSummary
  <1>5. CASE EmitReconciled(s)
    <2>1. SyncTypeOK'
      BY <1>5, SyncGoesTo DEF EmitReconciled, SyncStages
    <2>2. folder_events' \subseteq FolderEvents
      BY <1>5 DEF EmitReconciled, LogFolder, FolderEvents
    <2> QED BY <1>5, <2>1, <2>2 DEF EmitReconciled, IsSummary
  <1> QED BY <1>1, <1>2, <1>3, <1>4, <1>5 DEF SyncStep, SyncFault

\* The statements of the handlers.
LEMMA FolderRequestType ==
    ASSUME FolderRequestsOK, FolderRestOK, NEW r \in FolderRequests,
           \/ BeginCreate(r) \/ InsertFolder(r) \/ EmitCreated(r)
           \/ BeginDelete(r) \/ CountRows(r) \/ CountRowsFails(r)
           \/ RemoveFolder(r) \/ RemoveFolderFails(r) \/ EmitRemoved(r)
           \/ FolderRequestFails(r)
    PROVE  FolderRestOK'
  <1> USE DEF FolderRestOK
  <1>0. folder_req[r].stage \notin {"idle", "done"} => folder_req[r].name \in FolderNames
    BY DEF FolderRequestsOK
  <1>1. SyncTypeOK'
    <2>1. UNCHANGED sync
      BY DEF BeginCreate, InsertFolder, EmitCreated, BeginDelete, CountRows,
             CountRowsFails, RemoveFolder, RemoveFolderFails, EmitRemoved,
             FolderRequestFails
    <2> QED BY <2>1 DEF SyncTypeOK, IsSummary
  <1>2. CASE BeginCreate(r) \/ BeginDelete(r) \/ CountRows(r)
    <2>1. UNCHANGED <<folder_view, folder_events, folder_faults>>
      BY <1>2 DEF BeginCreate, BeginDelete, CountRows
    <2> QED BY <1>1, <2>1 DEF IsSummary
  <1>3. CASE CountRowsFails(r) \/ RemoveFolderFails(r) \/ FolderRequestFails(r)
    <2>1. UNCHANGED <<folder_view, folder_events>>
      BY <1>3 DEF CountRowsFails, RemoveFolderFails, FolderRequestFails
    <2>2. folder_faults' \in 0 .. MaxFolderFaults
      BY <1>3, FolderFailType DEF CountRowsFails, RemoveFolderFails, FolderRequestFails
    <2> QED BY <1>1, <2>1, <2>2 DEF IsSummary
  <1>4. CASE InsertFolder(r)
    <2>1. folder_req[r].name \in Names
      BY <1>0, <1>4 DEF InsertFolder, Names
    <2>2. [total |-> 0, unread |-> 0] \in Counts
      BY DEF Counts
    <2>3. IsSummary(folder_view')
      BY <1>4, <2>1, <2>2 DEF InsertFolder, IsSummary
    <2> QED BY <1>1, <1>4, <2>3 DEF InsertFolder, IsSummary
  <1>5. CASE RemoveFolder(r)
    <2>1. IsSummary(folder_view')
      BY <1>5 DEF RemoveFolder, IsSummary
    <2> QED BY <1>1, <1>5, <2>1 DEF RemoveFolder, IsSummary
  <1>6. CASE EmitCreated(r) \/ EmitRemoved(r)
    <2>1. folder_req[r].name \in FolderNames
      BY <1>0, <1>6 DEF EmitCreated, EmitRemoved
    <2>2. folder_events' \subseteq FolderEvents
      BY <1>6, <2>1 DEF EmitCreated, EmitRemoved, LogFolder, FolderEvents
    <2>3. UNCHANGED <<folder_view, folder_faults>>
      BY <1>6 DEF EmitCreated, EmitRemoved
    <2> QED BY <1>1, <2>2, <2>3 DEF IsSummary
  <1> QED BY <1>2, <1>3, <1>4, <1>5, <1>6

LEMMA FolderRestNext ==
    TypeOK /\ FolderRequestsOK /\ FolderRestOK /\ [FolderNext]_folderVars
        => FolderRestOK'
  <1> SUFFICES ASSUME TypeOK, FolderRequestsOK, FolderRestOK, [FolderNext]_folderVars
               PROVE  FolderRestOK'
    OBVIOUS
  <1>1. message_view \in Seq(Row)
    BY DEF TypeOK, StoreTypeOK
  <1>2. ASSUME NEW s \in Syncs, SyncStep(s) \/ SyncFault(s) PROVE FolderRestOK'
    BY <1>1, <1>2, SyncStepType
  <1>3. CASE ReconcilerCrash
    <2>1. SyncTypeOK'
      BY <1>3, NoFoldersSummary DEF ReconcilerCrash, SyncTypeOK, SyncStages, IsSummary
    <2>2. folder_faults' \in 0 .. MaxFolderFaults
      BY <1>3, FolderFailType DEF ReconcilerCrash, FolderRestOK
    <2> QED BY <1>3, <2>1, <2>2 DEF ReconcilerCrash, FolderRestOK, IsSummary
  <1>4. CASE UNCHANGED folderVars
    BY <1>4 DEF folderVars, FolderRestOK, SyncTypeOK, IsSummary
  <1> QED BY <1>2, <1>3, <1>4, FolderRequestType DEF FolderNext

\* The state of the folder side is of the declared shape: every listed folder is
\* one of the system or one a client has named, and its counts are numbers.
THEOREM FolderTypeCorrect == FoldersSpec => []FolderTypeOK
  <1>1. FolderRequestsOK /\ FolderRestOK => FolderTypeOK
    BY DEF FolderRestOK, SyncTypeOK, FolderTypeOK
  <1>2. FolderInv => FolderRequestsOK
    BY DEF FolderInv
  <1>3. FolderInv /\ [FoldersNext]_<<vars, folderVars>> => FolderInv'
    BY FolderInvNext DEF FoldersNext
  <1>4. ASSUME TypeOK, FolderRequestsOK, FolderRestOK,
               [FoldersNext]_<<vars, folderVars>>
        PROVE  FolderRestOK'
    BY <1>4, FolderRestNext DEF FoldersNext
  <1>5. FoldersInit => FolderInv /\ FolderRestOK
    BY FolderInvInit, FolderRestInit DEF FoldersInit
  <1>6. FoldersSpec => []TypeOK
    BY FoldersImplementMailSync, TypeCorrect, PTL
  <1> QED BY <1>1, <1>2, <1>3, <1>4, <1>5, <1>6, PTL DEF FoldersSpec

==============================================================================
