---------------------------- MODULE MailSyncProofs ----------------------------
(***************************************************************************)
(* Proofs about MailSync, for every value of its constants.                *)
(*                                                                         *)
(*   1. what each SQL statement does to message_view (ViewStep)            *)
(*   2. type correctness                                                   *)
(*   3. BackedInv: unique keys, and every event names a stored message     *)
(*   4. AnnounceInv: a message is announced once, and once more at most    *)
(*      after a move to Trash                                              *)
(*   5. ContentInv: where a row without body, and a read flag, come from   *)
(*   6. the refinement of MailLifecycle                                    *)
(***************************************************************************)
EXTENDS MailSync, SequenceTheorems, TLAPS

\* The statements on message_view, seen as state changes: nothing, one more
\* row at the end, or one row replaced.
LEMMA AppendRow ==
    ASSUME NEW S, NEW s \in Seq(S), NEW e \in S
    PROVE  /\ Append(s, e) \in Seq(S)
           /\ Len(Append(s, e)) = Len(s) + 1
           /\ DOMAIN s = 1 .. Len(s)
           /\ DOMAIN Append(s, e) = 1 .. Len(s) + 1
           /\ \A i \in 1 .. Len(s) : Append(s, e)[i] = s[i]
           /\ Append(s, e)[Len(s) + 1] = e
  BY AppendProperties, LenProperties

\* Replacing one element changes that element only.
LEMMA ReplaceRow ==
    ASSUME NEW S, NEW s \in Seq(S), NEW i \in DOMAIN s, NEW e \in S
    PROVE  /\ [s EXCEPT ![i] = e] \in Seq(S)
           /\ Len([s EXCEPT ![i] = e]) = Len(s)
           /\ DOMAIN [s EXCEPT ![i] = e] = DOMAIN s
           /\ \A j \in DOMAIN s : [s EXCEPT ![i] = e][j] = IF j = i THEN e ELSE s[j]
  BY ExceptSeq, LenProperties

\* An element of message_view is a row.
LEMMA RowIsRecord ==
    ASSUME NEW s \in Seq(Row), NEW i \in DOMAIN s
    PROVE  s[i] \in Row
  BY ElementOfSeq, LenProperties

------------------------------------------------------------------------------
(* What any statement does to message_view: rows stay, with their uid, and a *)
(* row changes folder only to enter a Trash that has no row of its message.  *)

ViewStep ==
    /\ message_view' \in Seq(Row)
    /\ Len(message_view) <= Len(message_view')
    /\ \A i \in DOMAIN message_view :
          /\ i \in DOMAIN message_view'
          /\ message_view'[i].uid = message_view[i].uid
          /\ \/ message_view'[i].folder = message_view[i].folder
             \/ /\ message_view'[i].folder = "Trash"
                /\ ~HasRow(message_view[i].uid, "Trash")

\* The statement brings no message into INBOX but those of U.
NewInInbox(U) ==
    \A v \in Uids \ U : ~HasRow(v, "INBOX") => ~HasRow(v, "INBOX")'

KeysPreserved == OneRowPerFolder => OneRowPerFolder'

\* A statement that fails or matches no row is a ViewStep.
LEMMA UnchangedView ==
    ASSUME message_view \in Seq(Row), UNCHANGED message_view
    PROVE  ViewStep /\ NewInInbox({}) /\ KeysPreserved
  BY LenProperties DEF ViewStep, NewInInbox, KeysPreserved, HasRow, Ids, OneRowPerFolder

\* Appending a row of INBOX for a message that has none there.
LEMMA AppendView ==
    ASSUME message_view \in Seq(Row), NEW u \in Uids, NEW r \in BOOLEAN, NEW b \in Bodies,
           ~HasRow(u, "INBOX"),
           message_view' = Append(message_view, NewRow(u, r, b))
    PROVE  ViewStep /\ NewInInbox({u}) /\ KeysPreserved /\ HasRow(u, "INBOX")'
  <1> DEFINE row == NewRow(u, r, b)
             n == Len(message_view)
  <1>1. row \in Row /\ row.uid = u /\ row.folder = "INBOX"
    BY DEF NewRow, Row, Folders
  <1>2. /\ message_view' \in Seq(Row)
        /\ n \in Nat
        /\ Len(message_view') = n + 1
        /\ DOMAIN message_view = 1 .. n
        /\ DOMAIN message_view' = 1 .. n + 1
        /\ \A i \in 1 .. n : message_view'[i] = message_view[i]
        /\ message_view'[n + 1] = row
    <2> HIDE DEF row
    <2>1. message_view' = Append(message_view, row)
      BY DEF row
    <2> QED BY <2>1, <1>1, AppendRow, LenProperties
  <1> HIDE DEF row, n
  <1>3. ViewStep
    BY <1>2 DEF ViewStep, n
  <1>4. NewInInbox({u})
    <2> SUFFICES ASSUME NEW v \in Uids, v # u, HasRow(v, "INBOX")'
                 PROVE  HasRow(v, "INBOX")
      BY DEF NewInInbox
    <2>1. PICK i \in 1 .. n + 1 : message_view'[i].uid = v /\ message_view'[i].folder = "INBOX"
      BY <1>2 DEF HasRow, Ids
    <2>2. i \in 1 .. n
      BY <2>1, <1>1, <1>2
    <2> QED BY <2>1, <2>2, <1>2 DEF HasRow, Ids
  <1>5. KeysPreserved
    <2> SUFFICES ASSUME OneRowPerFolder, NEW i \in 1 .. n + 1, NEW j \in 1 .. n + 1,
                        message_view'[i].uid = message_view'[j].uid,
                        message_view'[i].folder = message_view'[j].folder
                 PROVE  i = j
      BY <1>2 DEF KeysPreserved, OneRowPerFolder
    <2>1. \A k \in 1 .. n : ~(message_view[k].uid = u /\ message_view[k].folder = "INBOX")
      BY <1>2 DEF HasRow, Ids
    <2>2. CASE i \in 1 .. n /\ j \in 1 .. n
      BY <2>2, <1>2 DEF OneRowPerFolder
    <2>3. CASE i = n + 1 /\ j \in 1 .. n
      BY <2>3, <2>1, <1>1, <1>2
    <2>4. CASE j = n + 1 /\ i \in 1 .. n
      BY <2>4, <2>1, <1>1, <1>2
    <2> QED BY <2>2, <2>3, <2>4, <1>2
  <1>6. HasRow(u, "INBOX")'
    <2>1. n + 1 \in Ids(u, "INBOX")'
      BY <1>1, <1>2 DEF Ids
    <2> QED BY <2>1 DEF HasRow
  <1> QED BY <1>3, <1>4, <1>5, <1>6

\* Replacing a row by one of the same message in the same folder.
LEMMA ReplaceView ==
    ASSUME message_view \in Seq(Row), NEW i \in DOMAIN message_view, NEW row \in Row,
           row.uid = message_view[i].uid, row.folder = message_view[i].folder,
           message_view' = [message_view EXCEPT ![i] = row]
    PROVE  /\ ViewStep /\ NewInInbox({}) /\ KeysPreserved
           /\ DOMAIN message_view' = DOMAIN message_view
           /\ \A u, f : HasRow(u, f) => HasRow(u, f)'
  <1>1. /\ message_view' \in Seq(Row)
        /\ Len(message_view') = Len(message_view)
        /\ Len(message_view) \in Nat
        /\ DOMAIN message_view' = DOMAIN message_view
        /\ \A j \in DOMAIN message_view :
              message_view'[j] = IF j = i THEN row ELSE message_view[j]
    BY ReplaceRow, LenProperties
  <1>2. \A j \in DOMAIN message_view :
            /\ message_view'[j].uid = message_view[j].uid
            /\ message_view'[j].folder = message_view[j].folder
    BY <1>1
  <1>3. ViewStep
    BY <1>1, <1>2 DEF ViewStep
  <1>4. \A u, f : HasRow(u, f) <=> HasRow(u, f)'
    BY <1>1, <1>2 DEF HasRow, Ids
  <1>5. KeysPreserved
    BY <1>1, <1>2 DEF KeysPreserved, OneRowPerFolder
  <1> QED BY <1>1, <1>3, <1>4, <1>5 DEF NewInInbox

\* The five statements of the code.

\* Delete without "permanent": the UNIQUE constraint makes it keep the keys.
LEMMA MoveToTrashView ==
    ASSUME message_view \in Seq(Row), NEW id \in Nat, MoveToTrash(id)
    PROVE  ViewStep /\ NewInInbox({}) /\ KeysPreserved
  <1>1. CASE id \notin DOMAIN message_view
    <2>1. UNCHANGED message_view
      BY <1>1 DEF MoveToTrash, UpdateRow
    <2> QED BY <2>1, UnchangedView
  <1>2. CASE id \in DOMAIN message_view /\ HasRow(message_view[id].uid, "Trash")
    <2>1. UNCHANGED message_view
      BY <1>2 DEF MoveToTrash
    <2> QED BY <2>1, UnchangedView
  <1>3. CASE id \in DOMAIN message_view /\ ~HasRow(message_view[id].uid, "Trash")
    <2> DEFINE row == [message_view[id] EXCEPT !.folder = "Trash"]
    <2>1. /\ row \in Row
          /\ row.uid = message_view[id].uid
          /\ row.folder = "Trash"
      <3>1. message_view[id] \in Row
        BY <1>3, RowIsRecord
      <3> QED BY <3>1 DEF Row, Folders
    <2>2. message_view' = [message_view EXCEPT ![id] = row]
      BY <1>3 DEF MoveToTrash, UpdateRow
    <2> HIDE DEF row
    <2>3. /\ message_view' \in Seq(Row)
          /\ Len(message_view') = Len(message_view)
          /\ Len(message_view) \in Nat
          /\ DOMAIN message_view' = DOMAIN message_view
          /\ \A j \in DOMAIN message_view :
                message_view'[j] = IF j = id THEN row ELSE message_view[j]
      BY <1>3, <2>1, <2>2, ReplaceRow, LenProperties
    <2>4. ViewStep
      BY <1>3, <2>1, <2>3 DEF ViewStep
    <2>5. NewInInbox({})
      BY <2>1, <2>3 DEF NewInInbox, HasRow, Ids
    <2>6. KeysPreserved
      <3>1. \A j \in DOMAIN message_view :
               ~(message_view[j].uid = message_view[id].uid /\ message_view[j].folder = "Trash")
        BY <1>3 DEF HasRow, Ids
      <3> QED BY <3>1, <1>3, <2>1, <2>3 DEF KeysPreserved, OneRowPerFolder
    <2> QED BY <2>4, <2>5, <2>6
  <1> QED BY <1>1, <1>2, <1>3

\* An UPDATE by id that leaves uid and folder alone.
LEMMA UpdateRowView ==
    ASSUME message_view \in Seq(Row), NEW id \in Nat, NEW row,
           id \in DOMAIN message_view =>
              /\ row \in Row
              /\ row.uid = message_view[id].uid
              /\ row.folder = message_view[id].folder,
           UpdateRow(id, row)
    PROVE  ViewStep /\ NewInInbox({}) /\ KeysPreserved
  <1>1. CASE id \notin DOMAIN message_view
    <2>1. UNCHANGED message_view
      BY <1>1 DEF UpdateRow
    <2> QED BY <2>1, UnchangedView
  <1>2. CASE id \in DOMAIN message_view
    BY <1>2, ReplaceView DEF UpdateRow
  <1> QED BY <1>1, <1>2

\* The upsert of a known message may re-create its row in INBOX.
LEMMA UpsertHeadersView ==
    ASSUME message_view \in Seq(Row), NEW u \in Uids, NEW r \in BOOLEAN,
           UpsertHeaders(u, r)
    PROVE  ViewStep /\ NewInInbox({u}) /\ KeysPreserved
  <1>1. CASE HasRow(u, "INBOX")
    <2>1. PICK i \in Ids(u, "INBOX") :
             message_view' = [message_view EXCEPT ![i].is_read = r]
      BY <1>1 DEF UpsertHeaders
    <2> DEFINE row == [message_view[i] EXCEPT !.is_read = r]
    <2>2. i \in DOMAIN message_view
      BY DEF Ids
    <2>3. row \in Row /\ row.uid = message_view[i].uid /\ row.folder = message_view[i].folder
      <3>1. message_view[i] \in Row
        BY <2>2, RowIsRecord
      <3> QED BY <3>1 DEF Row
    <2>4. message_view' = [message_view EXCEPT ![i] = row]
      BY <2>1
    <2> HIDE DEF row
    <2>5. ViewStep /\ NewInInbox({}) /\ KeysPreserved
      BY <2>2, <2>3, <2>4, ReplaceView
    <2> QED BY <2>5 DEF NewInInbox
  <1>2. CASE ~HasRow(u, "INBOX")
    BY <1>2, AppendView DEF UpsertHeaders, Bodies
  <1> QED BY <1>1, <1>2

\* The insert of a new message leaves it in INBOX.
LEMMA InsertMessageView ==
    ASSUME message_view \in Seq(Row), NEW u \in Uids, NEW r \in BOOLEAN, NEW b \in BOOLEAN,
           InsertMessage(u, r, b)
    PROVE  ViewStep /\ NewInInbox({u}) /\ KeysPreserved /\ HasRow(u, "INBOX")'
  <1>1. CASE HasRow(u, "INBOX")
    <2>1. UNCHANGED message_view
      BY <1>1 DEF InsertMessage
    <2>2. ViewStep /\ NewInInbox({}) /\ KeysPreserved
      BY <2>1, UnchangedView
    <2>3. HasRow(u, "INBOX")'
      BY <1>1, <2>1 DEF HasRow, Ids
    <2> QED BY <2>2, <2>3 DEF NewInInbox
  <1>2. CASE ~HasRow(u, "INBOX")
    <2> DEFINE body == IF b THEN "fetched" ELSE "empty"
    <2>1. body \in Bodies
      BY DEF Bodies
    <2>2. message_view' = Append(message_view, NewRow(u, r, body))
      BY <1>2 DEF InsertMessage
    <2> HIDE DEF body
    <2> QED BY <1>2, <2>1, <2>2, AppendView
  <1> QED BY <1>1, <1>2

------------------------------------------------------------------------------
(* Consequences of ViewStep.                                                *)

\* A tracked message stays tracked.
LEMMA TrackedStays ==
    ASSUME message_view \in Seq(Row), ViewStep, NEW u, Tracked(u)
    PROVE  Tracked(u)'
  <1>1. PICK i \in DOMAIN message_view : message_view[i].uid = u
    BY DEF Tracked, HasRow, Ids
  <1>2. i \in DOMAIN message_view' /\ message_view'[i].uid = u
    BY <1>1 DEF ViewStep
  <1>3. message_view'[i] \in Row
    BY <1>2, RowIsRecord DEF ViewStep
  <1>4. PICK f \in Folders : message_view'[i].folder = f
    BY <1>3 DEF Row
  <1>5. i \in Ids(u, f)'
    BY <1>2, <1>4 DEF Ids
  <1> QED BY <1>5 DEF Tracked, HasRow

\* A message with a row in both folders keeps them: its INBOX row cannot enter
\* an occupied Trash.
LEMMA BothStay ==
    ASSUME message_view \in Seq(Row), ViewStep, NEW u,
           HasRow(u, "INBOX"), HasRow(u, "Trash")
    PROVE  HasRow(u, "INBOX")' /\ HasRow(u, "Trash")'
  <1>1. PICK i \in DOMAIN message_view : message_view[i].uid = u /\ message_view[i].folder = "INBOX"
    BY DEF HasRow, Ids
  <1>2. PICK j \in DOMAIN message_view : message_view[j].uid = u /\ message_view[j].folder = "Trash"
    BY DEF HasRow, Ids
  <1>3. i \in Ids(u, "INBOX")'
    BY <1>1 DEF ViewStep, Ids
  <1>4. j \in Ids(u, "Trash")'
    BY <1>2 DEF ViewStep, Ids
  <1> QED BY <1>3, <1>4 DEF HasRow

------------------------------------------------------------------------------
(* Type correctness.                                                        *)

\* The log only grows, by one event at the end.
LEMMA AppendedEvent ==
    ASSUME events \in Seq(Event), NEW e \in Event, events' = Append(events, e)
    PROVE  /\ events' \in Seq(Event)
           /\ Len(events) \in Nat
           /\ DOMAIN events = 1 .. Len(events)
           /\ DOMAIN events' = 1 .. Len(events) + 1
           /\ \A i \in 1 .. Len(events) : events'[i] = events[i]
           /\ events'[Len(events) + 1] = e
  BY AppendRow, LenProperties

\* Emit appends a well-formed event.
LEMMA EmitType ==
    ASSUME events \in Seq(Event), NEW t \in EventTypes, NEW u \in UidOrZero,
           NEW f \in FolderOrEmpty, Emit(t, u, f)
    PROVE  /\ events' \in Seq(Event)
           /\ Len(events) \in Nat
           /\ DOMAIN events = 1 .. Len(events)
           /\ DOMAIN events' = 1 .. Len(events) + 1
           /\ \A i \in DOMAIN events : events'[i] = events[i]
           /\ events'[Len(events) + 1] = [type |-> t, uid |-> u, folder |-> f]
  <1> DEFINE e == [type |-> t, uid |-> u, folder |-> f]
  <1>1. e \in Event
    BY DEF Event
  <1>2. events' = Append(events, e)
    BY DEF Emit
  <1>3. e = [type |-> t, uid |-> u, folder |-> f]
    OBVIOUS
  <1> HIDE DEF e
  <1>4. /\ events' \in Seq(Event)
        /\ Len(events) \in Nat
        /\ DOMAIN events = 1 .. Len(events)
        /\ DOMAIN events' = 1 .. Len(events) + 1
        /\ \A i \in 1 .. Len(events) : events'[i] = events[i]
        /\ events'[Len(events) + 1] = e
    BY <1>1, <1>2, AppendedEvent
  <1> QED BY <1>3, <1>4

\* A fault stays within the bound.
LEMMA FailType ==
    ASSUME faults \in 0 .. MaxFaults, NEW k, Fail(k)
    PROVE  faults' \in 0 .. MaxFaults
  BY MaxFaultsAssumption DEF Fail

\* Advancing the scan loop keeps its variables well-typed.
LEMMA NextMessageType ==
    ASSUME WatcherTypeOK, NEW u \in todo, inbox' = inbox, seen' = seen, NextMessage(u)
    PROVE  WatcherTypeOK'
  BY DEF WatcherTypeOK, NextMessage, NoScan, Stages

\* Requests stay well-typed while others add rows.
LEMMA ApiTypeKept ==
    ASSUME ApiTypeOK, message_view \in Seq(Row), ViewStep, req' = req
    PROVE  ApiTypeOK'
  <1>1. Len(message_view) \in Nat /\ Len(message_view') \in Nat
    BY LenProperties DEF ViewStep
  <1>2. \A r \in Requests : req[r].id \in 0 .. Len(message_view')
    BY <1>1 DEF ViewStep, ApiTypeOK
  <1> QED BY <1>2 DEF ApiTypeOK

\* The initial state is well-typed.
LEMMA TypeInit == Init => TypeOK
  <1> SUFFICES ASSUME Init PROVE TypeOK
    OBVIOUS
  <1>1. StoreTypeOK
    BY EmptySeq, MaxFaultsAssumption DEF Init, StoreInit, StoreTypeOK
  <1>2. WatcherTypeOK
    BY DEF Init, StoreInit, WatcherInit, WatcherTypeOK, Stages
  <1>3. ApiTypeOK
    <2>1. Len(message_view) = 0
      BY EmptySeq DEF Init, StoreInit
    <2> DEFINE idle == [stage |-> "idle", call |-> NoCall, id |-> 0,
                        uid |-> 0, folder |-> ""]
    <2>2. /\ idle \in Request
          /\ idle.stage = "idle"
          /\ idle.id = 0
      BY DEF Request, ReqStages, UidOrZero, FolderOrEmpty
    <2>3. req = [r \in Requests |-> idle]
      BY DEF Init, ApiInit
    <2> HIDE DEF idle
    <2>4. req \in [Requests -> Request] /\ \A r \in Requests : req[r] = idle
      BY <2>2, <2>3
    <2>5. \A r \in Requests : req[r].stage = "idle" /\ req[r].id \in 0 .. Len(message_view)
      BY <2>1, <2>2, <2>4
    <2> QED BY <2>4, <2>5 DEF ApiTypeOK
  <1> QED BY <1>1, <1>2, <1>3 DEF TypeOK

\* A delivery keeps every variable well-typed.
LEMMA TypeDeliver == TypeOK /\ Deliver /\ UNCHANGED <<watcherVars, req>> => TypeOK'
  BY DEF TypeOK, StoreTypeOK, WatcherTypeOK, ApiTypeOK, Deliver, watcherVars

\* The watcher's actions that leave message_view and events alone.
LEMMA TypeWatcherReads ==
    ASSUME TypeOK, UNCHANGED req, UNCHANGED <<inbox, message_view, events>>,
           \/ Connect \/ ConnectFails \/ BackoffElapsed \/ IdleReturns \/ IdleFails
           \/ FetchHeaders \/ FetchHeadersFails
           \/ QueryKnown \/ QueryKnownFails \/ QueryKnownTruncated \/ Crash
           \/ \E u \in todo : \/ UpsertKnownFails(u) \/ FetchBody(u) \/ FetchBodyFails(u)
                              \/ ExtractBody(u) \/ InsertNewRefused(u)
                              \/ EmitDeliveredFails(u)
    PROVE  TypeOK'
  <1>1. ApiTypeOK'
    BY DEF TypeOK, ApiTypeOK
  <1> USE DEF TypeOK, StoreTypeOK, WatcherTypeOK, storeVars, Stages
  <1>2. faults' \in 0 .. MaxFaults /\ seen' \subseteq inbox
    BY MaxFaultsAssumption DEF Connect, ConnectFails, BackoffElapsed, IdleReturns, IdleFails,
       FetchHeaders, FetchHeadersFails, QueryKnown, QueryKnownFails, QueryKnownTruncated,
       Crash, UpsertKnownFails, FetchBody, FetchBodyFails, ExtractBody, InsertNewRefused,
       EmitDeliveredFails, Fail, SetSeen
  <1>3. StoreTypeOK'
    BY <1>2
  <1>4. CASE Connect \/ ConnectFails \/ BackoffElapsed \/ IdleReturns \/ IdleFails
    BY <1>4, <1>1, <1>3 DEF Connect, ConnectFails, BackoffElapsed, IdleReturns, IdleFails
  <1>5. CASE FetchHeaders \/ FetchHeadersFails
    BY <1>5, <1>1, <1>3 DEF FetchHeaders, FetchHeadersFails
  <1>6. CASE QueryKnown \/ QueryKnownFails \/ QueryKnownTruncated
    BY <1>6, <1>1, <1>3 DEF QueryKnown, QueryKnownFails, QueryKnownTruncated, NoScan,
                            TrackedInInbox
  <1>7. CASE Crash
    BY <1>7, <1>1, <1>3 DEF Crash, NoScan
  <1>8. ASSUME NEW u \in todo, FetchBody(u) \/ FetchBodyFails(u) \/ ExtractBody(u)
        PROVE  TypeOK'
    BY <1>8, <1>1, <1>3 DEF FetchBody, FetchBodyFails, ExtractBody, SetSeen
  <1>9. ASSUME NEW u \in todo, UpsertKnownFails(u) \/ InsertNewRefused(u) \/ EmitDeliveredFails(u)
        PROVE  TypeOK'
    <2>1. NextMessage(u) /\ seen' = seen
      BY <1>9 DEF UpsertKnownFails, InsertNewRefused, EmitDeliveredFails
    <2>2. WatcherTypeOK'
      BY <2>1, NextMessageType
    <2> QED BY <2>2, <1>1, <1>3
  <1> QED BY <1>4, <1>5, <1>6, <1>7, <1>8, <1>9

\* The watcher's statements on message_view: what they do to it and to the rest.
LEMMA WatcherWritesView ==
    ASSUME TypeOK, NEW u \in todo,
           UpsertKnown(u) \/ InsertNew(u) \/ InsertNewFails(u)
    PROVE  ViewStep /\ NewInInbox({u}) /\ KeysPreserved
  <1>1. u \in Uids /\ (u \in fetched) \in BOOLEAN /\ has_body \in BOOLEAN
        /\ message_view \in Seq(Row)
    BY DEF TypeOK, StoreTypeOK, WatcherTypeOK
  <1>2. CASE UpsertKnown(u)
    <2>1. UpsertHeaders(u, u \in fetched)
      BY <1>2 DEF UpsertKnown
    <2> QED BY <2>1, <1>1, UpsertHeadersView
  <1>3. CASE InsertMessage(u, u \in fetched, has_body)
    BY <1>3, <1>1, InsertMessageView
  <1>4. CASE UNCHANGED message_view
    BY <1>4, <1>1, UnchangedView DEF NewInInbox
  <1> QED BY <1>2, <1>3, <1>4 DEF InsertNew, InsertNewFails

\* The watcher's writes to message_view keep every variable well-typed.
LEMMA TypeWatcherWrites ==
    ASSUME TypeOK, UNCHANGED req, NEW u \in todo,
           UpsertKnown(u) \/ InsertNew(u) \/ InsertNewFails(u)
    PROVE  TypeOK'
  <1>1. ViewStep
    BY WatcherWritesView
  <1>2. ApiTypeOK'
    BY <1>1, ApiTypeKept DEF TypeOK, StoreTypeOK
  <1>3. inbox' = inbox /\ seen' = seen /\ events' = events /\ faults' \in 0 .. MaxFaults
    BY MaxFaultsAssumption DEF TypeOK, StoreTypeOK, UpsertKnown, InsertNew, InsertNewFails, Fail
  <1>4. StoreTypeOK'
    BY <1>1, <1>3 DEF TypeOK, StoreTypeOK, ViewStep
  <1>5. CASE UpsertKnown(u) \/ InsertNewFails(u)
    <2>1. NextMessage(u)
      BY <1>5 DEF UpsertKnown, InsertNewFails
    <2> QED BY <2>1, <1>2, <1>3, <1>4, NextMessageType DEF TypeOK
  <1>6. CASE InsertNew(u)
    <2>1. WatcherTypeOK'
      BY <1>6 DEF InsertNew, TypeOK, WatcherTypeOK, Stages
    <2> QED BY <2>1, <1>2, <1>4 DEF TypeOK
  <1> QED BY <1>5, <1>6

\* So does its announcement.
LEMMA TypeEmitDelivered ==
    ASSUME TypeOK, UNCHANGED req, NEW u \in todo, EmitDelivered(u)
    PROVE  TypeOK'
  <1>1. events' \in Seq(Event)
    <2>1. /\ Emit("MessageDelivered", u, "INBOX")
          /\ events \in Seq(Event)
          /\ u \in UidOrZero
      BY DEF EmitDelivered, TypeOK, StoreTypeOK, WatcherTypeOK, UidOrZero
    <2>2. "MessageDelivered" \in EventTypes /\ "INBOX" \in FolderOrEmpty
      BY DEF EventTypes, Folders, UidOrZero, FolderOrEmpty
    <2> QED BY <2>1, <2>2, EmitType
  <1>2. UNCHANGED <<inbox, seen, message_view, faults>> /\ NextMessage(u)
    BY DEF EmitDelivered
  <1>3. StoreTypeOK'
    BY <1>1, <1>2 DEF TypeOK, StoreTypeOK
  <1>4. WatcherTypeOK'
    BY <1>2, NextMessageType DEF TypeOK
  <1>5. ApiTypeOK'
    BY <1>2 DEF TypeOK, ApiTypeOK
  <1> QED BY <1>3, <1>4, <1>5 DEF TypeOK

\* And hence each of its steps.
LEMMA TypeWatcher ==
    ASSUME TypeOK, WatcherNext, UNCHANGED req
    PROVE  TypeOK'
  <1>1. CASE \/ Connect \/ ConnectFails \/ BackoffElapsed \/ IdleReturns \/ IdleFails
             \/ FetchHeaders \/ FetchHeadersFails
             \/ QueryKnown \/ QueryKnownFails \/ QueryKnownTruncated \/ Crash
    <2>1. UNCHANGED <<inbox, message_view, events>>
      BY <1>1 DEF Connect, ConnectFails, BackoffElapsed, IdleReturns, IdleFails, FetchHeaders,
         FetchHeadersFails, QueryKnown, QueryKnownFails, QueryKnownTruncated, Crash, storeVars
    <2> QED BY <1>1, <2>1, TypeWatcherReads
  <1>2. ASSUME NEW u \in todo,
               \/ UpsertKnownFails(u) \/ FetchBody(u) \/ FetchBodyFails(u) \/ ExtractBody(u)
               \/ InsertNewRefused(u) \/ EmitDeliveredFails(u)
        PROVE  TypeOK'
    <2>1. UNCHANGED <<inbox, message_view, events>>
      BY <1>2 DEF UpsertKnownFails, FetchBody, FetchBodyFails, ExtractBody, InsertNewRefused,
         EmitDeliveredFails, storeVars
    <2> QED BY <1>2, <2>1, TypeWatcherReads
  <1>3. ASSUME NEW u \in todo, UpsertKnown(u) \/ InsertNew(u) \/ InsertNewFails(u)
        PROVE  TypeOK'
    BY <1>3, TypeWatcherWrites
  <1>4. ASSUME NEW u \in todo, EmitDelivered(u)
        PROVE  TypeOK'
    BY <1>4, TypeEmitDelivered
  <1> QED BY <1>1, <1>2, <1>3, <1>4 DEF WatcherNext, WatcherStep, WatcherFault

\* The stages a handler goes through belong to its kind of call.
StageFits(call, stg) ==
    /\ stg \in ReqStages
    /\ stg \in {"read", "readEvent", "star", "starEvent"} => call.op = "patch"
    /\ stg \in {"delete", "deleteEvent"} => call.op = "delete"

\* The statement after the lookup is one of the request's own kind.
LEMMA AfterLookupFits ==
    ASSUME NEW call \in Calls
    PROVE  StageFits(call, AfterLookup(call))
           /\ (call.op = "patch" => StageFits(call, AfterRead(call)))
  <1>1. call.op \in {"patch", "delete"}
    BY CallsAssumption DEF AllCalls
  <1> QED BY <1>1 DEF StageFits, AfterLookup, AfterRead, ReqStages

\* Moving a request to a stage of its own kind keeps it well-typed.
LEMMA GoToType ==
    ASSUME TypeOK, NEW r \in Requests, NEW stg, StageFits(req[r].call, stg),
           req[r].stage # "idle", GoTo(r, stg), ViewStep
    PROVE  ApiTypeOK'
  <1>1. message_view \in Seq(Row) /\ message_view' \in Seq(Row) /\ ApiTypeOK
    BY DEF TypeOK, StoreTypeOK, ViewStep
  <1>2. Len(message_view) \in Nat /\ Len(message_view') \in Nat
        /\ Len(message_view) <= Len(message_view')
    BY <1>1, LenProperties DEF ViewStep
  <1>3. req \in [Requests -> Request]
    BY <1>1 DEF ApiTypeOK
  <1>4. /\ req' \in [Requests -> Request]
        /\ \A q \in Requests : /\ req'[q].id = req[q].id
                               /\ req'[q].call = req[q].call
                               /\ req'[q].stage = IF q = r THEN stg ELSE req[q].stage
    BY <1>3 DEF GoTo, Request, StageFits
  <1>5. ASSUME NEW q \in Requests
        PROVE  /\ req'[q].id \in 0 .. Len(message_view')
               /\ req'[q].stage # "idle" => req'[q].call \in Calls
               /\ req'[q].stage \in {"read", "readEvent", "star", "starEvent"}
                     => req'[q].call.op = "patch"
               /\ req'[q].stage \in {"delete", "deleteEvent"}
                     => req'[q].call.op = "delete"
    <2>1. req[q].id \in 0 .. Len(message_view)
      BY <1>1 DEF ApiTypeOK
    <2>2. req'[q].id \in 0 .. Len(message_view')
      BY <1>2, <1>4, <2>1
    <2>3. CASE q = r
      BY <2>2, <2>3, <1>1, <1>4 DEF ApiTypeOK, StageFits
    <2>4. CASE q # r
      BY <2>2, <2>4, <1>1, <1>4 DEF ApiTypeOK
    <2> QED BY <2>3, <2>4
  <1> QED BY <1>4, <1>5 DEF ApiTypeOK

\* The API's statements on message_view; every other action leaves it alone.
LEMMA ApiWritesView ==
    ASSUME TypeOK, NEW r \in Requests,
           Begin(r) \/ ApiStep(r) \/ ApiFault(r)
    PROVE  ViewStep /\ NewInInbox({}) /\ KeysPreserved
  <1>1. /\ message_view \in Seq(Row)
        /\ req[r].id \in Nat
        /\ req[r].stage = "read" => req[r].call.op = "patch"
    BY DEF TypeOK, StoreTypeOK, ApiTypeOK, Request
  <1>2. CASE UpdateRead(r)
    <2> DEFINE row == [message_view[req[r].id] EXCEPT !.is_read = (req[r].call.is_read = "true")]
    <2>1. req[r].id \in DOMAIN message_view =>
             /\ row \in Row
             /\ row.uid = message_view[req[r].id].uid
             /\ row.folder = message_view[req[r].id].folder
      <3> SUFFICES ASSUME req[r].id \in DOMAIN message_view
                   PROVE  /\ row \in Row
                          /\ row.uid = message_view[req[r].id].uid
                          /\ row.folder = message_view[req[r].id].folder
        OBVIOUS
      <3>1. message_view[req[r].id] \in Row
        BY <1>1, RowIsRecord
      <3>2. (req[r].call.is_read = "true") \in BOOLEAN
        OBVIOUS
      <3> QED BY <3>1, <3>2 DEF Row
    <2>2. UpdateRow(req[r].id, row)
      BY <1>2 DEF UpdateRead
    <2> HIDE DEF row
    <2> QED BY <1>1, <2>1, <2>2, UpdateRowView
  <1>3. CASE UpdateStarred(r)
    <2> DEFINE row == [message_view[req[r].id] EXCEPT
                         !.is_starred = (req[r].call.is_starred = "true")]
    <2>1. req[r].id \in DOMAIN message_view =>
             /\ row \in Row
             /\ row.uid = message_view[req[r].id].uid
             /\ row.folder = message_view[req[r].id].folder
      <3> SUFFICES ASSUME req[r].id \in DOMAIN message_view
                   PROVE  /\ row \in Row
                          /\ row.uid = message_view[req[r].id].uid
                          /\ row.folder = message_view[req[r].id].folder
        OBVIOUS
      <3>1. message_view[req[r].id] \in Row
        BY <1>1, RowIsRecord
      <3>2. (req[r].call.is_starred = "true") \in BOOLEAN
        OBVIOUS
      <3> QED BY <3>1, <3>2 DEF Row
    <2>2. UpdateRow(req[r].id, row)
      BY <1>3 DEF UpdateStarred
    <2> HIDE DEF row
    <2> QED BY <1>1, <2>1, <2>2, UpdateRowView
  <1>4. CASE DeleteRow(r) /\ req[r].call.permanent
    <2> DEFINE row == [message_view[req[r].id] EXCEPT !.is_deleted = TRUE]
    <2>1. req[r].id \in DOMAIN message_view =>
             /\ row \in Row
             /\ row.uid = message_view[req[r].id].uid
             /\ row.folder = message_view[req[r].id].folder
      <3> SUFFICES ASSUME req[r].id \in DOMAIN message_view
                   PROVE  /\ row \in Row
                          /\ row.uid = message_view[req[r].id].uid
                          /\ row.folder = message_view[req[r].id].folder
        OBVIOUS
      <3>1. message_view[req[r].id] \in Row
        BY <1>1, RowIsRecord
      <3> QED BY <3>1 DEF Row
    <2>2. UpdateRow(req[r].id, row)
      BY <1>4 DEF DeleteRow
    <2> HIDE DEF row
    <2> QED BY <1>1, <2>1, <2>2, UpdateRowView
  <1>5. CASE DeleteRow(r) /\ ~req[r].call.permanent
    <2>1. MoveToTrash(req[r].id)
      BY <1>5 DEF DeleteRow
    <2> QED BY <1>1, <2>1, MoveToTrashView
  <1>6. CASE \/ Begin(r) \/ Lookup(r) \/ EmitRead(r) \/ EmitStarred(r) \/ EmitDeleted(r)
             \/ ApiFault(r)
    <2>1. UNCHANGED message_view
      BY <1>6 DEF Begin, Lookup, EmitRead, EmitStarred, EmitDeleted, ApiFault, LookupFails,
                  UpdateFails, EmitFails, Abort, storeVars
    <2> QED BY <1>1, <2>1, UnchangedView
  <1> QED BY <1>2, <1>3, <1>4, <1>5, <1>6 DEF ApiStep

\* The event a handler appends has the uid and folder of its lookup.
ApiEvent(r) ==
    \E t \in EventTypes \ {"MessageDelivered"} : Emit(t, req[r].uid, req[r].folder)

\* The event a handler step appends, if any: it is about the row looked up
\* and it is never MessageDelivered.
LEMMA ApiEvents ==
    ASSUME TypeOK, NEW r \in Requests, ApiStep(r) \/ ApiFault(r) \/ Begin(r)
    PROVE  /\ UNCHANGED events \/ ApiEvent(r)
           /\ inbox' = inbox /\ seen' = seen /\ faults' \in 0 .. MaxFaults
  <1>1. CASE EmitRead(r)
    BY <1>1 DEF EmitRead, ApiEvent, EventTypes, TypeOK, StoreTypeOK
  <1>2. CASE EmitStarred(r)
    BY <1>2 DEF EmitStarred, ApiEvent, EventTypes, TypeOK, StoreTypeOK
  <1>3. CASE EmitDeleted(r)
    BY <1>3 DEF EmitDeleted, ApiEvent, EventTypes, TypeOK, StoreTypeOK
  <1>4. CASE Begin(r) \/ Lookup(r) \/ UpdateRead(r) \/ UpdateStarred(r) \/ DeleteRow(r)
    BY <1>4 DEF Begin, Lookup, UpdateRead, UpdateStarred, DeleteRow, storeVars, TypeOK,
                StoreTypeOK
  <1>5. CASE ApiFault(r)
    BY <1>5, MaxFaultsAssumption DEF ApiFault, LookupFails, UpdateFails, EmitFails, Abort, Fail,
                TypeOK, StoreTypeOK
  <1> QED BY <1>1, <1>2, <1>3, <1>4, <1>5 DEF ApiStep

\* Each step of a handler keeps every variable well-typed.
LEMMA TypeApi ==
    ASSUME TypeOK, NEW r \in Requests, Begin(r) \/ ApiStep(r) \/ ApiFault(r),
           UNCHANGED watcherVars
    PROVE  TypeOK'
  <1>1. ViewStep
    BY ApiWritesView
  <1>2. inbox' = inbox /\ seen' = seen /\ faults' \in 0 .. MaxFaults
    BY ApiEvents
  <1>3. events' \in Seq(Event)
    <2>1. CASE UNCHANGED events
      BY <2>1 DEF TypeOK, StoreTypeOK
    <2>2. CASE ApiEvent(r)
      <3>1. req[r].uid \in UidOrZero /\ req[r].folder \in FolderOrEmpty
        BY DEF TypeOK, ApiTypeOK, Request
      <3>2. PICK t \in EventTypes : Emit(t, req[r].uid, req[r].folder)
        BY <2>2 DEF ApiEvent
      <3> QED BY <3>1, <3>2, EmitType DEF TypeOK, StoreTypeOK
    <2> QED BY <2>1, <2>2, ApiEvents
  <1>4. StoreTypeOK'
    BY <1>1, <1>2, <1>3 DEF TypeOK, StoreTypeOK, ViewStep
  <1>5. WatcherTypeOK'
    BY <1>2 DEF TypeOK, WatcherTypeOK, watcherVars
  <1>6. ApiTypeOK'
    <2>1. /\ req \in [Requests -> Request]
          /\ req[r].stage # "idle" => req[r].call \in Calls
          /\ req[r].stage \in {"read", "readEvent", "star", "starEvent"}
                => req[r].call.op = "patch"
          /\ message_view \in Seq(Row)
          /\ ApiTypeOK
      BY DEF TypeOK, ApiTypeOK, StoreTypeOK
    <2>2. CASE Begin(r)
      <3>1. PICK call \in Calls, id \in 0 .. Len(message_view) :
               req' = [req EXCEPT ![r] = [@ EXCEPT !.stage = "lookup",
                                                   !.call = call, !.id = id]]
        BY <2>2 DEF Begin
      <3>2. message_view' = message_view
        BY <2>2 DEF Begin, storeVars
      <3>3. Len(message_view) \in Nat
        BY <2>1, LenProperties
      <3> DEFINE new == [req[r] EXCEPT !.stage = "lookup", !.call = call, !.id = id]
      <3>4. /\ new \in Request
            /\ new.stage = "lookup" /\ new.call = call /\ new.id = id
        <4>1. req[r] \in Request
          BY <2>1
        <4>2. id \in Nat
          BY <3>3
        <4>3. "lookup" \in ReqStages
          BY DEF ReqStages
        <4> QED BY <4>1, <4>2, <4>3 DEF Request
      <3>5. req' = [req EXCEPT ![r] = new]
        BY <3>1
      <3> HIDE DEF new
      <3>6. req' \in [Requests -> Request]
        BY <2>1, <3>4, <3>5
      <3>7. \A q \in Requests : req'[q] = IF q = r THEN new ELSE req[q]
        BY <2>1, <3>5
      <3> QED BY <2>1, <3>2, <3>4, <3>6, <3>7 DEF ApiTypeOK
    <2>3. CASE Lookup(r) /\ req[r].id \in DOMAIN message_view
      <3> DEFINE row == message_view[req[r].id]
                 stg == AfterLookup(req[r].call)
      <3>1. row.uid \in UidOrZero /\ row.folder \in FolderOrEmpty
        <4>1. row \in Row
          BY <2>1, <2>3, RowIsRecord
        <4> QED BY <4>1 DEF Row, UidOrZero, FolderOrEmpty
      <3>2. StageFits(req[r].call, stg)
        BY <2>1, <2>3, AfterLookupFits DEF Lookup
      <3>3. req' = [req EXCEPT ![r] = [@ EXCEPT !.stage = stg, !.uid = row.uid,
                                                !.folder = row.folder]]
        BY <2>3 DEF Lookup
      <3>4. message_view' = message_view
        BY <2>3 DEF Lookup, storeVars
      <3>5. req[r].call \in Calls
        BY <2>1, <2>3 DEF Lookup
      <3> HIDE DEF row, stg
      <3> QED BY <2>1, <3>1, <3>2, <3>3, <3>4, <3>5 DEF ApiTypeOK, Request, StageFits
    <2>4. ASSUME NEW stg, GoTo(r, stg), req[r].stage # "idle", StageFits(req[r].call, stg)
          PROVE  ApiTypeOK'
      BY <2>4, <1>1, GoToType
    <2>5. StageFits(req[r].call, "done")
      BY DEF StageFits, ReqStages
    <2>6. CASE Lookup(r) /\ req[r].id \notin DOMAIN message_view
      BY <2>4, <2>5, <2>6 DEF Lookup
    <2>7. CASE LookupFails(r)
      BY <2>1, <2>4, <2>7, AfterLookupFits DEF LookupFails
    <2>8. CASE UpdateRead(r) \/ UpdateStarred(r) \/ DeleteRow(r)
      BY <2>1, <2>4, <2>8 DEF UpdateRead, UpdateStarred, DeleteRow, StageFits, ReqStages,
                              TypeOK, ApiTypeOK
    <2>9. CASE EmitRead(r)
      BY <2>1, <2>4, <2>9, AfterLookupFits DEF EmitRead
    <2>10. CASE EmitStarred(r) \/ EmitDeleted(r) \/ Abort(r)
      BY <2>4, <2>5, <2>10 DEF EmitStarred, EmitDeleted, Abort
    <2>11. CASE UpdateFails(r) \/ EmitFails(r)
      <3>1. /\ req[r].stage \in {"read", "readEvent", "star", "starEvent", "delete",
                                 "deleteEvent"}
            /\ GoTo(r, NextStage(r))
        BY <2>11 DEF UpdateFails, EmitFails
      <3>2. StageFits(req[r].call, NextStage(r))
        <4>1. CASE req[r].stage = "readEvent"
          BY <4>1, <2>1, AfterLookupFits DEF NextStage
        <4>2. CASE req[r].stage \in {"read", "star", "starEvent", "delete", "deleteEvent"}
          BY <4>2, <2>1 DEF NextStage, StageFits, ReqStages, ApiTypeOK
        <4> QED BY <3>1, <4>1, <4>2
      <3> QED BY <3>1, <3>2, <2>4
    <2> QED BY <2>2, <2>3, <2>6, <2>7, <2>8, <2>9, <2>10, <2>11 DEF ApiStep, ApiFault
  <1> QED BY <1>4, <1>5, <1>6 DEF TypeOK

\* Every step keeps every variable well-typed.
LEMMA TypeNext == TypeOK /\ [Next]_vars => TypeOK'
  <1> SUFFICES ASSUME TypeOK, [Next]_vars PROVE TypeOK'
    OBVIOUS
  <1>1. CASE Deliver /\ UNCHANGED <<watcherVars, req>>
    BY <1>1, TypeDeliver
  <1>2. CASE WatcherNext /\ UNCHANGED req
    BY <1>2, TypeWatcher
  <1>3. CASE ApiNext /\ UNCHANGED watcherVars
    BY <1>3, TypeApi DEF ApiNext
  <1>4. CASE UNCHANGED vars
    BY <1>4 DEF vars, storeVars, watcherVars, TypeOK, StoreTypeOK, WatcherTypeOK, ApiTypeOK
  <1> QED BY <1>1, <1>2, <1>3, <1>4 DEF Next

\* A fault that nothing else notices.
LEMMA TypeFault ==
    ASSUME TypeOK, NEW k, Fail(k),
           UNCHANGED <<inbox, seen, message_view, events, watcherVars, req>>
    PROVE  TypeOK'
  <1>1. faults' \in 0 .. MaxFaults
    BY FailType DEF TypeOK, StoreTypeOK
  <1> QED
    BY <1>1 DEF watcherVars, TypeOK, StoreTypeOK, WatcherTypeOK, ApiTypeOK

\* Every variable keeps its shape, todo stays within the mailbox, fetched within
\* the flags Dovecot set, and a request within the rows that exist.
THEOREM TypeCorrect == Spec => []TypeOK
  BY TypeInit, TypeNext, PTL DEF Spec

------------------------------------------------------------------------------
(* One row per folder, events backed by rows.                               *)

\* The watcher's actions, by what they do to the tables.
WatcherReads ==
    /\ UNCHANGED <<message_view, events>>
    /\ stage' # "emit"

\* What a watcher step writes: a row, an event, or neither.
LEMMA WatcherCases ==
    ASSUME TypeOK, WatcherNext
    PROVE  \/ WatcherReads
           \/ \E u \in todo : \/ UpsertKnown(u) \/ InsertNew(u) \/ InsertNewFails(u)
                              \/ EmitDelivered(u)
  <1>1. CASE \/ Connect \/ ConnectFails \/ BackoffElapsed \/ IdleReturns \/ IdleFails
             \/ FetchHeaders \/ FetchHeadersFails
             \/ QueryKnown \/ QueryKnownFails \/ QueryKnownTruncated \/ Crash
    BY <1>1 DEF WatcherReads, Connect, ConnectFails, BackoffElapsed, IdleReturns, IdleFails,
       FetchHeaders, FetchHeadersFails, QueryKnown, QueryKnownFails, QueryKnownTruncated,
       Crash, storeVars
  <1>2. ASSUME NEW u \in todo,
               \/ UpsertKnownFails(u) \/ FetchBody(u) \/ FetchBodyFails(u) \/ ExtractBody(u)
               \/ InsertNewRefused(u) \/ EmitDeliveredFails(u)
        PROVE  WatcherReads
    BY <1>2 DEF WatcherReads, UpsertKnownFails, FetchBody, FetchBodyFails, ExtractBody,
       InsertNewRefused, EmitDeliveredFails, NextMessage, storeVars
  <1> QED BY <1>1, <1>2 DEF WatcherNext, WatcherStep, WatcherFault

\* Every step of the system is a ViewStep that keeps the keys.
LEMMA NextKeepsRows ==
    ASSUME TypeOK, [Next]_vars
    PROVE  ViewStep /\ KeysPreserved
  <1>0. message_view \in Seq(Row)
    BY DEF TypeOK, StoreTypeOK
  <1>1. CASE UNCHANGED message_view
    BY <1>0, <1>1, UnchangedView
  <1>2. ASSUME NEW u \in todo, UpsertKnown(u) \/ InsertNew(u) \/ InsertNewFails(u)
        PROVE  ViewStep /\ KeysPreserved
    BY <1>2, WatcherWritesView
  <1>3. CASE WatcherNext
    BY <1>1, <1>2, <1>3, WatcherCases DEF WatcherReads, EmitDelivered
  <1>4. CASE ApiNext
    BY <1>4, ApiWritesView DEF ApiNext
  <1>5. CASE Deliver \/ UNCHANGED vars
    <2>1. UNCHANGED message_view
      BY <1>5 DEF Deliver, vars, storeVars
    <2> QED BY <2>1, <1>1
  <1> QED BY <1>3, <1>4, <1>5 DEF Next

\* What a step may append to the log.
LEMMA NextEvents ==
    ASSUME TypeOK, [Next]_vars
    PROVE  \/ UNCHANGED events
           \/ \E u \in todo : EmitDelivered(u)
           \/ \E r \in Requests : ApiEvent(r)
  <1>1. CASE WatcherNext
    BY <1>1, WatcherCases DEF WatcherReads, UpsertKnown, InsertNew, InsertNewFails
  <1>2. CASE ApiNext
    BY <1>2, ApiEvents DEF ApiNext
  <1>3. CASE Deliver \/ UNCHANGED vars
    BY <1>3 DEF Deliver, vars, storeVars
  <1> QED BY <1>1, <1>2, <1>3 DEF Next

\* An appended event names a message that has a row.
LEMMA EventsBackedNext ==
    ASSUME TypeOK, BackedInv, [Next]_vars
    PROVE  EventsBacked'
  <1>0. message_view \in Seq(Row) /\ events \in Seq(Event)
    BY DEF TypeOK, StoreTypeOK
  <1>1. \A u : Tracked(u) => Tracked(u)'
    BY <1>0, NextKeepsRows, TrackedStays
  <1>2. CASE UNCHANGED events
    BY <1>1, <1>2 DEF BackedInv, EventsBacked
  <1>3. ASSUME NEW t \in EventTypes, NEW u \in UidOrZero, NEW f \in FolderOrEmpty,
               Emit(t, u, f), u # 0 => Tracked(u)
        PROVE  EventsBacked'
    <2>1. /\ Len(events) \in Nat
          /\ DOMAIN events = 1 .. Len(events)
          /\ DOMAIN events' = 1 .. Len(events) + 1
          /\ \A i \in DOMAIN events : events'[i] = events[i]
          /\ events'[Len(events) + 1] = [type |-> t, uid |-> u, folder |-> f]
      BY <1>0, <1>3, EmitType
    <2>2. events'[Len(events) + 1].uid = u
      BY <2>1
    <2>3. \A i \in DOMAIN events' : i \in DOMAIN events \/ i = Len(events) + 1
      BY <2>1
    <2>4. \A i \in DOMAIN events : events'[i].uid # 0 => Tracked(events[i].uid)
      BY <2>1 DEF BackedInv, EventsBacked
    <2>5. \A i \in DOMAIN events' : \A v :
             v = events'[i].uid /\ v # 0 => Tracked(v)'
      BY <1>1, <1>3, <2>1, <2>2, <2>3, <2>4
    <2> QED BY <2>5 DEF EventsBacked
  <1>4. ASSUME NEW u \in todo, EmitDelivered(u)
        PROVE  EventsBacked'
    <2>1. /\ Emit("MessageDelivered", u, "INBOX")
          /\ Tracked(u)
      BY <1>4 DEF EmitDelivered, BackedInv, EmitsBacked
    <2>2. u \in UidOrZero /\ "MessageDelivered" \in EventTypes /\ "INBOX" \in FolderOrEmpty
      BY DEF TypeOK, StoreTypeOK, WatcherTypeOK, EventTypes, Folders, UidOrZero, FolderOrEmpty
    <2> QED BY <2>1, <2>2, <1>3
  <1>5. ASSUME NEW r \in Requests, ApiEvent(r)
        PROVE  EventsBacked'
    <2>1. PICK t \in EventTypes : Emit(t, req[r].uid, req[r].folder)
      BY <1>5 DEF ApiEvent
    <2>2. req[r].uid \in UidOrZero /\ req[r].folder \in FolderOrEmpty
      BY DEF TypeOK, ApiTypeOK, Request
    <2>3. ASSUME req[r].uid # 0 PROVE Tracked(req[r].uid)
      <3>1. /\ req[r].id \in DOMAIN message_view
            /\ message_view[req[r].id].uid = req[r].uid
        BY <2>3 DEF BackedInv, LookupsBacked
      <3>2. message_view[req[r].id] \in Row
        BY <1>0, <3>1, RowIsRecord
      <3> QED BY <3>1, <3>2 DEF Tracked, HasRow, Ids, Row
    <2> QED BY <2>1, <2>2, <2>3, <1>3
  <1> QED BY <1>2, <1>4, <1>5, NextEvents

\* What a request looked up stays true of the row it names.
LEMMA LookupsBackedNext ==
    ASSUME TypeOK, BackedInv, [Next]_vars
    PROVE  LookupsBacked'
  <1>0. ViewStep
    BY NextKeepsRows
  <1>1. CASE UNCHANGED req
    BY <1>0, <1>1 DEF BackedInv, LookupsBacked, ViewStep
  <1>2. ASSUME NEW r \in Requests, Begin(r) \/ ApiStep(r) \/ ApiFault(r)
        PROVE  LookupsBacked'
    <2>0. req \in [Requests -> Request] /\ message_view \in Seq(Row)
      BY DEF TypeOK, ApiTypeOK, StoreTypeOK
    <2>1. CASE Begin(r)
      <3>1. /\ req[r].uid = 0
            /\ req[r].stage = "idle"
        BY <2>1 DEF BackedInv, LookupsBacked, Begin
      <3>2. \A q \in Requests : /\ req'[q].uid = req[q].uid
                                /\ q # r => req'[q] = req[q]
        <4>1. PICK call \in Calls, id \in 0 .. Len(message_view) :
                 req' = [req EXCEPT ![r] = [@ EXCEPT !.stage = "lookup",
                                                     !.call = call, !.id = id]]
          BY <2>1 DEF Begin
        <4>2. req[r] \in Request
          BY <2>0
        <4>3. [req[r] EXCEPT !.stage = "lookup", !.call = call, !.id = id].uid = req[r].uid
          BY <4>2 DEF Request
        <4> QED BY <2>0, <4>1, <4>3
      <3> QED BY <1>0, <3>1, <3>2 DEF BackedInv, LookupsBacked, ViewStep
    <2>2. CASE Lookup(r) /\ req[r].id \in DOMAIN message_view
      <3>1. UNCHANGED message_view
        BY <2>2 DEF Lookup, storeVars
      <3>2. /\ req'[r].id = req[r].id
            /\ req'[r].uid = message_view[req[r].id].uid
            /\ req'[r].stage = AfterLookup(req[r].call)
            /\ \A q \in Requests : q # r => req'[q] = req[q]
        <4> DEFINE stg == AfterLookup(req[r].call)
                   row == message_view[req[r].id]
                   new == [req[r] EXCEPT !.stage = stg, !.uid = row.uid, !.folder = row.folder]
        <4>1. req' = [req EXCEPT ![r] = new]
          BY <2>2 DEF Lookup
        <4>2. req[r] \in Request
          BY <2>0
        <4> HIDE DEF stg, row
        <4>3. new.id = req[r].id /\ new.uid = row.uid /\ new.stage = stg
          BY <4>2 DEF Request
        <4> HIDE DEF new
        <4> QED BY <2>0, <4>1, <4>3 DEF stg, row
      <3>3. req'[r].stage \notin {"idle", "lookup"}
        BY <3>2 DEF AfterLookup, AfterRead
      <3> QED BY <2>2, <3>1, <3>2, <3>3 DEF BackedInv, LookupsBacked
    <2>3. ASSUME NEW stg, GoTo(r, stg), stg \notin {"idle", "lookup"}
          PROVE  LookupsBacked'
      <3>1. \A q \in Requests : /\ req'[q].id = req[q].id
                                /\ req'[q].uid = req[q].uid
                                /\ req'[q].stage = IF q = r THEN stg ELSE req[q].stage
        BY <2>0, <2>3 DEF GoTo, Request
      <3> QED BY <1>0, <2>3, <3>1 DEF BackedInv, LookupsBacked, ViewStep
    <2>4. CASE Lookup(r) /\ req[r].id \notin DOMAIN message_view
      BY <2>3, <2>4 DEF Lookup
    <2>5. CASE LookupFails(r)
      BY <2>3, <2>5 DEF LookupFails, AfterLookup, AfterRead
    <2>6. CASE \/ UpdateRead(r) \/ EmitRead(r) \/ UpdateStarred(r) \/ EmitStarred(r)
               \/ DeleteRow(r) \/ EmitDeleted(r) \/ Abort(r)
      BY <2>3, <2>6 DEF UpdateRead, EmitRead, UpdateStarred, EmitStarred, DeleteRow,
                        EmitDeleted, Abort, AfterRead
    <2>7. CASE UpdateFails(r) \/ EmitFails(r)
      <3>1. NextStage(r) \notin {"idle", "lookup"}
        BY <2>7 DEF UpdateFails, EmitFails, NextStage, AfterRead
      <3> QED BY <2>3, <2>7, <3>1 DEF UpdateFails, EmitFails
    <2> QED BY <1>2, <2>1, <2>2, <2>4, <2>5, <2>6, <2>7 DEF ApiStep, ApiFault
  <1> QED BY <1>1, <1>2 DEF Next, ApiNext, vars

\* The watcher is about to announce either what it has just inserted, or what
\* it was about to announce before the step.
LEMMA EmitCases ==
    ASSUME TypeOK, [Next]_vars, stage' = "emit"
    PROVE  \/ \E u \in todo : InsertNew(u)
           \/ stage = "emit" /\ UNCHANGED watcherVars
  <1>1. CASE WatcherNext
    BY <1>1, WatcherCases DEF WatcherReads, UpsertKnown, InsertNewFails, EmitDelivered, NextMessage
  <1>2. CASE UNCHANGED watcherVars
    BY <1>2 DEF watcherVars
  <1>3. CASE UNCHANGED vars
    BY <1>3 DEF vars, watcherVars
  <1> QED BY <1>1, <1>2, <1>3 DEF Next

\* After the insert the message is in INBOX.
LEMMA InsertedIsInInbox ==
    ASSUME TypeOK, NEW u \in todo, InsertNew(u)
    PROVE  HasRow(u, "INBOX")' /\ Tracked(u)'
  <1>1. /\ message_view \in Seq(Row) /\ u \in Uids /\ has_body \in BOOLEAN
        /\ (u \in fetched) \in BOOLEAN
    BY DEF TypeOK, StoreTypeOK, WatcherTypeOK
  <1>2. InsertMessage(u, u \in fetched, has_body)
    BY DEF InsertNew
  <1>3. HasRow(u, "INBOX")'
    BY <1>1, <1>2, InsertMessageView
  <1> QED BY <1>3 DEF Tracked, Folders

\* The scan loop is at one message.
LEMMA OneCurrent ==
    ASSUME TypeOK, NEW u, NEW v, Current(u), Current(v)
    PROVE  u = v
  <1>1. u \in todo /\ v \in todo /\ u <= v /\ v <= u
    BY DEF Current
  <1>2. u \in Nat /\ v \in Nat
    BY <1>1, UidsAssumption DEF TypeOK, StoreTypeOK, WatcherTypeOK
  <1> QED BY <1>1, <1>2

\* The watcher reaches "emit" only through the insert.
LEMMA EmitsBackedNext ==
    ASSUME TypeOK, BackedInv, [Next]_vars
    PROVE  EmitsBacked'
  <1> SUFFICES ASSUME stage' = "emit", NEW u \in todo', Current(u)'
               PROVE  Tracked(u)'
    BY DEF EmitsBacked
  <1>1. ASSUME NEW v \in todo, InsertNew(v)
        PROVE  Tracked(u)'
    <2>1. v = u
      <3>1. Current(v) /\ todo' = todo
        BY <1>1 DEF InsertNew
      <3>2. Current(u)
        BY <3>1 DEF Current
      <3> QED BY <3>1, <3>2, OneCurrent
    <2> QED BY <2>1, <1>1, InsertedIsInInbox
  <1>2. CASE stage = "emit" /\ UNCHANGED watcherVars
    <2>1. Tracked(u)
      BY <1>2 DEF watcherVars, Current, BackedInv, EmitsBacked
    <2> QED BY <2>1, NextKeepsRows, TrackedStays DEF TypeOK, StoreTypeOK
  <1> QED BY <1>1, <1>2, EmitCases

\* BackedInv holds initially.
LEMMA BackedInit == Init => BackedInv
  <1> SUFFICES ASSUME Init PROVE BackedInv
    OBVIOUS
  <1>1. message_view = <<>> /\ events = <<>> /\ stage = "connect"
    BY DEF Init, StoreInit, WatcherInit
  <1>2. DOMAIN message_view = {} /\ DOMAIN events = {}
    BY <1>1
  <1>3. \A r \in Requests : req[r].uid = 0
    BY DEF Init, ApiInit
  <1> QED BY <1>1, <1>2, <1>3 DEF BackedInv, OneRowPerFolder, EventsBacked, LookupsBacked,
                                  EmitsBacked

\* And every step preserves it.
LEMMA BackedNext == TypeOK /\ BackedInv /\ [Next]_vars => BackedInv'
  BY NextKeepsRows, EventsBackedNext, LookupsBackedNext, EmitsBackedNext
     DEF BackedInv, KeysPreserved

\* Rows have unique keys, events and lookups name messages that have rows: the
\* inductive invariant behind the next theorem.
THEOREM BackedCorrect == Spec => []BackedInv
  <1>1. TypeOK /\ BackedInv /\ [Next]_vars => BackedInv'
    BY BackedNext
  <1> QED BY BackedInit, <1>1, TypeCorrect, PTL DEF Spec

\* Whatever an event names can be looked up in the cache, through crashes, lost
\* statements and failed lookups.
THEOREM EventsBackedCorrect == Spec => []EventsBacked
  <1>1. BackedInv => EventsBacked
    BY DEF BackedInv
  <1> QED BY <1>1, BackedCorrect, PTL

------------------------------------------------------------------------------
(* Announcements.                                                           *)

\* Going to the next message, with rows brought into INBOX for u at most.
LEMMA FreshAdvance ==
    ASSUME TypeOK, ScanIsFresh, NEW u \in todo, Current(u),
           stage \in {"loop", "insert", "emit"}, NextMessage(u), NewInInbox({u})
    PROVE  ScanIsFresh'
  <1>1. CASE stage' = "idle"
    BY <1>1 DEF ScanIsFresh
  <1>2. CASE stage' = "loop" /\ todo' = todo \ {u} /\ known' = known
    <2> SUFFICES ASSUME NEW v \in todo \ known, v # u
                 PROVE  ~HasRow(v, "INBOX")'
      BY <1>2 DEF ScanIsFresh
    <2>1. ~Current(v)
      BY OneCurrent
    <2>2. ~HasRow(v, "INBOX")
      BY <2>1 DEF ScanIsFresh
    <2>3. v \in Uids \ {u}
      BY DEF TypeOK, StoreTypeOK, WatcherTypeOK
    <2> QED BY <2>2, <2>3 DEF NewInInbox
  <1> QED BY <1>1, <1>2 DEF NextMessage

\* The same scan goes on, and no row comes into INBOX.
LEMMA FreshStays ==
    ASSUME TypeOK, ScanIsFresh, UNCHANGED <<stage, todo, known>>, NewInInbox({})
    PROVE  ScanIsFresh'
  <1>1. \A u \in todo : ~HasRow(u, "INBOX") => ~HasRow(u, "INBOX")'
    BY DEF NewInInbox, TypeOK, StoreTypeOK, WatcherTypeOK
  <1>2. \A u : Current(u)' <=> Current(u)
    BY DEF Current
  <1> QED BY <1>1, <1>2 DEF ScanIsFresh

\* The watcher keeps its own view of INBOX fresh, when no read is cut short.
LEMMA FreshWatcher ==
    ASSUME "truncated" \notin Faults, TypeOK, ScanIsFresh, WatcherNext
    PROVE  ScanIsFresh'
  <1>0. message_view \in Seq(Row) /\ todo \subseteq Uids
    BY DEF TypeOK, StoreTypeOK, WatcherTypeOK
  <1>1. CASE \/ Connect \/ ConnectFails \/ BackoffElapsed \/ IdleReturns \/ IdleFails
             \/ FetchHeaders \/ FetchHeadersFails \/ QueryKnownFails \/ Crash
    <2>1. stage' \in {"headers", "backoff", "connect", "query", "idle"}
      BY <1>1 DEF Connect, ConnectFails, BackoffElapsed, IdleReturns, IdleFails, FetchHeaders,
                  FetchHeadersFails, QueryKnownFails, Crash
    <2> QED BY <2>1 DEF ScanIsFresh
  <1>2. CASE QueryKnown
    <2>1. /\ stage' = "loop"
          /\ todo' = todo
          /\ known' = TrackedInInbox
          /\ message_view' = message_view
      BY <1>2 DEF QueryKnown, storeVars
    <2> SUFFICES ASSUME NEW u \in todo, u \notin TrackedInInbox
                 PROVE  ~HasRow(u, "INBOX")'
      BY <2>1 DEF ScanIsFresh
    <2>2. ~HasRow(u, "INBOX")
      BY <1>0 DEF TrackedInInbox
    <2> QED BY <2>1, <2>2 DEF HasRow, Ids
  <1>3. CASE QueryKnownTruncated
    BY <1>3 DEF QueryKnownTruncated, Fail
  <1>4. ASSUME NEW u \in todo,
               \/ UpsertKnown(u) \/ UpsertKnownFails(u) \/ InsertNewRefused(u)
               \/ InsertNewFails(u) \/ EmitDelivered(u) \/ EmitDeliveredFails(u)
        PROVE  ScanIsFresh'
    <2>1. Current(u) /\ stage \in {"loop", "insert", "emit"} /\ NextMessage(u)
      BY <1>4 DEF UpsertKnown, UpsertKnownFails, InsertNewRefused, InsertNewFails,
                  EmitDelivered, EmitDeliveredFails
    <2>2. NewInInbox({u})
      <3>1. CASE UpsertKnown(u) \/ InsertNewFails(u)
        BY <3>1, WatcherWritesView
      <3>2. CASE \/ UpsertKnownFails(u) \/ InsertNewRefused(u) \/ EmitDelivered(u)
                 \/ EmitDeliveredFails(u)
        <4>1. UNCHANGED message_view
          BY <3>2 DEF UpsertKnownFails, InsertNewRefused, EmitDelivered, EmitDeliveredFails,
                      storeVars
        <4>2. NewInInbox({})
          BY <4>1, <1>0, UnchangedView
        <4> QED BY <4>2 DEF NewInInbox
      <3> QED BY <1>4, <3>1, <3>2
    <2> QED BY <2>1, <2>2, FreshAdvance
  <1>5. ASSUME NEW u \in todo, FetchBody(u) \/ FetchBodyFails(u) \/ ExtractBody(u)
        PROVE  ScanIsFresh'
    <2>1. /\ Current(u)
          /\ stage \in {"loop", "extract"}
          /\ stage = "loop" => u \notin known
          /\ stage' \in {"extract", "insert"}
          /\ todo' = todo /\ known' = known
          /\ message_view' = message_view
      BY <1>5 DEF FetchBody, FetchBodyFails, ExtractBody, storeVars
    <2>2. u \notin known
      BY <2>1 DEF ScanIsFresh
    <2>3. \A v \in todo : Current(v)' => v = u
      <3>1. \A v \in todo : Current(v)' => Current(v)
        BY <2>1 DEF Current
      <3> QED BY <3>1, <2>1, OneCurrent
    <2>4. \A v \in todo : HasRow(v, "INBOX")' <=> HasRow(v, "INBOX")
      BY <2>1 DEF HasRow, Ids
    <2> QED BY <2>1, <2>2, <2>3, <2>4 DEF ScanIsFresh
  <1>6. ASSUME NEW u \in todo, InsertNew(u)
        PROVE  ScanIsFresh'
    <2>1. /\ Current(u) /\ stage = "insert" /\ stage' = "emit"
          /\ todo' = todo /\ known' = known
      BY <1>6 DEF InsertNew
    <2>2. NewInInbox({u})
      BY <1>6, WatcherWritesView
    <2>3. \A v : Current(v)' <=> Current(v)
      BY <2>1 DEF Current
    <2>4. \A v \in todo \ known : Current(v)' \/ ~HasRow(v, "INBOX")'
      BY <2>1, <2>2, <2>3, <1>0 DEF ScanIsFresh, NewInInbox
    <2>5. \A v \in todo : Current(v)' => v \notin known
      BY <2>1, <2>3 DEF ScanIsFresh
    <2> QED BY <2>1, <2>4, <2>5 DEF ScanIsFresh
  <1> QED BY <1>1, <1>2, <1>3, <1>4, <1>5, <1>6 DEF WatcherNext, WatcherStep, WatcherFault

\* And nobody else can make it stale.
LEMMA FreshNext ==
    ASSUME "truncated" \notin Faults, TypeOK, ScanIsFresh, [Next]_vars
    PROVE  ScanIsFresh'
  <1>1. CASE ApiNext /\ UNCHANGED watcherVars
    BY <1>1, ApiWritesView, FreshStays DEF ApiNext, watcherVars
  <1>2. CASE UNCHANGED message_view /\ UNCHANGED watcherVars
    BY <1>2, UnchangedView, FreshStays DEF watcherVars, TypeOK, StoreTypeOK
  <1> QED BY <1>1, <1>2, FreshWatcher DEF Next, Deliver, vars, storeVars

\* Handlers announce nothing.
LEMMA SameAnnouncements ==
    ASSUME TypeOK, UNCHANGED events \/ \E r \in Requests : ApiEvent(r), NEW v
    PROVE  Announcements(v)' = Announcements(v)
  <1>1. CASE UNCHANGED events
    BY <1>1 DEF Announcements
  <1>2. ASSUME NEW r \in Requests, ApiEvent(r)
        PROVE  Announcements(v)' = Announcements(v)
    <2>1. PICK t \in EventTypes \ {"MessageDelivered"} : Emit(t, req[r].uid, req[r].folder)
      BY <1>2 DEF ApiEvent
    <2>2. /\ events \in Seq(Event)
          /\ t \in EventTypes
          /\ req[r].uid \in UidOrZero /\ req[r].folder \in FolderOrEmpty
      BY <2>1 DEF TypeOK, StoreTypeOK, ApiTypeOK, Request
    <2>3. /\ Len(events) \in Nat
          /\ DOMAIN events = 1 .. Len(events)
          /\ DOMAIN events' = 1 .. Len(events) + 1
          /\ \A i \in DOMAIN events : events'[i] = events[i]
          /\ events'[Len(events) + 1] = [type |-> t, uid |-> req[r].uid, folder |-> req[r].folder]
      BY <2>1, <2>2, EmitType
    <2>4. events'[Len(events) + 1].type # "MessageDelivered"
      BY <2>1, <2>3
    <2>5. \A i \in DOMAIN events' : i \in DOMAIN events \/ i = Len(events) + 1
      BY <2>3
    <2>6. DOMAIN events \subseteq DOMAIN events'
      BY <2>3
    <2> QED BY <2>3, <2>4, <2>5, <2>6 DEF Announcements
  <1> QED BY <1>1, <1>2

\* EmitDelivered adds one announcement, of the current message.
LEMMA OneMoreAnnouncement ==
    ASSUME TypeOK, NEW u \in todo, EmitDelivered(u)
    PROVE  /\ \E n : Announcements(u)' = Announcements(u) \cup {n}
           /\ \A v : v # u => Announcements(v)' = Announcements(v)
  <1>1. /\ Emit("MessageDelivered", u, "INBOX")
        /\ events \in Seq(Event)
        /\ u \in UidOrZero
    BY DEF EmitDelivered, TypeOK, StoreTypeOK, WatcherTypeOK, UidOrZero
  <1>2. "MessageDelivered" \in EventTypes /\ "INBOX" \in FolderOrEmpty
    BY DEF EventTypes, Folders, FolderOrEmpty
  <1>3. /\ Len(events) \in Nat
        /\ DOMAIN events = 1 .. Len(events)
        /\ DOMAIN events' = 1 .. Len(events) + 1
        /\ \A i \in DOMAIN events : events'[i] = events[i]
        /\ events'[Len(events) + 1]
              = [type |-> "MessageDelivered", uid |-> u, folder |-> "INBOX"]
    BY <1>1, <1>2, EmitType
  <1> DEFINE n == Len(events) + 1
  <1>4. /\ events'[n].type = "MessageDelivered"
        /\ events'[n].uid = u
    BY <1>3
  <1>5. /\ \A i \in DOMAIN events' : i \in DOMAIN events \/ i = n
        /\ DOMAIN events \subseteq DOMAIN events'
        /\ n \in DOMAIN events'
    BY <1>3
  <1> HIDE DEF n
  <1>6. Announcements(u)' = Announcements(u) \cup {n}
    BY <1>3, <1>4, <1>5 DEF Announcements
  <1>7. \A v : v # u => Announcements(v)' = Announcements(v)
    BY <1>3, <1>4, <1>5 DEF Announcements
  <1> QED BY <1>6, <1>7

\* A row in Trash stays there.
LEMMA TrashStays ==
    ASSUME message_view \in Seq(Row), ViewStep, NEW u, HasRow(u, "Trash")
    PROVE  HasRow(u, "Trash")'
  <1>1. PICK j \in DOMAIN message_view : message_view[j].uid = u /\ message_view[j].folder = "Trash"
    BY DEF HasRow, Ids
  <1>2. j \in Ids(u, "Trash")'
    BY <1>1 DEF ViewStep, Ids
  <1> QED BY <1>2 DEF HasRow

\* A message about to be inserted that was announced before has a row in Trash,
\* and was announced once.
LEMMA SecondIsAfterTrash ==
    ASSUME TypeOK, BackedInv, AnnounceInv, NEW u \in todo, InsertNew(u)
    PROVE  /\ \A i, j \in Announcements(u) : i = j
           /\ Announcements(u) # {} => HasRow(u, "Trash")
  <1>1. u \in Uids /\ u # 0
    BY UidsAssumption DEF TypeOK, StoreTypeOK, WatcherTypeOK
  <1>2. ~HasRow(u, "INBOX")
    BY DEF InsertNew, AnnounceInv, ScanIsFresh
  <1>3. \A i, j \in Announcements(u) : i = j
    BY <1>1, <1>2 DEF AnnounceInv, RepeatOnlyAfterTrash
  <1>4. ASSUME Announcements(u) # {} PROVE HasRow(u, "Trash")
    <2>1. PICK i \in DOMAIN events : events[i].uid = u
      BY <1>4 DEF Announcements
    <2>2. Tracked(u)
      BY <1>1, <2>1 DEF BackedInv, EventsBacked
    <2> QED BY <2>2, <1>2 DEF Tracked, Folders
  <1> QED BY <1>3, <1>4

\* A pending announcement is the first, or the second after a move to Trash.
LEMMA EmitIsDueNext ==
    ASSUME TypeOK, BackedInv, AnnounceInv, [Next]_vars
    PROVE  EmitIsDue'
  <1> SUFFICES ASSUME stage' = "emit", NEW u \in todo', Current(u)'
               PROVE  /\ \A i, j \in Announcements(u)' : i = j
                      /\ Announcements(u)' # {} => HasRow(u, "INBOX")' /\ HasRow(u, "Trash")'
    BY DEF EmitIsDue
  <1>0. message_view \in Seq(Row) /\ ViewStep
    BY NextKeepsRows DEF TypeOK, StoreTypeOK
  <1>1. ASSUME NEW v \in todo, EmitDelivered(v) PROVE FALSE
    BY <1>1 DEF EmitDelivered, NextMessage
  <1>2. Announcements(u)' = Announcements(u)
    BY <1>1, NextEvents, SameAnnouncements
  <1>3. ASSUME NEW v \in todo, InsertNew(v)
        PROVE  /\ \A i, j \in Announcements(u) : i = j
               /\ Announcements(u) # {} => HasRow(u, "INBOX")' /\ HasRow(u, "Trash")'
    <2>1. v = u
      <3>1. Current(v) /\ todo' = todo
        BY <1>3 DEF InsertNew
      <3>2. Current(u)
        BY <3>1 DEF Current
      <3> QED BY <3>1, <3>2, OneCurrent
    <2>2. HasRow(u, "INBOX")'
      BY <2>1, <1>3, InsertedIsInInbox
    <2>3. /\ \A i, j \in Announcements(u) : i = j
          /\ Announcements(u) # {} => HasRow(u, "Trash")
      BY <2>1, <1>3, SecondIsAfterTrash
    <2>4. HasRow(u, "Trash") => HasRow(u, "Trash")'
      BY <1>0, TrashStays
    <2> QED BY <2>2, <2>3, <2>4
  <1>4. CASE stage = "emit" /\ UNCHANGED watcherVars
    <2>1. Current(u) /\ u \in todo
      BY <1>4 DEF Current, watcherVars
    <2>2. /\ \A i, j \in Announcements(u) : i = j
          /\ Announcements(u) # {} => HasRow(u, "INBOX") /\ HasRow(u, "Trash")
      BY <1>4, <2>1 DEF AnnounceInv, EmitIsDue
    <2> QED BY <2>2, <1>0, <1>2, BothStay
  <1> QED BY <1>2, <1>3, <1>4, EmitCases

\* Hence the log keeps its two promises in every step.
LEMMA RepeatNext ==
    ASSUME TypeOK, AnnounceInv, [Next]_vars
    PROVE  RepeatOnlyAfterTrash' /\ AnnouncedAtMostTwice'
  <1>0. message_view \in Seq(Row) /\ ViewStep
    BY NextKeepsRows DEF TypeOK, StoreTypeOK
  <1>1. \A v : HasRow(v, "INBOX") /\ HasRow(v, "Trash")
                 => HasRow(v, "INBOX")' /\ HasRow(v, "Trash")'
    BY <1>0, BothStay
  <1>2. CASE UNCHANGED events \/ \E r \in Requests : ApiEvent(r)
    <2>1. \A v : Announcements(v)' = Announcements(v)
      BY <1>2, SameAnnouncements
    <2> QED BY <1>1, <2>1 DEF AnnounceInv, RepeatOnlyAfterTrash, AnnouncedAtMostTwice
  <1>3. ASSUME NEW u \in todo, EmitDelivered(u)
        PROVE  RepeatOnlyAfterTrash' /\ AnnouncedAtMostTwice'
    <2>1. PICK n : Announcements(u)' = Announcements(u) \cup {n}
      BY <1>3, OneMoreAnnouncement
    <2>2. \A v : v # u => Announcements(v)' = Announcements(v)
      BY <1>3, OneMoreAnnouncement
    <2>3. /\ \A i, j \in Announcements(u) : i = j
          /\ Announcements(u) # {} => HasRow(u, "INBOX") /\ HasRow(u, "Trash")
      BY <1>3 DEF EmitDelivered, AnnounceInv, EmitIsDue
    <2>4. \A i, j \in Announcements(u)' : i # j => HasRow(u, "INBOX") /\ HasRow(u, "Trash")
      BY <2>1, <2>3
    <2>5. \A i, j, k \in Announcements(u)' : i = j \/ j = k \/ i = k
      BY <2>1, <2>3
    <2>6. RepeatOnlyAfterTrash'
      BY <1>1, <2>2, <2>4 DEF AnnounceInv, RepeatOnlyAfterTrash
    <2>7. AnnouncedAtMostTwice'
      BY <2>2, <2>5 DEF AnnounceInv, AnnouncedAtMostTwice
    <2> QED BY <2>6, <2>7
  <1> QED BY <1>2, <1>3, NextEvents

\* AnnounceInv holds initially.
LEMMA AnnounceInit == Init => AnnounceInv
  <1> SUFFICES ASSUME Init PROVE AnnounceInv
    OBVIOUS
  <1>1. events = <<>> /\ stage = "connect"
    BY DEF Init, StoreInit, WatcherInit
  <1>2. \A u : Announcements(u) = {}
    BY <1>1 DEF Announcements
  <1> QED BY <1>1, <1>2 DEF AnnounceInv, ScanIsFresh, EmitIsDue, RepeatOnlyAfterTrash,
                            AnnouncedAtMostTwice

\* The scan's knowledge of INBOX never goes stale in the direction that matters,
\* so a pending announcement is always due (scanNewMessages).  A truncated read
\* of the known UIDs is excluded: it makes the scan announce a message again.
THEOREM AnnounceCorrect ==
    ASSUME "truncated" \notin Faults
    PROVE  Spec => []AnnounceInv
  <1>1. TypeOK /\ BackedInv /\ AnnounceInv /\ [Next]_vars => AnnounceInv'
    BY FreshNext, EmitIsDueNext, RepeatNext DEF AnnounceInv
  <1> QED BY AnnounceInit, <1>1, TypeCorrect, BackedCorrect, PTL DEF Spec

\* Scans, reconnections, crashes and lost statements never make the watcher
\* announce a message twice; only moving its row to Trash does.
THEOREM RepeatOnlyAfterTrashCorrect ==
    ASSUME "truncated" \notin Faults
    PROVE  Spec => []RepeatOnlyAfterTrash
  <1>1. AnnounceInv => RepeatOnlyAfterTrash
    BY DEF AnnounceInv
  <1> QED BY <1>1, AnnounceCorrect, PTL

\* However often a message is deleted, it is announced at most twice.
THEOREM AnnouncedAtMostTwiceCorrect ==
    ASSUME "truncated" \notin Faults
    PROVE  Spec => []AnnouncedAtMostTwice
  <1>1. AnnounceInv => AnnouncedAtMostTwice
    BY DEF AnnounceInv
  <1> QED BY <1>1, AnnounceCorrect, PTL

------------------------------------------------------------------------------
(* What the statements do to flags and bodies.                              *)

\* Row i is still the row of the same message, with the same body, and the
\* statement marks it as read only if C.
RowKept(i, C) ==
    /\ i \in DOMAIN message_view
    /\ message_view'[i].body = message_view[i].body
    /\ message_view'[i].is_read => message_view[i].is_read \/ C

\* Row i is new and of message u, without body only if C.
RowMade(i, u, C) ==
    /\ i \notin DOMAIN message_view
    /\ message_view'[i].uid = u
    /\ message_view'[i].is_read => u \in fetched
    /\ message_view'[i].body = "NULL" => C

\* A statement that changes one row, and not its body.
LEMMA ReplaceContent ==
    ASSUME message_view \in Seq(Row), NEW id \in DOMAIN message_view, NEW row \in Row, NEW C,
           row.body = message_view[id].body,
           row.is_read => message_view[id].is_read \/ C,
           message_view' = [message_view EXCEPT ![id] = row],
           NEW i \in DOMAIN message_view'
    PROVE  RowKept(i, C /\ i = id)
  <1>1. /\ DOMAIN message_view' = DOMAIN message_view
        /\ \A j \in DOMAIN message_view :
              message_view'[j] = IF j = id THEN row ELSE message_view[j]
    BY ReplaceRow
  <1> QED BY <1>1 DEF RowKept

\* A statement that leaves message_view alone.
LEMMA SameContent ==
    ASSUME UNCHANGED message_view, NEW i \in DOMAIN message_view', NEW C
    PROVE  RowKept(i, C)
  BY DEF RowKept

\* A statement that inserts a row.
LEMMA AppendContent ==
    ASSUME message_view \in Seq(Row), NEW u \in Uids, NEW b \in Bodies, NEW C \in BOOLEAN,
           (u \in fetched) \in BOOLEAN, b = "NULL" => C,
           message_view' = Append(message_view, NewRow(u, u \in fetched, b)),
           NEW i \in DOMAIN message_view'
    PROVE  RowKept(i, FALSE) \/ RowMade(i, u, C)
  <1> DEFINE row == NewRow(u, u \in fetched, b)
             n == Len(message_view)
  <1>1. /\ row \in Row /\ row.uid = u
        /\ row.is_read = (u \in fetched)
        /\ row.body = b
    BY DEF NewRow, Row, Folders
  <1> HIDE DEF row
  <1>2. message_view' = Append(message_view, row)
    BY DEF row
  <1>3. /\ n \in Nat
        /\ DOMAIN message_view = 1 .. n
        /\ DOMAIN message_view' = 1 .. n + 1
        /\ \A j \in 1 .. n : message_view'[j] = message_view[j]
        /\ message_view'[n + 1] = row
    BY <1>1, <1>2, AppendRow, LenProperties
  <1>4. CASE i \in 1 .. n
    BY <1>3, <1>4 DEF RowKept
  <1>5. CASE i = n + 1
    <2>1. i \notin DOMAIN message_view /\ message_view'[i] = row
      BY <1>3, <1>5
    <2> QED BY <1>1, <2>1 DEF RowMade
  <1>6. i \in 1 .. n \/ i = n + 1
    <2> HIDE DEF n
    <2> QED BY <1>3
  <1> QED BY <1>4, <1>5, <1>6

\* What the watcher writes: the flags of its FETCH, and no body of an existing row.
LEMMA WatcherContent ==
    ASSUME TypeOK, NEW u \in todo,
           UpsertKnown(u) \/ InsertNew(u) \/ InsertNewFails(u),
           NEW i \in DOMAIN message_view'
    PROVE  \/ RowKept(i, message_view[i].uid \in fetched)
           \/ RowMade(i, u, u \in known /\ ~HasRow(u, "INBOX"))
  <1> DEFINE C == u \in known /\ ~HasRow(u, "INBOX")
  <1>1. /\ u \in Uids /\ (u \in fetched) \in BOOLEAN /\ has_body \in BOOLEAN
        /\ message_view \in Seq(Row)
    BY DEF TypeOK, StoreTypeOK, WatcherTypeOK
  <1>2. CASE UNCHANGED message_view
    BY <1>2, SameContent
  <1>3. ASSUME NEW b \in Bodies, b = "NULL" => C,
               message_view' = Append(message_view, NewRow(u, u \in fetched, b))
        PROVE  RowKept(i, FALSE) \/ RowMade(i, u, C)
    <2>1. C \in BOOLEAN
      OBVIOUS
    <2> HIDE DEF C
    <2> QED BY <1>1, <1>3, <2>1, AppendContent
  <1>4. CASE InsertMessage(u, u \in fetched, has_body)
    <2> DEFINE b == IF has_body THEN "fetched" ELSE "empty"
    <2>1. b \in Bodies /\ b # "NULL"
      BY DEF Bodies
    <2>2. \/ UNCHANGED message_view
          \/ message_view' = Append(message_view, NewRow(u, u \in fetched, b))
      BY <1>4 DEF InsertMessage
    <2> HIDE DEF b, C
    <2>3. UNCHANGED message_view \/ RowKept(i, FALSE) \/ RowMade(i, u, C)
      BY <1>3, <2>1, <2>2
    <2> QED BY <1>2, <2>3 DEF RowKept, C
  <1>5. CASE UpsertKnown(u)
    <2>0. UpsertHeaders(u, u \in fetched) /\ u \in known
      BY <1>5 DEF UpsertKnown
    <2>1. CASE HasRow(u, "INBOX")
      <3>1. PICK id \in Ids(u, "INBOX") :
               message_view' = [message_view EXCEPT ![id].is_read = (u \in fetched)]
        BY <2>0, <2>1 DEF UpsertHeaders
      <3> DEFINE row == [message_view[id] EXCEPT !.is_read = (u \in fetched)]
      <3>2. id \in DOMAIN message_view /\ message_view[id].uid = u
        BY DEF Ids
      <3>3. message_view[id] \in Row
        BY <1>1, <3>2, RowIsRecord
      <3>4. /\ row \in Row /\ row.body = message_view[id].body
            /\ row.is_read = (u \in fetched)
        BY <1>1, <3>3 DEF Row
      <3>5. message_view' = [message_view EXCEPT ![id] = row]
        BY <3>1
      <3> HIDE DEF row
      <3>6. RowKept(i, u \in fetched /\ i = id)
        BY <1>1, <3>2, <3>4, <3>5, ReplaceContent
      <3> QED BY <3>2, <3>6 DEF RowKept
    <2>2. CASE ~HasRow(u, "INBOX")
      <3>1. message_view' = Append(message_view, NewRow(u, u \in fetched, "NULL"))
        BY <2>0, <2>2 DEF UpsertHeaders
      <3>2. "NULL" \in Bodies /\ C
        BY <2>0, <2>2 DEF Bodies
      <3> HIDE DEF C
      <3>3. RowKept(i, FALSE) \/ RowMade(i, u, C)
        BY <1>3, <3>1, <3>2
      <3> QED BY <3>3 DEF RowKept, C
    <2> QED BY <2>1, <2>2
  <1> QED BY <1>2, <1>4, <1>5 DEF InsertNew, InsertNewFails

\* An UPDATE by id that leaves the body alone.
LEMMA UpdateContent ==
    ASSUME message_view \in Seq(Row), NEW id, NEW row, NEW C \in BOOLEAN,
           id \in DOMAIN message_view =>
              /\ row \in Row
              /\ row.body = message_view[id].body
              /\ row.is_read => message_view[id].is_read \/ C,
           UpdateRow(id, row),
           NEW i \in DOMAIN message_view'
    PROVE  RowKept(i, C /\ i = id)
  <1>1. CASE id \notin DOMAIN message_view
    <2>1. UNCHANGED message_view
      BY <1>1 DEF UpdateRow
    <2> QED BY <2>1, SameContent
  <1>2. CASE id \in DOMAIN message_view
    <2>1. message_view' = [message_view EXCEPT ![id] = row]
      BY <1>2 DEF UpdateRow
    <2> QED BY <1>2, <2>1, ReplaceContent
  <1> QED BY <1>1, <1>2

\* Handlers leave bodies alone, and only PATCH with is_read marks a row as read.
LEMMA ApiContent ==
    ASSUME TypeOK, NEW r \in Requests, Begin(r) \/ ApiStep(r) \/ ApiFault(r),
           NEW i \in DOMAIN message_view'
    PROVE  RowKept(i, UpdateRead(r) /\ i = req[r].id /\ req[r].call.is_read = "true")
  <1> DEFINE id == req[r].id
             read == req[r].call.is_read = "true"
             star == req[r].call.is_starred = "true"
  <1>1. message_view \in Seq(Row) /\ read \in BOOLEAN /\ star \in BOOLEAN
    BY DEF TypeOK, StoreTypeOK
  <1>2. id \in DOMAIN message_view => message_view[id] \in Row
    BY <1>1, RowIsRecord
  <1> HIDE DEF read, star
  <1>3. CASE UpdateRead(r)
    <2> DEFINE row == [message_view[id] EXCEPT !.is_read = read]
    <2>1. id \in DOMAIN message_view =>
             /\ row \in Row
             /\ row.body = message_view[id].body
             /\ row.is_read => message_view[id].is_read \/ read
      BY <1>1, <1>2 DEF Row
    <2>2. UpdateRow(id, row)
      BY <1>3 DEF UpdateRead, read
    <2> HIDE DEF row
    <2>3. RowKept(i, read /\ i = id)
      BY <1>1, <2>1, <2>2, UpdateContent
    <2> QED BY <1>3, <2>3 DEF RowKept, read
  <1>4. CASE UpdateStarred(r)
    <2> DEFINE row == [message_view[id] EXCEPT !.is_starred = star]
    <2>1. id \in DOMAIN message_view =>
             /\ row \in Row
             /\ row.body = message_view[id].body
             /\ row.is_read => message_view[id].is_read \/ FALSE
      BY <1>1, <1>2 DEF Row
    <2>2. UpdateRow(id, row)
      BY <1>4 DEF UpdateStarred, star
    <2> HIDE DEF row
    <2>3. RowKept(i, FALSE /\ i = id)
      BY <1>1, <2>1, <2>2, UpdateContent
    <2> QED BY <2>3 DEF RowKept
  <1>5. CASE DeleteRow(r)
    <2>1. ASSUME NEW row, UpdateRow(id, row),
                 id \in DOMAIN message_view =>
                    row \in {[message_view[id] EXCEPT !.is_deleted = TRUE],
                             [message_view[id] EXCEPT !.folder = "Trash"]}
          PROVE  RowKept(i, FALSE)
      <3>1. id \in DOMAIN message_view =>
               /\ row \in Row
               /\ row.body = message_view[id].body
               /\ row.is_read => message_view[id].is_read \/ FALSE
        BY <1>2, <2>1 DEF Row, Folders
      <3>2. RowKept(i, FALSE /\ i = id)
        BY <1>1, <2>1, <3>1, UpdateContent
      <3> QED BY <3>2 DEF RowKept
    <2>2. \/ UNCHANGED message_view
          \/ UpdateRow(id, [message_view[id] EXCEPT !.is_deleted = TRUE])
          \/ UpdateRow(id, [message_view[id] EXCEPT !.folder = "Trash"])
      BY <1>5 DEF DeleteRow, MoveToTrash
    <2>3. UNCHANGED message_view \/ RowKept(i, FALSE)
      BY <2>1, <2>2
    <2> QED BY <2>3, SameContent DEF RowKept
  <1>6. CASE \/ Begin(r) \/ Lookup(r) \/ EmitRead(r) \/ EmitStarred(r) \/ EmitDeleted(r)
             \/ ApiFault(r)
    <2>1. UNCHANGED message_view
      BY <1>6 DEF Begin, Lookup, EmitRead, EmitStarred, EmitDeleted, ApiFault, LookupFails,
                  UpdateFails, EmitFails, Abort, storeVars
    <2> QED BY <2>1, SameContent
  <1> QED BY <1>3, <1>4, <1>5, <1>6 DEF ApiStep

\* What any step does to a row.
LEMMA NextContent ==
    ASSUME TypeOK, [Next]_vars, NEW i \in DOMAIN message_view'
    PROVE  \/ RowKept(i, FALSE)
           \/ RowKept(i, message_view[i].uid \in fetched)
           \/ \E u \in todo : RowMade(i, u, u \in known /\ ~HasRow(u, "INBOX"))
           \/ \E r \in Requests :
                 /\ UpdateRead(r) /\ i = req[r].id /\ req[r].call.is_read = "true"
                 /\ RowKept(i, TRUE)
  <1>1. CASE UNCHANGED message_view
    BY <1>1, SameContent
  <1>2. CASE WatcherNext
    <2>1. ASSUME NEW u \in todo, EmitDelivered(u)
          PROVE  UNCHANGED message_view
      BY <2>1 DEF EmitDelivered
    <2> QED BY <1>1, <1>2, <2>1, WatcherCases, WatcherContent DEF WatcherReads
  <1>3. ASSUME NEW r \in Requests, Begin(r) \/ ApiStep(r) \/ ApiFault(r)
        PROVE  \/ RowKept(i, FALSE)
               \/ /\ UpdateRead(r) /\ i = req[r].id /\ req[r].call.is_read = "true"
                  /\ RowKept(i, TRUE)
    BY <1>3, ApiContent DEF RowKept
  <1>4. CASE Deliver \/ UNCHANGED vars
    BY <1>1, <1>4 DEF Deliver, vars, storeVars
  <1> QED BY <1>2, <1>3, <1>4 DEF Next, ApiNext

\* A row keeps its message.
LEMMA NextKeepsUids ==
    ASSUME TypeOK, [Next]_vars, NEW i \in DOMAIN message_view
    PROVE  i \in DOMAIN message_view' /\ message_view'[i].uid = message_view[i].uid
  BY NextKeepsRows DEF ViewStep

\* Dovecot never takes \Seen back.
LEMMA SeenGrows ==
    ASSUME TypeOK, [Next]_vars
    PROVE  seen \subseteq seen'
  <1>1. CASE WatcherNext
    BY <1>1 DEF WatcherNext, WatcherStep, WatcherFault, Connect, ConnectFails, BackoffElapsed,
       IdleReturns, IdleFails, FetchHeaders, FetchHeadersFails, QueryKnown, QueryKnownFails,
       QueryKnownTruncated, Crash, UpsertKnown, UpsertKnownFails, FetchBody, FetchBodyFails,
       ExtractBody, InsertNew, InsertNewRefused, InsertNewFails, EmitDelivered,
       EmitDeliveredFails, SetSeen, storeVars
  <1>2. ASSUME NEW r \in Requests, Begin(r) \/ ApiStep(r) \/ ApiFault(r)
        PROVE  seen' = seen
    BY <1>2, ApiEvents
  <1>3. CASE Deliver \/ UNCHANGED vars
    BY <1>3 DEF Deliver, vars, storeVars
  <1> QED BY <1>1, <1>2, <1>3 DEF Next, ApiNext

\* What the scan knows was known before, or had a row in INBOX at the query.
LEMMA KnownSource ==
    ASSUME TypeOK, [Next]_vars, NEW u \in known'
    PROVE  u \in known \/ HasRow(u, "INBOX")
  <1>1. CASE WatcherNext
    <2>1. ASSUME NEW v \in todo, NextMessage(v) PROVE u \in known
      BY <2>1 DEF NextMessage, NoScan
    <2>2. CASE QueryKnown \/ QueryKnownTruncated
      BY <2>2 DEF QueryKnown, QueryKnownTruncated, TrackedInInbox
    <2>3. CASE QueryKnownFails \/ Crash
      BY <2>3 DEF QueryKnownFails, Crash, NoScan
    <2>4. CASE \/ Connect \/ ConnectFails \/ BackoffElapsed \/ IdleReturns \/ IdleFails
               \/ FetchHeaders \/ FetchHeadersFails
      BY <2>4 DEF Connect, ConnectFails, BackoffElapsed, IdleReturns, IdleFails,
                  FetchHeaders, FetchHeadersFails
    <2>5. ASSUME NEW v \in todo,
                 FetchBody(v) \/ FetchBodyFails(v) \/ ExtractBody(v) \/ InsertNew(v)
          PROVE  u \in known
      BY <2>5 DEF FetchBody, FetchBodyFails, ExtractBody, InsertNew
    <2>6. ASSUME NEW v \in todo,
                 \/ UpsertKnown(v) \/ UpsertKnownFails(v) \/ InsertNewRefused(v)
                 \/ InsertNewFails(v) \/ EmitDelivered(v) \/ EmitDeliveredFails(v)
          PROVE  u \in known
      BY <2>1, <2>6 DEF UpsertKnown, UpsertKnownFails, InsertNewRefused, InsertNewFails,
                        EmitDelivered, EmitDeliveredFails
    <2> QED BY <1>1, <2>2, <2>3, <2>4, <2>5, <2>6 DEF WatcherNext, WatcherStep, WatcherFault
  <1>2. CASE UNCHANGED watcherVars
    BY <1>2 DEF watcherVars
  <1> QED BY <1>1, <1>2 DEF Next, vars

LEMMA KnownTrackedNext ==
    ASSUME TypeOK, KnownTracked, [Next]_vars
    PROVE  KnownTracked'
  <1> SUFFICES ASSUME NEW u \in known' PROVE Tracked(u)'
    BY DEF KnownTracked
  <1>1. message_view \in Seq(Row) /\ ViewStep
    BY NextKeepsRows DEF TypeOK, StoreTypeOK
  <1>2. Tracked(u)
    BY KnownSource DEF KnownTracked, Tracked, Folders
  <1> QED BY <1>1, <1>2, TrackedStays

\* A handler that has asked for a row to be marked as read has always asked.
LEMMA AskedStays ==
    ASSUME TypeOK, [Next]_vars, NEW r \in Requests, NEW i, AskedRead(r, i)
    PROVE  AskedRead(r, i)'
  <1>1. req \in [Requests -> Request]
    BY DEF TypeOK, ApiTypeOK
  <1>2. ASSUME NEW q \in Requests, NEW stg, GoTo(q, stg), stg \notin {"idle", "lookup"}
        PROVE  AskedRead(r, i)'
    <2>1. /\ req'[r].id = req[r].id /\ req'[r].call = req[r].call
          /\ req'[r].stage \in {stg, req[r].stage}
      BY <1>1, <1>2 DEF GoTo, Request
    <2> QED BY <1>2, <2>1 DEF AskedRead
  <1>3. ASSUME NEW q \in Requests, Begin(q) \/ ApiStep(q) \/ ApiFault(q)
        PROVE  AskedRead(r, i)'
    <2>1. /\ req[q].stage # "idle" => req[q].call \in Calls
          /\ AfterLookup(req[q].call) \notin {"idle", "lookup"}
          /\ AfterRead(req[q].call) \notin {"idle", "lookup"}
      BY DEF TypeOK, ApiTypeOK, AfterLookup, AfterRead
    <2>2. CASE Begin(q)
      <3>1. q # r
        BY <2>2 DEF Begin, AskedRead
      <3>2. req'[r] = req[r]
        BY <1>1, <2>2, <3>1 DEF Begin
      <3> QED BY <3>2 DEF AskedRead
    <2>3. CASE Lookup(q) /\ req[q].id \in DOMAIN message_view
      <3>1. q # r
        BY <2>3 DEF Lookup, AskedRead
      <3>2. req'[r] = req[r]
        BY <1>1, <2>3, <3>1 DEF Lookup
      <3> QED BY <3>2 DEF AskedRead
    <2>4. CASE \/ Lookup(q) /\ req[q].id \notin DOMAIN message_view
               \/ EmitStarred(q) \/ EmitDeleted(q) \/ Abort(q)
      BY <1>2, <2>4 DEF Lookup, EmitStarred, EmitDeleted, Abort
    <2>5. CASE LookupFails(q) \/ EmitRead(q)
      BY <1>2, <2>1, <2>5 DEF LookupFails, EmitRead
    <2>6. CASE UpdateRead(q) \/ UpdateStarred(q) \/ DeleteRow(q)
      BY <1>2, <2>6 DEF UpdateRead, UpdateStarred, DeleteRow
    <2>7. CASE UpdateFails(q) \/ EmitFails(q)
      <3>1. NextStage(q) \notin {"idle", "lookup"}
        BY <2>1, <2>7 DEF UpdateFails, EmitFails, NextStage
      <3> QED BY <1>2, <2>7, <3>1 DEF UpdateFails, EmitFails
    <2> QED BY <1>3, <2>2, <2>3, <2>4, <2>5, <2>6, <2>7 DEF ApiStep, ApiFault
  <1>4. CASE UNCHANGED req
    BY <1>4 DEF AskedRead
  <1> QED BY <1>3, <1>4 DEF Next, ApiNext, vars

LEMMA BodylessNext ==
    ASSUME TypeOK, KnownTracked, BodylessOnlyAfterTrash, [Next]_vars
    PROVE  BodylessOnlyAfterTrash'
  <1> SUFFICES ASSUME NEW i \in DOMAIN message_view', message_view'[i].body = "NULL"
               PROVE  HasRow(message_view[i].uid, "Trash")'
    BY DEF BodylessOnlyAfterTrash
  <1>1. message_view \in Seq(Row) /\ ViewStep
    BY NextKeepsRows DEF TypeOK, StoreTypeOK
  <1>2. ASSUME NEW v, HasRow(v, "Trash") PROVE HasRow(v, "Trash")'
    BY <1>1, <1>2, TrashStays
  <1>3. ASSUME NEW C, RowKept(i, C)
        PROVE  HasRow(message_view[i].uid, "Trash")'
    <2>1. HasRow(message_view[i].uid, "Trash")
      BY <1>3 DEF RowKept, BodylessOnlyAfterTrash
    <2>2. message_view'[i].uid = message_view[i].uid
      BY <1>3, NextKeepsUids DEF RowKept
    <2> QED BY <1>2, <2>1, <2>2 DEF HasRow, Ids
  <1>4. ASSUME NEW u \in todo, RowMade(i, u, u \in known /\ ~HasRow(u, "INBOX"))
        PROVE  HasRow(message_view[i].uid, "Trash")'
    <2>1. message_view'[i].uid = u /\ u \in known /\ ~HasRow(u, "INBOX")
      BY <1>4 DEF RowMade
    <2>2. HasRow(u, "Trash")
      BY <2>1 DEF KnownTracked, Tracked, Folders
    <2> QED BY <1>2, <2>1, <2>2 DEF HasRow, Ids
  <1> QED BY <1>3, <1>4, NextContent

LEMMA ReadHasCauseNext ==
    ASSUME TypeOK, ReadHasCause, [Next]_vars
    PROVE  ReadHasCause'
  <1> SUFFICES ASSUME NEW i \in DOMAIN message_view', message_view'[i].is_read
               PROVE  \/ message_view'[i].uid \in seen'
                      \/ \E r \in Requests : AskedRead(r, i)'
    BY DEF ReadHasCause
  <1>1. seen \subseteq seen' /\ fetched \subseteq seen
    BY SeenGrows DEF TypeOK, WatcherTypeOK
  <1>2. ASSUME i \in DOMAIN message_view, message_view[i].is_read
        PROVE  \/ message_view'[i].uid \in seen'
               \/ \E r \in Requests : AskedRead(r, i)'
    BY <1>1, <1>2, NextKeepsUids, AskedStays DEF ReadHasCause
  <1>3. CASE RowKept(i, FALSE)
    BY <1>2, <1>3 DEF RowKept
  <1>4. CASE RowKept(i, message_view[i].uid \in fetched)
    BY <1>1, <1>2, <1>4, NextKeepsUids DEF RowKept
  <1>5. ASSUME NEW u \in todo, RowMade(i, u, u \in known /\ ~HasRow(u, "INBOX"))
        PROVE  message_view'[i].uid \in seen'
    BY <1>1, <1>5 DEF RowMade
  <1>6. ASSUME NEW r \in Requests,
               UpdateRead(r), i = req[r].id, req[r].call.is_read = "true"
        PROVE  AskedRead(r, i)'
    <2>1. req \in [Requests -> Request] /\ req[r].call.op = "patch"
      BY <1>6 DEF UpdateRead, TypeOK, ApiTypeOK
    <2>2. /\ req'[r].id = req[r].id /\ req'[r].call = req[r].call
          /\ req'[r].stage = "readEvent"
      BY <1>6, <2>1 DEF UpdateRead, GoTo, Request
    <2> QED BY <1>6, <2>1, <2>2 DEF AskedRead
  <1> QED BY <1>3, <1>4, <1>5, <1>6, NextContent

LEMMA ContentInit == Init => ContentInv
  <1> SUFFICES ASSUME Init PROVE ContentInv
    OBVIOUS
  <1>1. DOMAIN message_view = {} /\ known = {}
    BY EmptySeq DEF Init, StoreInit, WatcherInit
  <1> QED BY <1>1 DEF ContentInv, KnownTracked, BodylessOnlyAfterTrash, ReadHasCause

LEMMA ContentNext == TypeOK /\ ContentInv /\ [Next]_vars => ContentInv'
  BY KnownTrackedNext, BodylessNext, ReadHasCauseNext DEF ContentInv

\* What a scan knows is tracked, and where flags and empty bodies come from: the
\* inductive invariant behind the next two theorems.
THEOREM ContentCorrect == Spec => []ContentInv
  BY ContentInit, ContentNext, TypeCorrect, PTL DEF Spec

\* A row whose body columns are NULL was left by the upsert of a message that the
\* scan knew and a client moved to Trash meanwhile, even if reads are truncated.
THEOREM BodylessOnlyAfterTrashCorrect == Spec => []BodylessOnlyAfterTrash
  <1>1. ContentInv => BodylessOnlyAfterTrash
    BY DEF ContentInv
  <1> QED BY <1>1, ContentCorrect, PTL

\* A row reads as read because Dovecot has \Seen on its message, or because a
\* client asked for this row: no stale FETCH result invents it.
THEOREM ReadHasCauseCorrect == Spec => []ReadHasCause
  <1>1. ContentInv => ReadHasCause
    BY DEF ContentInv
  <1> QED BY <1>1, ContentCorrect, PTL

------------------------------------------------------------------------------
(* MailSync implements MailLifecycle under the refinement mapping            *)
(* MailSync!Lifecycle: what the statements do to RowKeys and AnnouncedUids,  *)
(* EmitIsLast (the announced row is the last one), and then each step maps   *)
(* to a step of MailLifecycle or to a stutter.                               *)

KeySet == [uid: Uids, folder: Folders]

\* The mapped rows are a sequence as long as the view.
RowKeysOK ==
    /\ RowKeys \in Seq(KeySet)
    /\ Len(RowKeys) = Len(message_view)
    /\ Len(message_view) \in Nat
    /\ DOMAIN RowKeys = 1 .. Len(message_view)
    /\ DOMAIN message_view = 1 .. Len(message_view)
    /\ \A i \in DOMAIN message_view :
          /\ RowKeys[i] = [uid |-> message_view[i].uid, folder |-> message_view[i].folder]
          /\ RowKeys[i] \in KeySet
          /\ RowKeys[i].uid = message_view[i].uid
          /\ RowKeys[i].folder = message_view[i].folder

\* A function on 1 .. n is a sequence of that length.
LEMMA FunctionIsSeq ==
    ASSUME NEW S, NEW n \in Nat, NEW s \in [1 .. n -> S]
    PROVE  s \in Seq(S) /\ Len(s) = n
  <1>1. s \in Seq(S)
    BY SeqDef
  <1>2. Len(s) \in Nat /\ DOMAIN s = 1 .. Len(s)
    BY <1>1, LenProperties
  <1>3. 1 .. Len(s) = 1 .. n
    BY <1>2
  <1> QED BY <1>1, <1>2, <1>3

LEMMA RowKeysFacts == message_view \in Seq(Row) => RowKeysOK
  <1> SUFFICES ASSUME message_view \in Seq(Row) PROVE RowKeysOK
    OBVIOUS
  <1> DEFINE n == Len(message_view)
  <1>1. n \in Nat /\ DOMAIN message_view = 1 .. n
    BY LenProperties
  <1>2. ASSUME NEW i \in DOMAIN message_view
        PROVE  /\ message_view[i].uid \in Uids
               /\ message_view[i].folder \in Folders
    <2>1. message_view[i] \in Row
      BY RowIsRecord
    <2> QED BY <2>1 DEF Row
  <1>3. \A i \in DOMAIN message_view :
          /\ RowKeys[i] = [uid |-> message_view[i].uid, folder |-> message_view[i].folder]
          /\ RowKeys[i] \in KeySet
          /\ RowKeys[i].uid = message_view[i].uid
          /\ RowKeys[i].folder = message_view[i].folder
    BY <1>2 DEF RowKeys, KeySet
  <1>4. RowKeys \in [1 .. n -> KeySet]
    BY <1>1, <1>3 DEF RowKeys
  <1> HIDE DEF n
  <1>5. RowKeys \in Seq(KeySet) /\ Len(RowKeys) = n /\ DOMAIN RowKeys = 1 .. n
    BY <1>1, <1>4, FunctionIsSeq
  <1> QED BY <1>1, <1>3, <1>5 DEF RowKeysOK, n

\* Before and after a step.
LEMMA RowKeysNext == TypeOK /\ [Next]_vars => RowKeysOK /\ RowKeysOK'
  <1>1. TypeOK /\ [Next]_vars => message_view \in Seq(Row) /\ TypeOK'
    BY TypeNext DEF TypeOK, StoreTypeOK
  <1>2. TypeOK => message_view \in Seq(Row)
    BY DEF TypeOK, StoreTypeOK
  <1> QED BY <1>1, <1>2, RowKeysFacts, PTL

\* The abstract specification sees the rows of MailStore.
LEMMA HoldsIsHasRow ==
    ASSUME RowKeysOK, NEW u, NEW f
    PROVE  Lifecycle!Holds(u, f) <=> HasRow(u, f)
  BY DEF RowKeysOK, Lifecycle!Holds, HasRow, Ids

------------------------------------------------------------------------------
(* What the statements do to the mapped rows.                               *)

\* A statement that leaves each row's message and folder alone.
LEMMA SameKeys ==
    ASSUME DOMAIN message_view' = DOMAIN message_view,
           \A i \in DOMAIN message_view :
              /\ message_view'[i].uid = message_view[i].uid
              /\ message_view'[i].folder = message_view[i].folder
    PROVE  RowKeys' = RowKeys
  BY DEF RowKeys

\* The rows do not change, or one is stored, or one is moved.
KeysStay == RowKeys' = RowKeys /\ Len(message_view') = Len(message_view)

KeyStored(u) ==
    /\ ~HasRow(u, "INBOX")
    /\ RowKeys' = Append(RowKeys, [uid |-> u, folder |-> "INBOX"])
    /\ Len(message_view') = Len(message_view) + 1
    /\ message_view'[Len(message_view')].uid = u

KeyMoved ==
    /\ Len(message_view') = Len(message_view)
    /\ \E i \in DOMAIN message_view :
          /\ message_view[i].folder = "INBOX"
          /\ ~HasRow(message_view[i].uid, "Trash")
          /\ RowKeys' = [RowKeys EXCEPT ![i].folder = "Trash"]

LEMMA UnchangedKeys == UNCHANGED message_view => KeysStay
  BY DEF KeysStay, RowKeys

LEMMA ReplaceKeys ==
    ASSUME message_view \in Seq(Row), NEW i \in DOMAIN message_view, NEW row \in Row,
           row.uid = message_view[i].uid, row.folder = message_view[i].folder,
           message_view' = [message_view EXCEPT ![i] = row]
    PROVE  KeysStay
  <1>1. /\ DOMAIN message_view' = DOMAIN message_view
        /\ Len(message_view') = Len(message_view)
        /\ \A j \in DOMAIN message_view :
              message_view'[j] = IF j = i THEN row ELSE message_view[j]
    BY ReplaceRow
  <1>2. \A j \in DOMAIN message_view :
           /\ message_view'[j].uid = message_view[j].uid
           /\ message_view'[j].folder = message_view[j].folder
    BY <1>1
  <1> QED BY <1>1, <1>2, SameKeys DEF KeysStay

LEMMA AppendKeys ==
    ASSUME message_view \in Seq(Row), RowKeysOK, RowKeysOK', NEW u \in Uids,
           NEW r \in BOOLEAN, NEW b \in Bodies, ~HasRow(u, "INBOX"),
           message_view' = Append(message_view, NewRow(u, r, b))
    PROVE  KeyStored(u)
  <1> DEFINE row == NewRow(u, r, b)
             key == [uid |-> u, folder |-> "INBOX"]
             n == Len(message_view)
  <1>1. row \in Row /\ row.uid = u /\ row.folder = "INBOX"
    BY DEF NewRow, Row, Folders
  <1>2. key \in KeySet
    BY DEF KeySet, Folders
  <1>3. key = [uid |-> row.uid, folder |-> row.folder]
    BY <1>1
  <1> HIDE DEF row, key
  <1>4. message_view' = Append(message_view, row)
    BY DEF row
  <1>5. /\ n \in Nat
        /\ Len(message_view') = n + 1
        /\ DOMAIN message_view' = 1 .. n + 1
        /\ \A i \in 1 .. n : message_view'[i] = message_view[i]
        /\ message_view'[n + 1] = row
    BY <1>1, <1>4, AppendRow, LenProperties
  <1> DEFINE keys == Append(RowKeys, key)
  <1>6. /\ keys \in Seq(KeySet)
        /\ Len(keys) = n + 1
        /\ \A i \in 1 .. n : keys[i] = RowKeys[i]
        /\ keys[n + 1] = key
    <2>1. RowKeys \in Seq(KeySet) /\ Len(RowKeys) = n
      BY DEF RowKeysOK
    <2> HIDE DEF n
    <2> QED BY <1>2, <2>1, AppendRow
  <1>7. /\ RowKeys' \in Seq(KeySet)
        /\ Len(RowKeys') = n + 1
        /\ \A i \in 1 .. n + 1 :
              RowKeys'[i] = [uid |-> message_view'[i].uid, folder |-> message_view'[i].folder]
    BY <1>5 DEF RowKeysOK
  <1>8. \A i \in 1 .. n :
           RowKeys[i] = [uid |-> message_view[i].uid, folder |-> message_view[i].folder]
    BY DEF RowKeysOK
  <1> HIDE DEF keys, n
  <1>9. \A i \in 1 .. n + 1 : RowKeys'[i] = keys[i]
    <2>1. ASSUME NEW i \in 1 .. n PROVE RowKeys'[i] = keys[i]
      <3>1. i \in 1 .. n + 1
        BY <1>5
      <3> QED BY <3>1, <1>5, <1>6, <1>7, <1>8
    <2>2. RowKeys'[n + 1] = keys[n + 1]
      <3>1. n + 1 \in 1 .. n + 1
        BY <1>5
      <3> QED BY <3>1, <1>3, <1>5, <1>6, <1>7
    <2> QED BY <2>1, <2>2, <1>5
  <1>10. RowKeys' = keys
    BY <1>6, <1>7, <1>9, SeqEqual
  <1> QED BY <1>1, <1>5, <1>10 DEF KeyStored, keys, key, n

\* Delete without "permanent": the row was in INBOX, for Trash has none.
LEMMA MoveKeys ==
    ASSUME message_view \in Seq(Row), RowKeysOK, NEW id \in Nat, MoveToTrash(id)
    PROVE  KeysStay \/ KeyMoved
  <1>1. CASE \/ id \notin DOMAIN message_view
             \/ id \in DOMAIN message_view /\ HasRow(message_view[id].uid, "Trash")
    <2>1. UNCHANGED message_view
      BY <1>1 DEF MoveToTrash, UpdateRow
    <2> QED BY <2>1, UnchangedKeys
  <1>2. CASE id \in DOMAIN message_view /\ ~HasRow(message_view[id].uid, "Trash")
    <2> DEFINE row == [message_view[id] EXCEPT !.folder = "Trash"]
    <2>0. message_view[id] \in Row
      BY <1>2, RowIsRecord
    <2>1. /\ row \in Row
          /\ row.uid = message_view[id].uid
          /\ row.folder = "Trash"
      BY <2>0 DEF Row, Folders
    <2>2. message_view' = [message_view EXCEPT ![id] = row]
      BY <1>2 DEF MoveToTrash, UpdateRow
    <2>3. message_view[id].folder = "INBOX"
      <3>1. message_view[id].folder \in Folders
        BY <2>0 DEF Row
      <3>2. message_view[id].folder # "Trash"
        BY <1>2 DEF HasRow, Ids
      <3> QED BY <3>1, <3>2 DEF Folders
    <2> HIDE DEF row
    <2>4. /\ Len(message_view') = Len(message_view)
          /\ DOMAIN message_view' = DOMAIN message_view
          /\ \A j \in DOMAIN message_view :
                message_view'[j] = IF j = id THEN row ELSE message_view[j]
      BY <1>2, <2>1, <2>2, ReplaceRow
    <2>5. RowKeys' = [RowKeys EXCEPT ![id].folder = "Trash"]
      <3> DEFINE keys == [RowKeys EXCEPT ![id].folder = "Trash"]
      <3>1. RowKeys' = [i \in DOMAIN message_view |->
                          [uid |-> message_view'[i].uid, folder |-> message_view'[i].folder]]
        BY <2>4 DEF RowKeys
      <3>2. \A i \in DOMAIN message_view :
               keys[i] = [uid |-> message_view'[i].uid, folder |-> message_view'[i].folder]
        BY <1>2, <2>1, <2>4 DEF RowKeys
      <3>3. keys = [i \in DOMAIN message_view |-> keys[i]]
        BY DEF RowKeys
      <3> HIDE DEF keys
      <3>4. keys = [i \in DOMAIN message_view |->
                      [uid |-> message_view'[i].uid, folder |-> message_view'[i].folder]]
        BY <3>2, <3>3
      <3> QED BY <3>1, <3>4 DEF keys
    <2> QED BY <1>2, <2>3, <2>4, <2>5 DEF KeyMoved
  <1> QED BY <1>1, <1>2

\* An UPDATE by id of the flags.
LEMMA UpdateKeys ==
    ASSUME message_view \in Seq(Row), NEW id \in Nat, NEW row,
           id \in DOMAIN message_view =>
              /\ row \in Row
              /\ row.uid = message_view[id].uid
              /\ row.folder = message_view[id].folder,
           UpdateRow(id, row)
    PROVE  KeysStay
  BY UnchangedKeys, ReplaceKeys DEF UpdateRow

\* The watcher's statements.
LEMMA WatcherKeys ==
    ASSUME TypeOK, RowKeysOK, RowKeysOK', NEW u \in todo,
           UpsertKnown(u) \/ InsertNew(u) \/ InsertNewFails(u)
    PROVE  KeysStay \/ KeyStored(u)
  <1>1. /\ u \in Uids /\ (u \in fetched) \in BOOLEAN /\ has_body \in BOOLEAN
        /\ message_view \in Seq(Row)
    BY DEF TypeOK, StoreTypeOK, WatcherTypeOK
  <1>2. CASE UNCHANGED message_view
    BY <1>2, UnchangedKeys
  <1>3. ASSUME NEW b \in Bodies, ~HasRow(u, "INBOX"),
               message_view' = Append(message_view, NewRow(u, u \in fetched, b))
        PROVE  KeyStored(u)
    BY <1>1, <1>3, AppendKeys
  <1>4. CASE InsertMessage(u, u \in fetched, has_body)
    <2>1. (IF has_body THEN "fetched" ELSE "empty") \in Bodies
      BY DEF Bodies
    <2> QED BY <1>2, <1>3, <1>4, <2>1 DEF InsertMessage
  <1>5. CASE UpsertHeaders(u, u \in fetched)
    <2>1. CASE HasRow(u, "INBOX")
      <3>1. PICK i \in Ids(u, "INBOX") :
               message_view' = [message_view EXCEPT ![i].is_read = (u \in fetched)]
        BY <1>5, <2>1 DEF UpsertHeaders
      <3> DEFINE row == [message_view[i] EXCEPT !.is_read = (u \in fetched)]
      <3>2. i \in DOMAIN message_view
        BY DEF Ids
      <3>3. row \in Row /\ row.uid = message_view[i].uid /\ row.folder = message_view[i].folder
        <4>1. message_view[i] \in Row
          BY <1>1, <3>2, RowIsRecord
        <4> QED BY <4>1, <1>1 DEF Row
      <3>4. message_view' = [message_view EXCEPT ![i] = row]
        BY <3>1
      <3> HIDE DEF row
      <3> QED BY <1>1, <3>2, <3>3, <3>4, ReplaceKeys
    <2>2. CASE ~HasRow(u, "INBOX")
      BY <1>3, <1>5, <2>2 DEF UpsertHeaders, Bodies
    <2> QED BY <2>1, <2>2
  <1> QED BY <1>2, <1>4, <1>5 DEF UpsertKnown, InsertNew, InsertNewFails

\* A message that the scan takes for new is inserted, so that its row is the last.
LEMMA InsertStores ==
    ASSUME TypeOK, RowKeysOK, RowKeysOK', ScanIsFresh, NEW u \in todo, InsertNew(u)
    PROVE  KeyStored(u)
  <1>1. ~HasRow(u, "INBOX")
    BY DEF InsertNew, ScanIsFresh
  <1>2. /\ u \in Uids /\ (u \in fetched) \in BOOLEAN
        /\ message_view \in Seq(Row)
    BY DEF TypeOK, StoreTypeOK, WatcherTypeOK
  <1> DEFINE body == IF has_body THEN "fetched" ELSE "empty"
  <1>3. body \in Bodies
    BY DEF Bodies
  <1>4. message_view' = Append(message_view, NewRow(u, u \in fetched, body))
    BY <1>1 DEF InsertNew, InsertMessage
  <1> HIDE DEF body
  <1> QED BY <1>1, <1>2, <1>3, <1>4, AppendKeys

\* The handlers' statements.
LEMMA ApiKeys ==
    ASSUME TypeOK, RowKeysOK, NEW r \in Requests,
           Begin(r) \/ ApiStep(r) \/ ApiFault(r)
    PROVE  KeysStay \/ (KeyMoved /\ UNCHANGED events)
  <1>1. message_view \in Seq(Row) /\ req[r].id \in Nat
    BY DEF TypeOK, StoreTypeOK, ApiTypeOK, Request
  <1>2. ASSUME req[r].id \in DOMAIN message_view
        PROVE  message_view[req[r].id] \in Row
    BY <1>1, <1>2, RowIsRecord
  <1>3. CASE UpdateRead(r)
    <2> DEFINE row == [message_view[req[r].id] EXCEPT !.is_read = (req[r].call.is_read = "true")]
    <2>1. req[r].id \in DOMAIN message_view =>
             /\ row \in Row
             /\ row.uid = message_view[req[r].id].uid
             /\ row.folder = message_view[req[r].id].folder
      <3>1. (req[r].call.is_read = "true") \in BOOLEAN
        OBVIOUS
      <3> QED BY <1>2, <3>1 DEF Row
    <2>2. UpdateRow(req[r].id, row)
      BY <1>3 DEF UpdateRead
    <2> HIDE DEF row
    <2> QED BY <1>1, <2>1, <2>2, UpdateKeys
  <1>4. CASE UpdateStarred(r)
    <2> DEFINE row == [message_view[req[r].id] EXCEPT
                         !.is_starred = (req[r].call.is_starred = "true")]
    <2>1. req[r].id \in DOMAIN message_view =>
             /\ row \in Row
             /\ row.uid = message_view[req[r].id].uid
             /\ row.folder = message_view[req[r].id].folder
      <3>1. (req[r].call.is_starred = "true") \in BOOLEAN
        OBVIOUS
      <3> QED BY <1>2, <3>1 DEF Row
    <2>2. UpdateRow(req[r].id, row)
      BY <1>4 DEF UpdateStarred
    <2> HIDE DEF row
    <2> QED BY <1>1, <2>1, <2>2, UpdateKeys
  <1>5. CASE DeleteRow(r) /\ req[r].call.permanent
    <2> DEFINE row == [message_view[req[r].id] EXCEPT !.is_deleted = TRUE]
    <2>1. req[r].id \in DOMAIN message_view =>
             /\ row \in Row
             /\ row.uid = message_view[req[r].id].uid
             /\ row.folder = message_view[req[r].id].folder
      BY <1>2 DEF Row
    <2>2. UpdateRow(req[r].id, row)
      BY <1>5 DEF DeleteRow
    <2> HIDE DEF row
    <2> QED BY <1>1, <2>1, <2>2, UpdateKeys
  <1>6. CASE DeleteRow(r) /\ ~req[r].call.permanent
    <2>1. MoveToTrash(req[r].id) /\ UNCHANGED events
      BY <1>6 DEF DeleteRow
    <2> QED BY <1>1, <2>1, MoveKeys
  <1>7. CASE \/ Begin(r) \/ Lookup(r) \/ EmitRead(r) \/ EmitStarred(r) \/ EmitDeleted(r)
             \/ ApiFault(r)
    <2>1. UNCHANGED message_view
      BY <1>7 DEF Begin, Lookup, EmitRead, EmitStarred, EmitDeleted, ApiFault, LookupFails,
                  UpdateFails, EmitFails, Abort, storeVars
    <2> QED BY <2>1, UnchangedKeys
  <1> QED BY <1>3, <1>4, <1>5, <1>6, <1>7 DEF ApiStep

------------------------------------------------------------------------------
(* What they do to the mapped log.                                          *)

\* The mapped log is a sequence as long as the log.
LEMMA LogFacts ==
    ASSUME NEW log \in Seq(Event), NEW uids,
           uids = [i \in DOMAIN log |->
                      IF log[i].type = "MessageDelivered" THEN log[i].uid ELSE 0]
    PROVE  /\ uids \in Seq(UidOrZero)
           /\ Len(uids) = Len(log)
           /\ \A i \in 1 .. Len(log) :
                 uids[i] = IF log[i].type = "MessageDelivered" THEN log[i].uid ELSE 0
  <1> DEFINE n == Len(log)
  <1>1. n \in Nat /\ DOMAIN log = 1 .. n
    BY LenProperties
  <1>2. ASSUME NEW i \in 1 .. n PROVE log[i].uid \in UidOrZero
    <2>1. log[i] \in Event
      BY <1>1, ElementOfSeq
    <2> QED BY <2>1 DEF Event
  <1>3. uids \in [1 .. n -> UidOrZero]
    BY <1>1, <1>2 DEF UidOrZero
  <1>4. \A i \in 1 .. n :
           uids[i] = IF log[i].type = "MessageDelivered" THEN log[i].uid ELSE 0
    BY <1>1
  <1> HIDE DEF n
  <1>5. uids \in Seq(UidOrZero) /\ Len(uids) = n
    BY <1>1, <1>3, FunctionIsSeq
  <1> QED BY <1>4, <1>5 DEF n

LEMMA EmitLogs ==
    ASSUME events \in Seq(Event), NEW t \in EventTypes, NEW u \in UidOrZero,
           NEW f \in FolderOrEmpty, Emit(t, u, f)
    PROVE  AnnouncedUids' = Append(AnnouncedUids, IF t = "MessageDelivered" THEN u ELSE 0)
  <1> DEFINE x == IF t = "MessageDelivered" THEN u ELSE 0
             n == Len(events)
             uids == Append(AnnouncedUids, x)
  <1>1. x \in UidOrZero
    BY DEF UidOrZero
  <1>2. /\ events' \in Seq(Event)
        /\ n \in Nat
        /\ DOMAIN events = 1 .. n
        /\ DOMAIN events' = 1 .. n + 1
        /\ \A i \in 1 .. n : events'[i] = events[i]
        /\ events'[n + 1] = [type |-> t, uid |-> u, folder |-> f]
    BY EmitType
  <1>3. Len(events') = n + 1
    <2>1. Len(events') \in Nat /\ DOMAIN events' = 1 .. Len(events')
      BY <1>2, LenProperties
    <2>2. 1 .. Len(events') = 1 .. n + 1
      BY <1>2, <2>1
    <2> HIDE DEF n
    <2> QED BY <1>2, <2>1, <2>2
  <1>4. /\ AnnouncedUids \in Seq(UidOrZero)
        /\ Len(AnnouncedUids) = n
        /\ \A i \in 1 .. n :
              AnnouncedUids[i] = IF events[i].type = "MessageDelivered"
                                 THEN events[i].uid ELSE 0
    BY LogFacts DEF AnnouncedUids
  <1>5. /\ AnnouncedUids' \in Seq(UidOrZero)
        /\ Len(AnnouncedUids') = n + 1
        /\ \A i \in 1 .. n + 1 :
              AnnouncedUids'[i] = IF events'[i].type = "MessageDelivered"
                                  THEN events'[i].uid ELSE 0
    BY <1>2, <1>3, LogFacts DEF AnnouncedUids
  <1> HIDE DEF x, n
  <1>6. /\ uids \in Seq(UidOrZero)
        /\ Len(uids) = n + 1
        /\ \A i \in 1 .. n : uids[i] = AnnouncedUids[i]
        /\ uids[n + 1] = x
    BY <1>1, <1>4, AppendRow
  <1> HIDE DEF uids
  <1>7. \A i \in 1 .. n + 1 : AnnouncedUids'[i] = uids[i]
    <2>1. ASSUME NEW i \in 1 .. n PROVE AnnouncedUids'[i] = uids[i]
      <3>1. i \in 1 .. n + 1
        BY <1>2
      <3> QED BY <3>1, <1>2, <1>4, <1>5, <1>6
    <2>2. AnnouncedUids'[n + 1] = uids[n + 1]
      <3>1. n + 1 \in 1 .. n + 1
        BY <1>2
      <3> QED BY <3>1, <1>2, <1>5, <1>6 DEF x
    <2> QED BY <2>1, <2>2, <1>2
  <1>8. AnnouncedUids' = uids
    BY <1>5, <1>6, <1>7, SeqEqual
  <1> QED BY <1>8 DEF uids, x

LEMMA SameLog == UNCHANGED events => AnnouncedUids' = AnnouncedUids
  BY DEF AnnouncedUids

------------------------------------------------------------------------------
(* The announced row is the last one.                                       *)

\* A step that neither stores nor announces leaves the last row's message.
LEMMA LastStays ==
    ASSUME TypeOK, [Next]_vars, RowKeysOK, RowKeysOK',
           Len(message_view') = Len(message_view), Len(message_view) > 0
    PROVE  message_view'[Len(message_view')].uid = message_view[Len(message_view)].uid
  <1>1. ViewStep
    BY NextKeepsRows
  <1>2. Len(message_view) \in DOMAIN message_view
    BY DEF RowKeysOK
  <1> QED BY <1>1, <1>2 DEF ViewStep

LEMMA EmitIsLastNext ==
    ASSUME TypeOK, ScanIsFresh, EmitIsLast, [Next]_vars
    PROVE  EmitIsLast'
  <1> SUFFICES ASSUME stage' = "emit", NEW u \in todo', Current(u)'
               PROVE  /\ Len(message_view') > 0
                      /\ message_view'[Len(message_view')].uid = u
    BY DEF EmitIsLast
  <1>0. RowKeysOK /\ RowKeysOK'
    BY RowKeysNext
  <1>1. ASSUME NEW v \in todo, InsertNew(v)
        PROVE  /\ Len(message_view') > 0
               /\ message_view'[Len(message_view')].uid = u
    <2>1. v = u
      <3>1. Current(v) /\ todo' = todo
        BY <1>1 DEF InsertNew
      <3>2. Current(u)
        BY <3>1 DEF Current
      <3> QED BY <3>1, <3>2, OneCurrent
    <2>2. KeyStored(v)
      BY <1>0, <1>1, InsertStores
    <2> QED BY <1>0, <2>1, <2>2 DEF KeyStored, RowKeysOK
  <1>2. CASE stage = "emit" /\ UNCHANGED watcherVars
    <2>1. u \in todo /\ Current(u) /\ stage' = "emit" /\ todo' = todo
      BY <1>2 DEF watcherVars, Current
    <2>2. Len(message_view) > 0 /\ message_view[Len(message_view)].uid = u
      BY <1>2, <2>1 DEF EmitIsLast
    <2>3. Len(message_view') = Len(message_view)
      <3>1. CASE WatcherNext
        <4>1. ASSUME NEW v \in todo,
                     UpsertKnown(v) \/ InsertNew(v) \/ InsertNewFails(v) \/ EmitDelivered(v)
              PROVE  FALSE
          BY <1>2, <2>1, <4>1
          DEF UpsertKnown, InsertNew, InsertNewFails, EmitDelivered, NextMessage
        <4> QED BY <3>1, <4>1, <2>1, WatcherCases DEF WatcherReads
      <3>2. ASSUME NEW r \in Requests, Begin(r) \/ ApiStep(r) \/ ApiFault(r)
            PROVE  Len(message_view') = Len(message_view)
        BY <1>0, <3>2, ApiKeys DEF KeysStay, KeyMoved
      <3>3. CASE Deliver \/ UNCHANGED vars
        BY <3>3 DEF Deliver, vars, storeVars
      <3> QED BY <3>1, <3>2, <3>3 DEF Next, ApiNext
    <2> QED BY <1>0, <2>2, <2>3, LastStays
  <1> QED BY <1>1, <1>2, EmitCases

LEMMA EmitIsLastCorrect ==
    ASSUME "truncated" \notin Faults
    PROVE  Spec => []EmitIsLast
  <1>1. Init => EmitIsLast
    BY DEF Init, WatcherInit, EmitIsLast
  <1>2. TypeOK /\ AnnounceInv /\ EmitIsLast /\ [Next]_vars => EmitIsLast'
    BY EmitIsLastNext DEF AnnounceInv
  <1> QED BY <1>1, <1>2, TypeCorrect, AnnounceCorrect, PTL DEF Spec

------------------------------------------------------------------------------
(* Steps map to steps.                                                      *)

\* A step that writes nothing and stores nothing to announce.
LEMMA QuietSteps ==
    ASSUME inbox' = inbox, RowKeys' = RowKeys, AnnouncedUids' = AnnouncedUids,
           stage' # "emit" \/ stage' = stage
    PROVE  [Lifecycle!Next]_(Lifecycle!vars)
  <1>1. CASE stage = "emit" /\ stage' # "emit"
    BY <1>1 DEF Lifecycle!Next, Lifecycle!GiveUp
  <1>2. CASE (stage = "emit") = (stage' = "emit")
    BY <1>2 DEF Lifecycle!vars
  <1> QED BY <1>1, <1>2

\* The watcher's steps.
LEMMA WatcherImplements ==
    ASSUME TypeOK, ScanIsFresh, EmitIsLast, RowKeysOK, RowKeysOK', WatcherNext
    PROVE  [Lifecycle!Next]_(Lifecycle!vars)
  <1>1. inbox' = inbox
    BY DEF WatcherNext, WatcherStep, WatcherFault, Connect, ConnectFails, BackoffElapsed,
           IdleReturns, IdleFails, FetchHeaders, FetchHeadersFails, QueryKnown,
           QueryKnownFails, QueryKnownTruncated, Crash, UpsertKnown, UpsertKnownFails,
           FetchBody, FetchBodyFails, ExtractBody, InsertNew, InsertNewRefused,
           InsertNewFails, EmitDelivered, EmitDeliveredFails, storeVars
  <1>2. CASE WatcherReads
    <2>1. RowKeys' = RowKeys /\ AnnouncedUids' = AnnouncedUids /\ stage' # "emit"
      BY <1>2, UnchangedKeys, SameLog DEF WatcherReads, KeysStay
    <2> QED BY <1>1, <2>1, QuietSteps
  <1>3. ASSUME NEW u \in todo, UpsertKnown(u) \/ InsertNew(u) \/ InsertNewFails(u)
        PROVE  [Lifecycle!Next]_(Lifecycle!vars)
    <2>1. AnnouncedUids' = AnnouncedUids
      BY <1>3, SameLog DEF UpsertKnown, InsertNew, InsertNewFails
    <2>2. CASE KeyStored(u)
      <3>1. u \in inbox
        BY DEF TypeOK, WatcherTypeOK
      <3>2. ~Lifecycle!Holds(u, "INBOX")
        BY <2>2, HoldsIsHasRow DEF KeyStored
      <3>3. Lifecycle!Store
        BY <1>1, <2>1, <2>2, <3>1, <3>2 DEF Lifecycle!Store, KeyStored
      <3> QED BY <3>3 DEF Lifecycle!Next
    <2>3. CASE KeysStay /\ ~KeyStored(u)
      <3>1. ~InsertNew(u)
        BY <2>3, InsertStores
      <3>2. stage' # "emit"
        BY <1>3, <3>1 DEF UpsertKnown, InsertNewFails, NextMessage
      <3> QED BY <1>1, <2>1, <2>3, <3>2, QuietSteps DEF KeysStay
    <2> QED BY <1>3, <2>2, <2>3, WatcherKeys
  <1>4. ASSUME NEW u \in todo, EmitDelivered(u)
        PROVE  [Lifecycle!Next]_(Lifecycle!vars)
    <2>1. /\ stage = "emit" /\ stage' # "emit" /\ Current(u)
          /\ UNCHANGED message_view
          /\ Emit("MessageDelivered", u, "INBOX")
      BY <1>4 DEF EmitDelivered, NextMessage
    <2>2. RowKeys' = RowKeys
      BY <2>1, UnchangedKeys DEF KeysStay
    <2>3. AnnouncedUids' = Append(AnnouncedUids, u)
      <3>1. /\ events \in Seq(Event) /\ u \in UidOrZero
            /\ "MessageDelivered" \in EventTypes /\ "INBOX" \in FolderOrEmpty
        BY DEF TypeOK, StoreTypeOK, WatcherTypeOK, UidOrZero, EventTypes, Folders,
               FolderOrEmpty
      <3> QED BY <2>1, <3>1, EmitLogs
    <2>4. RowKeys[Len(RowKeys)].uid = u
      <3>1. Len(message_view) > 0 /\ message_view[Len(message_view)].uid = u
        BY <2>1 DEF EmitIsLast
      <3> QED BY <3>1 DEF RowKeysOK
    <2>5. Lifecycle!Announce
      BY <1>1, <2>1, <2>2, <2>3, <2>4 DEF Lifecycle!Announce
    <2> QED BY <2>5 DEF Lifecycle!Next
  <1> QED BY <1>2, <1>3, <1>4, WatcherCases

\* The handlers' steps.
LEMMA ApiImplements ==
    ASSUME TypeOK, RowKeysOK, RowKeysOK', NEW r \in Requests,
           Begin(r) \/ ApiStep(r) \/ ApiFault(r), UNCHANGED watcherVars
    PROVE  [Lifecycle!Next]_(Lifecycle!vars)
  <1>1. inbox' = inbox /\ stage' = stage
    BY ApiEvents DEF watcherVars
  <1>2. CASE KeyMoved /\ UNCHANGED events
    <2>1. PICK i \in DOMAIN message_view :
             /\ message_view[i].folder = "INBOX"
             /\ ~HasRow(message_view[i].uid, "Trash")
             /\ RowKeys' = [RowKeys EXCEPT ![i].folder = "Trash"]
      BY <1>2 DEF KeyMoved
    <2>2. /\ i \in DOMAIN RowKeys
          /\ RowKeys[i].folder = "INBOX"
          /\ RowKeys[i].uid = message_view[i].uid
      BY <2>1 DEF RowKeysOK
    <2>3. ~Lifecycle!Holds(RowKeys[i].uid, "Trash")
      BY <2>1, <2>2, HoldsIsHasRow
    <2>4. AnnouncedUids' = AnnouncedUids
      BY <1>2, SameLog
    <2>5. Lifecycle!MoveToTrash
      BY <1>1, <2>1, <2>2, <2>3, <2>4 DEF Lifecycle!MoveToTrash
    <2> QED BY <2>5 DEF Lifecycle!Next
  <1>3. CASE KeysStay /\ UNCHANGED events
    <2>1. RowKeys' = RowKeys /\ AnnouncedUids' = AnnouncedUids
      BY <1>3, SameLog DEF KeysStay
    <2> QED BY <1>1, <2>1, QuietSteps
  <1>4. CASE KeysStay /\ ApiEvent(r)
    <2>1. PICK t \in EventTypes \ {"MessageDelivered"} : Emit(t, req[r].uid, req[r].folder)
      BY <1>4 DEF ApiEvent
    <2>2. /\ events \in Seq(Event)
          /\ req[r].uid \in UidOrZero /\ req[r].folder \in FolderOrEmpty
      BY DEF TypeOK, StoreTypeOK, ApiTypeOK, Request
    <2>3. AnnouncedUids' = Append(AnnouncedUids, 0)
      BY <2>1, <2>2, EmitLogs
    <2>4. Lifecycle!LogOther
      BY <1>1, <1>4, <2>3 DEF Lifecycle!LogOther, KeysStay
    <2> QED BY <2>4 DEF Lifecycle!Next
  <1> QED BY <1>2, <1>3, <1>4, ApiKeys, ApiEvents

\* Every step.
LEMMA NextImplements ==
    TypeOK /\ ScanIsFresh /\ EmitIsLast /\ [Next]_vars
        => [Lifecycle!Next]_(Lifecycle!vars)
  <1> SUFFICES ASSUME TypeOK, ScanIsFresh, EmitIsLast, [Next]_vars
               PROVE  [Lifecycle!Next]_(Lifecycle!vars)
    OBVIOUS
  <1>0. RowKeysOK /\ RowKeysOK'
    BY RowKeysNext
  <1>1. CASE Deliver /\ UNCHANGED <<watcherVars, req>>
    <2>1. RowKeys' = RowKeys /\ AnnouncedUids' = AnnouncedUids /\ stage' = stage
      BY <1>1, UnchangedKeys, SameLog DEF Deliver, KeysStay, watcherVars
    <2>2. Lifecycle!Arrive
      BY <1>1, <2>1 DEF Deliver, Lifecycle!Arrive
    <2> QED BY <2>2 DEF Lifecycle!Next
  <1>2. CASE WatcherNext
    BY <1>0, <1>2, WatcherImplements
  <1>3. CASE ApiNext /\ UNCHANGED watcherVars
    BY <1>0, <1>3, ApiImplements DEF ApiNext
  <1>4. CASE UNCHANGED vars
    <2>1. /\ UNCHANGED message_view /\ UNCHANGED events
          /\ inbox' = inbox /\ stage' = stage
      BY <1>4 DEF vars, storeVars, watcherVars
    <2>2. RowKeys' = RowKeys /\ AnnouncedUids' = AnnouncedUids
      BY <2>1, UnchangedKeys, SameLog DEF KeysStay
    <2> QED BY <2>1, <2>2, QuietSteps
  <1> QED BY <1>1, <1>2, <1>3, <1>4 DEF Next

\* The empty view and the empty log.
LEMMA InitImplements == Init => Lifecycle!Init
  <1> SUFFICES ASSUME Init PROVE Lifecycle!Init
    OBVIOUS
  <1>1. inbox = {} /\ message_view = <<>> /\ events = <<>> /\ stage = "connect"
    BY DEF Init, StoreInit, WatcherInit
  <1>2. RowKeys = <<>> /\ AnnouncedUids = <<>>
    BY <1>1 DEF RowKeys, AnnouncedUids
  <1> QED BY <1>1, <1>2 DEF Lifecycle!Init

\* The pipeline implements the life of a message: with scans, requests and flags
\* hidden, it stores a message once per stay in INBOX, announces the last row and
\* no other, and keeps one row of a message in Trash (ImplementsLifecycle).  A
\* truncated read of the known UIDs is excluded, for it makes the scan announce a
\* message that is stored already.
THEOREM ImplementsLifecycleCorrect ==
    ASSUME "truncated" \notin Faults
    PROVE  Spec => ImplementsLifecycle
  <1>1. TypeOK /\ AnnounceInv /\ EmitIsLast /\ [Next]_vars
            => [Lifecycle!Next]_(Lifecycle!vars)
    BY NextImplements DEF AnnounceInv
  <1> QED
    BY <1>1, InitImplements, TypeCorrect, AnnounceCorrect, EmitIsLastCorrect, PTL
    DEF Spec, ImplementsLifecycle, Lifecycle!Spec
==============================================================================
