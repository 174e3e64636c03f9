---------------------------- MODULE EventFeedProofs -----------------------------
(***************************************************************************)
(* Proofs about EventFeed, for every value of its constants.               *)
(*                                                                         *)
(*   1. the least and the greatest of a set of ids                         *)
(*   2. the page that ORDER BY id LIMIT cuts out of the log                *)
(*   3. type correctness                                                   *)
(*   4. PassSoFar, and with it PassComplete                                *)
(***************************************************************************)
EXTENDS EventFeed, MailSyncProofs, FiniteSetTheorems

------------------------------------------------------------------------------
(* Sets of ids.                                                             *)

LEMMA LeastId ==
    ASSUME NEW S \in SUBSET Nat, S # {}
    PROVE  \E m \in S : \A i \in S : m <= i
  <1>1. PICK m \in S : \A i \in S : ~(<<i, m>> \in OpToRel(<, Nat))
    BY NatLessThanWellFounded, WFMin
  <1>2. \A i \in S : ~(i < m)
    BY <1>1 DEF OpToRel
  <1> QED BY <1>2

LEMMA GreatestId ==
    ASSUME NEW n \in Nat, NEW S \in SUBSET (0 .. n), S # {}
    PROVE  \E m \in S : \A i \in S : i <= m
  <1> DEFINE T == {n - i : i \in S}
  <1>1. T \in SUBSET Nat /\ T # {}
    <2>1. \A i \in S : n - i \in Nat
      OBVIOUS
    <2> QED BY <2>1
  <1>2. PICK t \in T : \A i \in T : t <= i
    BY <1>1, LeastId
  <1>3. PICK m \in S : t = n - m
    BY <1>2
  <1>4. \A i \in S : n - m <= n - i
    BY <1>2, <1>3
  <1> QED BY <1>3, <1>4

------------------------------------------------------------------------------
(* Pages.                                                                   *)

LEMMA FeedNumbers ==
    ASSUME TypeOK, FeedTypeOK
    PROVE  /\ events \in Seq(Event) /\ Len(events) \in Nat
           /\ DOMAIN events = 1 .. Len(events)
           /\ visible \subseteq 1 .. Len(events)
           /\ after_id \in 0 .. Len(events)
           /\ After \subseteq 1 .. Len(events)
  <1>1. events \in Seq(Event)
    BY DEF TypeOK, StoreTypeOK
  <1> QED BY <1>1, LenProperties DEF FeedTypeOK, After

\* The events of a page come before the others that follow after_id, and a page
\* is empty only if none follows.
LEMMA PageIs ==
    ASSUME TypeOK, FeedTypeOK
    PROVE  /\ Page \subseteq After
           /\ \A k \in Page : \A i \in After : i <= k => i \in Page
           /\ Page = {} => After = {}
  <1> DEFINE Before(i) == {j \in After : j < i}
             n == Len(events)
  <1>1. After \subseteq 1 .. n /\ n \in Nat /\ After \in SUBSET Nat
    BY FeedNumbers
  <1>2. Page = {i \in After : Cardinality(Before(i)) < Limit}
    BY DEF Page
  <1> HIDE DEF n
  <1>3. ASSUME NEW i
        PROVE  IsFiniteSet(Before(i)) /\ Cardinality(Before(i)) \in Nat
    <2>1. Before(i) \in SUBSET (1 .. n)
      BY <1>1
    <2>2. IsFiniteSet(1 .. n)
      BY <1>1, FS_Interval
    <2> HIDE DEF Before
    <2> QED BY <2>1, <2>2, FS_Subset, FS_CardinalityType
  <1>4. ASSUME NEW k \in Page, NEW i \in After, i <= k
        PROVE  i \in Page
    <2>1. Before(i) \subseteq Before(k)
      <3>1. k \in After
        BY <1>2
      <3>2. \A j \in After : j \in Nat /\ (j < i => j < k)
        BY <1>1, <1>4, <3>1
      <3> QED BY <3>2
    <2>2. Cardinality(Before(i)) <= Cardinality(Before(k))
      BY <1>3, <2>1, FS_Subset
    <2>3. Cardinality(Before(k)) < Limit
      BY <1>2
    <2>4. Cardinality(Before(i)) < Limit
      BY <1>3, <2>2, <2>3, LimitAssumption
    <2> QED BY <1>2, <2>4
  <1>5. ASSUME After # {} PROVE Page # {}
    <2>1. PICK m \in After : \A i \in After : m <= i
      BY <1>1, <1>5, LeastId
    <2>2. Before(m) = {}
      <3>1. \A j \in After : ~(j < m)
        BY <1>1, <2>1
      <3> QED BY <3>1
    <2>3. Cardinality(Before(m)) < Limit
      BY <2>2, FS_EmptySet, LimitAssumption
    <2> QED BY <1>2, <2>3
  <1> QED BY <1>2, <1>4, <1>5

\* What is read of a page before the query ends or breaks off: its first rows.
ReadOf(page) ==
    /\ page \subseteq Page
    /\ \A k \in page : \A i \in Page : i <= k => i \in page

\* next_id is the greatest id that was read, and 0 if there is none.
LEMMA NextIdIs ==
    ASSUME TypeOK, FeedTypeOK, NEW page, ReadOf(page)
    PROVE  /\ NextId(page) \in 0 .. Len(events)
           /\ NextId(page) = 0 <=> page = {}
           /\ page # {} => NextId(page) \in page /\ \A i \in page : i <= NextId(page)
  <1>1. page \in SUBSET (1 .. Len(events)) /\ Len(events) \in Nat
    BY FeedNumbers, PageIs DEF ReadOf
  <1>2. CASE page = {}
    BY <1>1, <1>2 DEF NextId
  <1>3. CASE page # {}
    <2>1. \E m \in page : \A i \in page : i <= m
      <3>1. page \in SUBSET (0 .. Len(events))
        BY <1>1
      <3> QED BY <1>1, <1>3, <3>1, GreatestId
    <2>2. NextId(page) \in page /\ \A i \in page : i <= NextId(page)
      BY <1>3, <2>1 DEF NextId, Last
    <2>3. NextId(page) \in 1 .. Len(events)
      BY <1>1, <2>2
    <2>4. NextId(page) # 0 /\ NextId(page) \in 0 .. Len(events)
      BY <1>1, <2>3
    <2> QED BY <1>3, <2>2, <2>4
  <1> QED BY <1>2, <1>3

\* A call of the client, answered in whole or in part.  Nothing is read only if
\* there is nothing, or if the query broke off before its first row.
Polled(page) ==
    /\ ReadOf(page) /\ Receive(page)
    /\ page = {} => Page = {} \/ cut'
    /\ cut' \in BOOLEAN

LEMMA PollReads ==
    ASSUME TypeOK, FeedTypeOK, Poll \/ PollBreaks
    PROVE  \E page : Polled(page)
  <1>1. CASE Poll
    <2>1. Polled(Page)
      BY <1>1 DEF Poll, Polled, ReadOf
    <2> QED BY <2>1
  <1>2. CASE PollBreaks
    <2>1. PICK last \in {0} \cup Page :
                  Receive({i \in Page : i <= last}) /\ cut' = (last = 0)
      BY <1>2 DEF PollBreaks
    <2> DEFINE page == {i \in Page : i <= last}
    <2>2. Page \subseteq Nat /\ last \in Nat
      <3>1. Page \subseteq 1 .. Len(events) /\ Len(events) \in Nat
        BY FeedNumbers, PageIs
      <3> QED BY <3>1
    <2>3. ReadOf(page)
      BY <2>2 DEF ReadOf
    <2>4. page = {} => last = 0
      BY <2>2
    <2>5. Receive(page)
      BY <2>1
    <2> HIDE DEF page
    <2>6. Polled(page)
      BY <2>1, <2>3, <2>4, <2>5 DEF Polled
    <2> QED BY <2>6
  <1> QED BY <1>1, <1>2

------------------------------------------------------------------------------
(* Type correctness.                                                        *)

\* A step of MailSync, which may draw an id for a writer.
WriterStep ==
    /\ [Next]_vars
    /\ UNCHANGED <<visible, clientVars>>
    /\ \/ in_flight' = in_flight
       \/ \E w \in Writers :
             in_flight' = [in_flight EXCEPT ![w] =
                              IF events' = events THEN 0 ELSE Len(events')]

LEMMA FeedSteps ==
    ASSUME [FeedNext]_feedVars
    PROVE  \/ WriterStep \/ Poll \/ PollBreaks
           \/ \E w \in Writers : Commit(w) \/ RollBack(w)
  <1>1. CASE Deliver /\ UNCHANGED <<watcherVars, req, in_flight, visible, clientVars>>
    BY <1>1 DEF WriterStep, Next
  <1>2. CASE Writes("watcher", WatcherNext /\ UNCHANGED req)
    <2>1. WatcherNext /\ UNCHANGED req
      BY <1>2 DEF Writes
    <2>2. "watcher" \in Writers
      BY DEF Writers
    <2> QED BY <1>2, <2>1, <2>2 DEF Writes, WriterStep, Next
  <1>3. ASSUME NEW r \in Requests,
               Writes(r, (Begin(r) \/ ApiStep(r) \/ ApiFault(r)) /\ UNCHANGED watcherVars)
        PROVE  WriterStep
    <2>1. ApiNext /\ UNCHANGED watcherVars
      BY <1>3 DEF Writes, ApiNext
    <2>2. r \in Writers
      BY DEF Writers
    <2> QED BY <1>3, <2>1, <2>2 DEF Writes, WriterStep, Next
  <1>4. CASE UNCHANGED feedVars
    BY <1>4 DEF feedVars, clientVars, WriterStep
  <1> QED BY <1>1, <1>2, <1>3, <1>4 DEF FeedNext

\* MailSync's variables keep their types, and the log grows only.
LEMMA StoreTypeNext ==
    ASSUME TypeOK, [FeedNext]_feedVars
    PROVE  /\ TypeOK'
           /\ Len(events) \in Nat /\ Len(events') \in Nat
           /\ Len(events) <= Len(events')
  <1>1. CASE [Next]_vars
    <2>1. TypeOK'
      BY <1>1, TypeNext
    <2>2. \/ UNCHANGED events
          \/ \E t \in EventTypes, u \in UidOrZero, f \in FolderOrEmpty : Emit(t, u, f)
      <3>1. \A r \in Requests : req[r].uid \in UidOrZero /\ req[r].folder \in FolderOrEmpty
        BY DEF TypeOK, ApiTypeOK, Request
      <3>2. \A u \in todo : u \in UidOrZero
        BY DEF TypeOK, StoreTypeOK, WatcherTypeOK, UidOrZero
      <3>3. \A u \in todo : EmitDelivered(u) => Emit("MessageDelivered", u, "INBOX")
        BY DEF EmitDelivered
      <3>4. "INBOX" \in FolderOrEmpty /\ "MessageDelivered" \in EventTypes
        BY DEF FolderOrEmpty, Folders, EventTypes
      <3> QED BY <1>1, <3>1, <3>2, <3>3, <3>4, NextEvents DEF ApiEvent
    <2>3. events \in Seq(Event)
      BY DEF TypeOK, StoreTypeOK
    <2>4. ASSUME NEW t \in EventTypes, NEW u \in UidOrZero, NEW f \in FolderOrEmpty,
                 Emit(t, u, f)
          PROVE  Len(events') = Len(events) + 1
      <3> DEFINE e == [type |-> t, uid |-> u, folder |-> f]
      <3>1. e \in Event
        BY DEF Event
      <3>2. events' = Append(events, e)
        BY <2>4 DEF Emit
      <3> HIDE DEF e
      <3> QED BY <2>3, <3>1, <3>2, AppendRow
    <2>5. Len(events) \in Nat
      BY <2>3, LenProperties
    <2> QED BY <2>1, <2>2, <2>4, <2>5
  <1>2. ASSUME NEW w \in Writers, RollBack(w)
        PROVE  TypeOK' /\ events' = events
    BY <1>2, TypeFault DEF RollBack
  <1>3. CASE Poll \/ \E w \in Writers : Commit(w)
    BY <1>3, TypeNext DEF Poll, Commit, vars, storeVars
  <1>4. Len(events) \in Nat
    BY LenProperties DEF TypeOK, StoreTypeOK
  <1>5. CASE PollBreaks
    BY <1>5, TypeFault DEF PollBreaks
  <1> QED BY <1>1, <1>2, <1>3, <1>4, <1>5, FeedSteps DEF WriterStep

LEMMA FeedTypeNext ==
    ASSUME TypeOK, FeedTypeOK, [FeedNext]_feedVars
    PROVE  FeedTypeOK'
  <1> DEFINE n == Len(events)
             m == Len(events')
  <1>1. n \in Nat /\ m \in Nat /\ n <= m
    BY StoreTypeNext
  <1>2. DOMAIN events = 1 .. n /\ DOMAIN events' = 1 .. m
    <2>1. TypeOK'
      BY StoreTypeNext
    <2> QED BY <2>1, LenProperties DEF TypeOK, StoreTypeOK
  <1>3. /\ in_flight \in [Writers -> 0 .. n]
        /\ visible \subseteq 1 .. n /\ after_id \in 0 .. n
        /\ pass \subseteq visible /\ start \subseteq visible /\ cut \in BOOLEAN
    BY <1>2 DEF FeedTypeOK
  <1>4. 0 .. n \subseteq 0 .. m /\ 1 .. n \subseteq 1 .. m /\ m \in 0 .. m /\ 0 \in 0 .. m
    BY <1>1
  <1>5. CASE WriterStep
    <2>1. UNCHANGED <<visible, after_id, pass, start, cut>>
      BY <1>5 DEF WriterStep, clientVars
    <2>2. in_flight' \in [Writers -> 0 .. m]
      <3>1. in_flight \in [Writers -> 0 .. m]
        BY <1>3, <1>4
      <3>2. CASE in_flight' = in_flight
        BY <3>1, <3>2
      <3>3. ASSUME NEW w \in Writers,
                   in_flight' = [in_flight EXCEPT ![w] = IF events' = events THEN 0 ELSE m]
            PROVE  in_flight' \in [Writers -> 0 .. m]
        <4> DEFINE id == IF events' = events THEN 0 ELSE m
        <4>1. id \in 0 .. m
          BY <1>4
        <4>2. in_flight' = [in_flight EXCEPT ![w] = id]
          BY <3>3
        <4> HIDE DEF id, m
        <4> QED BY <3>1, <4>1, <4>2
      <3> QED BY <1>5, <3>2, <3>3 DEF WriterStep
    <2>3. visible \subseteq 1 .. m /\ after_id \in 0 .. m
      BY <1>3, <1>4
    <2> QED BY <1>2, <1>3, <2>1, <2>2, <2>3 DEF FeedTypeOK
  <1>6. ASSUME NEW w \in Writers, Commit(w) \/ RollBack(w)
        PROVE  FeedTypeOK'
    <2>1. events' = events /\ UNCHANGED <<after_id, pass, start, cut>>
      BY <1>6 DEF Commit, RollBack, vars, storeVars, clientVars
    <2>2. in_flight' \in [Writers -> 0 .. n]
      BY <1>1, <1>3, <1>6 DEF Commit, RollBack
    <2>3. visible' \subseteq 1 .. n /\ visible \subseteq visible'
      <3>1. in_flight[w] \in 1 .. n
        <4>1. in_flight[w] \in 0 .. n /\ in_flight[w] # 0
          BY <1>3, <1>6 DEF Commit, RollBack
        <4> QED BY <1>1, <4>1
      <3>2. visible' = visible \/ visible' = visible \cup {in_flight[w]}
        BY <1>6 DEF Commit, RollBack
      <3> QED BY <1>3, <3>1, <3>2
    <2> QED BY <1>2, <1>3, <2>1, <2>2, <2>3 DEF FeedTypeOK
  <1>7. CASE Poll \/ PollBreaks
    <2>1. PICK page : Polled(page)
      BY <1>7, PollReads
    <2>2. /\ events' = events /\ in_flight' = in_flight /\ visible' = visible
      BY <1>7 DEF Poll, PollBreaks, vars, storeVars
    <2>3. /\ after_id' = NextId(page)
          /\ pass' = IF after_id = 0 THEN page ELSE pass \cup page
          /\ start' = IF after_id = 0 THEN visible ELSE start
      BY <2>1 DEF Polled, Receive
    <2>4. page \subseteq visible /\ NextId(page) \in 0 .. Len(events)
      BY <2>1, PageIs, NextIdIs DEF After, Polled, ReadOf
    <2>5. cut' \in BOOLEAN
      BY <2>1 DEF Polled
    <2> QED BY <2>2, <2>3, <2>4, <2>5 DEF FeedTypeOK
  <1> QED BY <1>5, <1>6, <1>7, FeedSteps

------------------------------------------------------------------------------
(* Paging.                                                                  *)

LEMMA PassPoll ==
    ASSUME TypeOK, FeedTypeOK, PassSoFar, Poll \/ PollBreaks
    PROVE  /\ PassSoFar'
           /\ after_id # 0 /\ after_id' = 0 => start \subseteq pass' \/ cut'
  <1>0. PICK page : Polled(page)
    BY PollReads
  <1>1. /\ after_id' = NextId(page)
        /\ pass' = IF after_id = 0 THEN page ELSE pass \cup page
        /\ start' = IF after_id = 0 THEN visible ELSE start
        /\ ReadOf(page) /\ (page = {} => Page = {} \/ cut')
    BY <1>0 DEF Polled, Receive
  <1>2. /\ visible \in SUBSET Nat /\ after_id \in Nat
        /\ \A i \in visible : i # 0 /\ (i \in After \/ i <= after_id)
        /\ start \subseteq visible
    <2>1. visible \subseteq 1 .. Len(events) /\ after_id \in 0 .. Len(events)
          /\ Len(events) \in Nat
      BY FeedNumbers
    <2> QED BY <2>1 DEF After, FeedTypeOK
  <1>3. ASSUME after_id' # 0, NEW i \in start', i <= after_id'
        PROVE  i \in pass'
    <2>1. NextId(page) \in page
      BY <1>1, <1>3, NextIdIs
    <2>2. i \in visible
      BY <1>1, <1>2, <1>3
    <2>3. CASE i \in After
      <3>1. i \in Page
        BY <1>1, <1>3, <2>1, <2>3, PageIs DEF ReadOf
      <3>2. i \in page
        BY <1>1, <1>3, <2>1, <3>1 DEF ReadOf
      <3> QED BY <1>1, <3>2
    <2>4. CASE i \notin After
      <3>1. i <= after_id /\ after_id # 0
        BY <1>2, <2>2, <2>4
      <3> QED BY <1>1, <1>3, <3>1 DEF PassSoFar
    <2> QED BY <2>3, <2>4
  <1>4. ASSUME after_id # 0, after_id' = 0, ~cut'
        PROVE  start \subseteq pass'
    <2>1. After = {}
      BY <1>1, <1>4, NextIdIs, PageIs
    <2>2. \A i \in start : i <= after_id
      BY <1>2, <2>1
    <2> QED BY <1>1, <1>4, <2>2 DEF PassSoFar
  <1> QED BY <1>3, <1>4 DEF PassSoFar

LEMMA PassNext ==
    ASSUME TypeOK, FeedTypeOK, PassSoFar, [FeedNext]_feedVars
    PROVE  /\ PassSoFar'
           /\ after_id # 0 /\ after_id' = 0 => start \subseteq pass' \/ cut'
  <1>1. CASE Poll \/ PollBreaks
    BY <1>1, PassPoll
  <1>2. CASE WriterStep \/ \E w \in Writers : Commit(w) \/ RollBack(w)
    <2>1. UNCHANGED <<after_id, pass, start>>
      BY <1>2 DEF WriterStep, Commit, RollBack, clientVars
    <2> QED BY <2>1 DEF PassSoFar
  <1> QED BY <1>1, <1>2, FeedSteps

------------------------------------------------------------------------------
(* The properties.                                                          *)

FeedInv == TypeOK /\ FeedTypeOK /\ PassSoFar

LEMMA FeedInvInit ==
    ASSUME FeedInit
    PROVE  FeedInv
  <1>1. TypeOK
    BY TypeInit DEF FeedInit
  <1>2. Len(events) = 0
    BY DEF FeedInit, Init, StoreInit
  <1>3. FeedTypeOK
    <2>1. in_flight \in [Writers -> 0 .. Len(events)]
      BY <1>2 DEF FeedInit
    <2>2. 0 \in 0 .. Len(events)
      BY <1>2
    <2> QED BY <2>1, <2>2 DEF FeedInit, FeedTypeOK
  <1> QED BY <1>1, <1>3 DEF FeedInit, FeedInv, PassSoFar

LEMMA FeedInvNext ==
    ASSUME FeedInv, [FeedNext]_feedVars
    PROVE  FeedInv'
  BY StoreTypeNext, FeedTypeNext, PassNext DEF FeedInv

\* Every id that is in flight, visible, asked for or received is the id of an
\* event, and the client receives what is visible (handlers/events.go).
THEOREM FeedTypeCorrect == FeedSpec => []FeedTypeOK
  <1>1. FeedInv => FeedTypeOK
    BY DEF FeedInv
  <1> QED BY <1>1, FeedInvInit, FeedInvNext, PTL DEF FeedSpec

\* Paging from after_id 0 until next_id is 0 again misses no event that was
\* committed when it began, unless that last page broke off before its first row:
\* for any number of writers, however their INSERTs commit or are lost, wherever
\* earlier pages broke off, and any limit (EventHandler.List).
THEOREM PassCompleteCorrect == FeedSpec => PassComplete
  <1>1. FeedInv /\ [FeedNext]_feedVars
           => [after_id # 0 /\ after_id' = 0 => start \subseteq pass' \/ cut']_feedVars
    BY PassNext DEF FeedInv
  <1> QED BY <1>1, FeedInvInit, FeedInvNext, PTL DEF FeedSpec, PassComplete

================================================================================
