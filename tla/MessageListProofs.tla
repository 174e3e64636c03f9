--------------------------- MODULE MessageListProofs ----------------------------
(***************************************************************************)
(* Proofs about MessageList, for every value of its constants.             *)
(*                                                                         *)
(*   1. rows keep what the listing orders and scans them by                *)
(*   2. the orders of a listing, and the page that LIMIT and OFFSET cut    *)
(*      out of one                                                         *)
(*   3. type correctness                                                   *)
(*   4. what a page has shown can be opened ever after                     *)
(*   5. PageInv: paging passes over a row for the stated reasons only      *)
(***************************************************************************)
EXTENDS MessageList, MailSyncProofs, FiniteSetTheorems

------------------------------------------------------------------------------
(* Rows.                                                                    *)

\* A step of the listing, or one of MailSync.
LEMMA ListSteps ==
    ASSUME [ListNext]_listVars
    PROVE  /\ date' = date
           /\ \/ message_view' = message_view
              \/ Meanwhile
  BY DEF ListNext, Turn, List, ListBreaks, Meanwhile, Answer, listVars, vars, storeVars

\* MailSync's variables keep their types; a broken connection is a fault.
LEMMA StoreTypeNext ==
    ASSUME TypeOK, [ListNext]_listVars
    PROVE  TypeOK'
  <1>1. CASE UNCHANGED vars \/ Next
    BY <1>1, TypeNext
  <1>2. CASE ListBreaks
    BY <1>2, TypeFault DEF ListBreaks
  <1> QED BY <1>1, <1>2 DEF ListNext, Turn, List, Meanwhile, listVars

\* The ids of the rows.
LEMMA ViewDomain ==
    ASSUME TypeOK
    PROVE  /\ Len(message_view) \in Nat
           /\ DOMAIN message_view = 1 .. Len(message_view)
           /\ \A i \in DOMAIN message_view : /\ message_view[i] \in Row
                                             /\ message_view[i].uid \in Uids
  <1>1. message_view \in Seq(Row)
    BY DEF TypeOK, StoreTypeOK
  <1> QED BY <1>1, LenProperties, RowIsRecord DEF Row

\* A row keeps its date, and whether it can be scanned.
LEMMA RowStays ==
    ASSUME TypeOK, [ListNext]_listVars, NEW i \in DOMAIN message_view
    PROVE  /\ i \in DOMAIN message_view'
           /\ date'[message_view'[i].uid] = DateOf(i)
           /\ (DateOf(i) = DateOf(i)') /\ (Scannable(i) <=> Scannable(i)')
  <1>1. CASE message_view' = message_view
    BY <1>1, ListSteps DEF DateOf, Scannable
  <1>2. CASE Meanwhile
    <2>1. [Next]_vars
      BY <1>2 DEF Meanwhile
    <2>2. i \in DOMAIN message_view' /\ message_view'[i].uid = message_view[i].uid
      BY <2>1, NextKeepsUids
    <2>3. message_view'[i].body = message_view[i].body
      BY <2>1, <2>2, NextContent DEF RowKept, RowMade
    <2> QED BY <2>2, <2>3, ListSteps DEF DateOf, Scannable
  <1> QED BY <1>1, <1>2, ListSteps

------------------------------------------------------------------------------
(* Orders and pages.                                                        *)

LEMMA MatchingRows ==
    ASSUME TypeOK, NEW ask
    PROVE  /\ Matching(ask) \subseteq DOMAIN message_view
           /\ IsFiniteSet(Matching(ask))
           /\ Cardinality(Matching(ask)) \in Nat
  <1>1. Matching(ask) \subseteq DOMAIN message_view
    BY DEF Matching
  <1>2. IsFiniteSet(DOMAIN message_view)
    BY ViewDomain, FS_Interval
  <1> QED BY <1>1, <1>2, FS_Subset, FS_CardinalityType

\* An order lists every matching row once.
LEMMA OrderListsAll ==
    ASSUME TypeOK, NEW rows \in Orders
    PROVE  /\ rows \in Seq(Matching(asked))
           /\ Len(rows) = Cardinality(Matching(asked))
           /\ Len(rows) \in Nat
           /\ DOMAIN rows = 1 .. Len(rows)
           /\ \A a \in 1 .. Len(rows) : rows[a] \in Matching(asked)
           /\ \A i \in Matching(asked) : \E a \in 1 .. Len(rows) : rows[a] = i
           /\ \A a, b \in 1 .. Len(rows) : a # b => rows[a] # rows[b]
           /\ \A a, b \in 1 .. Len(rows) : a < b => NotAfter(rows[a], rows[b])
  <1> DEFINE S == Matching(asked)
             n == Cardinality(S)
  <1>1. IsFiniteSet(S) /\ n \in Nat
    BY MatchingRows
  <1>2. /\ rows \in [1 .. n -> S]
        /\ \A a, b \in 1 .. n : a # b => rows[a] # rows[b]
        /\ \A a, b \in 1 .. n : a < b => NotAfter(rows[a], rows[b])
    BY DEF Orders
  <1> HIDE DEF S
  <1>3. IsFiniteSet(1 .. n) /\ Cardinality(1 .. n) = n
    BY <1>1, FS_Interval
  <1>4. rows \in Injection(1 .. n, S)
    BY <1>2 DEF Injection, IsInjective
  <1>5. rows \in Surjection(1 .. n, S)
    BY <1>1, <1>3, <1>4, FS_Injection
  <1>6. \A i \in S : \E a \in 1 .. n : rows[a] = i
    BY <1>5 DEF Surjection
  <1>7. rows \in Seq(S) /\ Len(rows) = n
    BY <1>1, <1>2
  <1> QED BY <1>1, <1>2, <1>6, <1>7 DEF S

LEMMA Offsets ==
    /\ Offset(1) = 0
    /\ \A page \in Nat \ {0} :
          /\ Offset(page) \in Nat
          /\ Offset(page + 1) = Offset(page) + Limit
  BY LimitAssumption DEF Offset

\* A page begins after the rows of the pages before it.
LEMMA WindowIs ==
    ASSUME NEW S, NEW rows \in Seq(S), NEW page \in Nat \ {0}
    PROVE  LET o == Offset(page)
               w == Window(rows, page)
           IN  /\ w \in Seq(S)
               /\ Len(w) \in Nat /\ DOMAIN w = 1 .. Len(w)
               /\ \A b \in 1 .. Len(w) : w[b] = rows[o + b]
               /\ \A k \in 1 .. Len(rows) :
                     k > o /\ k <= o + Limit => k - o \in 1 .. Len(w)
               /\ Len(rows) > o => Len(w) # 0
  <1> DEFINE o == Offset(page)
             n == Len(rows)
             e == IF o + Limit <= n THEN o + Limit ELSE n
             w == SubSeq(rows, o + 1, e)
  <1>1. o \in Nat /\ n \in Nat /\ Limit \in Nat \ {0} /\ rows \in [1 .. n -> S]
    BY Offsets, LimitAssumption, LenProperties
  <1>2. Window(rows, page) = w
    BY DEF Window
  <1> HIDE DEF o, n
  <1>3. /\ e \in Nat /\ e <= n
    BY <1>1
  <1>4. /\ w \in Seq(S)
        /\ Len(w) = IF o + 1 <= e THEN e - o ELSE 0
        /\ \A b \in 1 .. Len(w) : w[b] = rows[o + b]
    <2>1. w = [b \in 1 .. (e - o) |-> rows[o + b]]
      BY <1>1, <1>3
    <2> QED BY <1>1, <1>3, <2>1
  <1>5. Len(w) \in Nat /\ DOMAIN w = 1 .. Len(w)
    BY <1>4, LenProperties
  <1>6. ASSUME NEW k \in 1 .. n, k > o, k <= o + Limit
        PROVE  k - o \in 1 .. Len(w)
    BY <1>1, <1>3, <1>4, <1>6
  <1>7. n > o => Len(w) # 0
    BY <1>1, <1>3, <1>4
  <1> QED BY <1>2, <1>4, <1>5, <1>6, <1>7 DEF o, n

\* What a page shows can be scanned.
LEMMA ScannedRows ==
    ASSUME NEW S, NEW w \in Seq(S)
    PROVE  Scanned(w) \subseteq {i \in S : Scannable(i)}
  BY DEF Scanned

------------------------------------------------------------------------------
(* Type correctness.                                                        *)

\* An answer of rows of the view.
LEMMA AnswerType ==
    ASSUME ListTypeOK, NEW rows \in SUBSET (DOMAIN message_view), Answer(rows)
    PROVE  /\ asked' \in Asked
           /\ shown' \subseteq listed'
           /\ listed' \subseteq DOMAIN message_view
           /\ asked'.folder = asked.folder /\ asked'.unread_only = asked.unread_only
           /\ asked'.page = IF rows = {} THEN 0 ELSE asked.page + 1
  <1>1. asked \in [folder: Folders, unread_only: BOOLEAN, page: Nat]
    BY DEF ListTypeOK, Asked
  <1> DEFINE p == IF rows = {} THEN 0 ELSE asked.page + 1
  <1>2. p \in Nat
    BY <1>1
  <1>3. asked' = [asked EXCEPT !.page = p]
    BY DEF Answer
  <1> HIDE DEF p
  <1>4. /\ asked' \in Asked
        /\ asked'.folder = asked.folder /\ asked'.unread_only = asked.unread_only
        /\ asked'.page = p
    BY <1>1, <1>2, <1>3 DEF Asked
  <1> QED BY <1>4 DEF p, Answer, ListTypeOK

\* The rows of a page are rows that match, and can be scanned.
LEMMA PageOf ==
    ASSUME TypeOK, ListTypeOK, asked.page # 0, NEW rows \in Orders
    PROVE  LET page == Window(rows, asked.page) IN
           /\ Scanned(page) \subseteq {i \in Matching(asked) : Scannable(i)}
           /\ \A n \in 0 .. Len(page) :
                 Scanned(SubSeq(page, 1, n)) \subseteq {i \in Matching(asked) : Scannable(i)}
  <1> DEFINE page == Window(rows, asked.page)
  <1>1. asked.page \in Nat \ {0}
    BY DEF ListTypeOK, Asked
  <1>2. page \in Seq(Matching(asked)) /\ Len(page) \in Nat
    BY <1>1, OrderListsAll, WindowIs
  <1> HIDE DEF page
  <1>3. \A n \in 0 .. Len(page) : SubSeq(page, 1, n) \in Seq(Matching(asked))
    BY <1>2
  <1> QED BY <1>2, <1>3, ScannedRows DEF page

\* An answer, whole or cut short.
LEMMA ListAnswers ==
    ASSUME TypeOK, ListTypeOK, List \/ ListBreaks
    PROVE  \E rows : /\ rows \subseteq {i \in Matching(asked) : Scannable(i)}
                     /\ Answer(rows)
  <1>1. CASE List
    <2>1. PICK rows \in Orders : Answer(Scanned(Window(rows, asked.page)))
      BY <1>1 DEF List
    <2> QED BY <1>1, <2>1, PageOf DEF List
  <1>2. CASE ListBreaks
    <2>1. PICK rows \in Orders :
             LET page == Window(rows, asked.page) IN
             \E n \in 0 .. Len(page) : Answer(Scanned(SubSeq(page, 1, n)))
      BY <1>2 DEF ListBreaks
    <2> QED BY <1>2, <2>1, PageOf DEF ListBreaks
  <1> QED BY <1>1, <1>2

LEMMA ListTypeInit ==
    ASSUME ListInit
    PROVE  ListTypeOK
  BY DEF ListInit, ListTypeOK, Asked, Folders

LEMMA ListTypeNext ==
    ASSUME TypeOK, ListTypeOK, [ListNext]_listVars
    PROVE  ListTypeOK'
  <1>1. CASE Turn
    <2>1. PICK folder \in Folders, unread_only \in BOOLEAN :
             asked' = [folder |-> folder, unread_only |-> unread_only, page |-> 1]
      BY <1>1 DEF Turn
    <2>2. asked' \in Asked
      BY <2>1 DEF Asked
    <2>3. start' \subseteq DOMAIN message_view
      BY <1>1 DEF Turn, Matching
    <2>4. /\ shown' = {} /\ gone' = {} /\ broken' = FALSE
          /\ date' = date /\ listed' = listed /\ message_view' = message_view
      BY <1>1 DEF Turn, vars, storeVars
    <2> QED BY <2>2, <2>3, <2>4 DEF ListTypeOK
  <1>2. CASE List \/ ListBreaks
    <2>1. PICK rows : /\ rows \subseteq {i \in Matching(asked) : Scannable(i)}
                      /\ Answer(rows)
      BY <1>2, ListAnswers
    <2>2. rows \subseteq DOMAIN message_view
      BY <2>1 DEF Matching
    <2>3. /\ message_view' = message_view
          /\ date' = date /\ start' = start /\ gone' = gone
          /\ broken' \in BOOLEAN
      BY <1>2, <2>1 DEF List, ListBreaks, Answer, ListTypeOK, vars, storeVars
    <2> QED BY <2>1, <2>2, <2>3, AnswerType DEF ListTypeOK
  <1>3. CASE Meanwhile
    <2>1. DOMAIN message_view \subseteq DOMAIN message_view'
      BY RowStays
    <2>2. UNCHANGED <<date, asked, start, shown, broken, listed>>
      BY <1>3 DEF Meanwhile, pageVars
    <2>3. gone' \subseteq gone \cup DOMAIN message_view
      BY <1>3 DEF Meanwhile, Matching
    <2> QED BY <2>1, <2>2, <2>3 DEF ListTypeOK
  <1>4. CASE UNCHANGED listVars
    BY <1>4 DEF listVars, pageVars, vars, storeVars, ListTypeOK
  <1> QED BY <1>1, <1>2, <1>3, <1>4 DEF ListNext

------------------------------------------------------------------------------
(* What was listed can be opened.                                           *)

LEMMA OpenedNext ==
    ASSUME TypeOK, ListTypeOK, ListedCanBeOpened, [ListNext]_listVars
    PROVE  ListedCanBeOpened'
  <1>1. listed' \subseteq listed \cup {i \in DOMAIN message_view : Scannable(i)}
    <2>1. CASE List \/ ListBreaks
      BY <2>1, ListAnswers DEF Answer, Matching
    <2>2. CASE Turn \/ Meanwhile \/ UNCHANGED listVars
      BY <2>2 DEF Turn, Meanwhile, listVars, pageVars
    <2> QED BY <2>1, <2>2 DEF ListNext
  <1>2. \A i \in listed' : i \in DOMAIN message_view /\ Scannable(i)
    BY <1>1 DEF ListTypeOK, ListedCanBeOpened, CanBeOpened
  <1>3. \A i \in listed' : Scannable(i)'
    BY <1>2, RowStays
  <1> QED BY <1>3 DEF ListedCanBeOpened, CanBeOpened

------------------------------------------------------------------------------
(* Paging.                                                                  *)

AheadIsFinite == \A i : IsFiniteSet(AheadOf(i)) /\ Cardinality(AheadOf(i)) \in Nat

LEMMA AheadFinite == TypeOK => AheadIsFinite
  <1> SUFFICES ASSUME TypeOK, NEW i
               PROVE  IsFiniteSet(AheadOf(i)) /\ Cardinality(AheadOf(i)) \in Nat
    BY DEF AheadIsFinite
  <1>1. AheadOf(i) \subseteq Matching(asked)
    BY DEF AheadOf
  <1> QED BY <1>1, MatchingRows, FS_Subset, FS_CardinalityType

LEMMA DatesAreNumbers ==
    ASSUME TypeOK, ListTypeOK, NEW i \in DOMAIN message_view
    PROVE  DateOf(i) \in Nat
  BY ViewDomain, DatesAssumption DEF ListTypeOK, DateOf

\* The place of a row in a listing, if nothing excuses the pages for passing it
\* over: one more than the number of the rows ahead of it.
LEMMA PlaceOf ==
    ASSUME TypeOK, ListTypeOK, NEW rows \in Orders, NEW k \in 1 .. Len(rows),
           ~PassedOver(rows[k])
    PROVE  /\ Cardinality(AheadOf(rows[k])) = k - 1
           /\ \A a \in 1 .. k : Scannable(rows[a])
  <1> DEFINE i == rows[k]
             n == Len(rows)
  <1>1. /\ n \in Nat /\ k \in Nat
        /\ \A a \in 1 .. n : rows[a] \in Matching(asked) /\ rows[a] \in DOMAIN message_view
    BY OrderListsAll, MatchingRows
  <1>2. Scannable(i) /\ \A j \in DOMAIN message_view :
           Ahead(j, i) => Scannable(j) /\ DateOf(j) # DateOf(i)
    BY DEF PassedOver
  <1>3. ASSUME NEW a \in 1 .. (k - 1)
        PROVE  a \in 1 .. n /\ rows[a] \in AheadOf(i) /\ Scannable(rows[a])
    <2>1. a \in 1 .. n /\ a < k
      BY <1>1
    <2>2. Ahead(rows[a], i)
      BY <2>1, OrderListsAll DEF Ahead
    <2> QED BY <1>1, <1>2, <2>1, <2>2 DEF AheadOf
  <1>4. ASSUME NEW j \in AheadOf(i)
        PROVE  \E a \in 1 .. (k - 1) : rows[a] = j
    <2>1. PICK a \in 1 .. n : rows[a] = j
      BY OrderListsAll DEF AheadOf
    <2>2. Ahead(j, i) /\ j \in DOMAIN message_view
      BY <1>1, <2>1 DEF AheadOf
    <2>3. a # k
      BY <2>1, <2>2 DEF Ahead
    <2>4. ~(k < a)
      <3> SUFFICES ASSUME k < a PROVE FALSE
        OBVIOUS
      <3>1. NotAfter(i, j) /\ NotAfter(j, i)
        BY <2>1, <2>2, OrderListsAll DEF Ahead
      <3>2. DateOf(i) # 0 /\ DateOf(j) # 0 /\ DateOf(i) # DateOf(j)
        BY <1>2, <2>2 DEF Scannable
      <3>3. DateOf(i) \in Nat /\ DateOf(j) \in Nat
        BY <1>1, <2>2, DatesAreNumbers
      <3> QED BY <3>1, <3>2, <3>3 DEF NotAfter
    <2> QED BY <1>1, <2>1, <2>3, <2>4
  <1>5. Cardinality(AheadOf(i)) = k - 1
    <2> DEFINE f == [a \in 1 .. (k - 1) |-> rows[a]]
               A == AheadOf(i)
    <2>1. f \in [1 .. (k - 1) -> A]
      BY <1>3
    <2>2. \A a, b \in 1 .. (k - 1) : f[a] = f[b] => a = b
      BY <1>3, OrderListsAll
    <2>3. \A j \in A : \E a \in 1 .. (k - 1) : f[a] = j
      BY <1>4
    <2> HIDE DEF f, A
    <2>4. f \in Bijection(1 .. (k - 1), A)
      BY <2>1, <2>2, <2>3 DEF Bijection, Injection, Surjection, IsInjective
    <2>5. k - 1 \in Nat
      BY <1>1
    <2> QED BY <2>4, <2>5, FS_CountingElements DEF ExistsBijection, A
  <1>6. \A a \in 1 .. k : a \in 1 .. (k - 1) \/ a = k
    BY <1>1
  <1> QED BY <1>2, <1>3, <1>5, <1>6

\* Which rows match is not changed by an answer, and what stops matching is gone.
LEMMA MatchingStays ==
    ASSUME TypeOK, ListTypeOK, List \/ ListBreaks \/ Meanwhile
    PROVE  /\ start' = start /\ gone \subseteq gone' /\ (broken => broken')
           /\ Matching(asked) \subseteq Matching(asked)' \cup gone'
  <1>1. CASE List \/ ListBreaks
    <2>1. PICK rows : rows \subseteq DOMAIN message_view /\ Answer(rows)
      BY <1>1, ListAnswers DEF Matching
    <2>2. asked'.folder = asked.folder /\ asked'.unread_only = asked.unread_only
      BY <2>1, AnswerType
    <2>3. message_view' = message_view /\ gone' = gone /\ start' = start /\ (broken => broken')
      BY <1>1, <2>1 DEF List, ListBreaks, Answer, vars, storeVars
    <2> QED BY <2>2, <2>3 DEF Matching, Matches
  <1>2. CASE Meanwhile
    <2>1. start' = start /\ gone \subseteq gone' /\ broken' = broken /\ asked' = asked
      BY <1>2 DEF Meanwhile, pageVars
    <2>2. ASSUME NEW i \in Matching(asked), i \notin gone' PROVE i \in Matching(asked)'
      BY <1>2, <2>1, <2>2 DEF Meanwhile, Matching
    <2> QED BY <2>1, <2>2
  <1> QED BY <1>1, <1>2

\* An excuse stays one.
LEMMA PassedOverStays ==
    ASSUME TypeOK, ListTypeOK, List \/ ListBreaks \/ Meanwhile,
           NEW i \in DOMAIN message_view, PassedOver(i)
    PROVE  PassedOver(i)'
  <1>1. gone \subseteq gone' /\ (broken => broken')
    BY MatchingStays
  <1>2. [ListNext]_listVars
    BY DEF ListNext
  <1>3. CASE i \in gone \/ ~Scannable(i) \/ broken
    BY <1>1, <1>2, <1>3, RowStays DEF PassedOver
  <1>4. ASSUME NEW j \in DOMAIN message_view, Ahead(j, i),
               j \in gone \/ ~Scannable(j) \/ DateOf(j) = DateOf(i)
        PROVE  PassedOver(i)'
    <2>1. /\ j \in DOMAIN message_view'
          /\ DateOf(j)' = DateOf(j) /\ DateOf(i)' = DateOf(i)
          /\ (Scannable(j) <=> Scannable(j)')
      BY <1>2, RowStays
    <2>2. Ahead(j, i)'
      BY <1>4, <2>1 DEF Ahead, NotAfter
    <2> QED BY <1>1, <1>4, <2>1, <2>2 DEF PassedOver
  <1> QED BY <1>3, <1>4 DEF PassedOver

\* The rows ahead of a row stay ahead, unless one of them is gone.
LEMMA AheadStays ==
    ASSUME TypeOK, ListTypeOK, List \/ ListBreaks \/ Meanwhile,
           NEW i \in DOMAIN message_view, ~PassedOver(i)'
    PROVE  AheadOf(i) \subseteq AheadOf(i)'
  <1> SUFFICES ASSUME NEW j \in AheadOf(i) PROVE j \in AheadOf(i)'
    OBVIOUS
  <1>1. [ListNext]_listVars
    BY DEF ListNext
  <1>2. j \in Matching(asked) /\ Ahead(j, i) /\ j \in DOMAIN message_view
    BY DEF AheadOf, Matching
  <1>3. /\ j \in DOMAIN message_view'
        /\ DateOf(j)' = DateOf(j) /\ DateOf(i)' = DateOf(i)
    BY <1>1, <1>2, RowStays
  <1>4. Ahead(j, i)'
    BY <1>2, <1>3 DEF Ahead, NotAfter
  <1>5. j \notin gone'
    BY <1>3, <1>4 DEF PassedOver
  <1>6. j \in Matching(asked)'
    BY <1>2, <1>5, MatchingStays
  <1> QED BY <1>4, <1>6 DEF AheadOf

LEMMA StartKeptNext ==
    ASSUME TypeOK, ListTypeOK, StartKept, [ListNext]_listVars
    PROVE  StartKept'
  <1>1. CASE Turn
    BY <1>1 DEF Turn, StartKept, Matching, vars, storeVars
  <1>2. CASE List \/ ListBreaks \/ Meanwhile
    BY <1>2, MatchingStays DEF StartKept
  <1>3. CASE UNCHANGED listVars
    BY <1>3 DEF listVars, pageVars, vars, storeVars, StartKept, Matching
  <1> QED BY <1>1, <1>2, <1>3 DEF ListNext

\* A page is answered: a row that is not on it, and was to come, is to come still.
LEMMA StillAfterPage ==
    ASSUME TypeOK, ListTypeOK, List, NEW i \in Matching(asked), ~PassedOver(i),
           LiesAhead(i), i \notin shown'
    PROVE  LiesAhead(i)'
  <1> DEFINE page == asked.page
             o == Offset(page)
  <1>1. page \in Nat \ {0} /\ o \in Nat /\ Offset(page + 1) = o + Limit
    BY Offsets DEF List, ListTypeOK, Asked
  <1>2. PICK rows \in Orders : Answer(Scanned(Window(rows, page)))
    BY DEF List
  <1> DEFINE w == Window(rows, page)
  <1>3. /\ Len(rows) \in Nat
        /\ \E k \in 1 .. Len(rows) : rows[k] = i
    BY <1>2, OrderListsAll
  <1>4. PICK k \in 1 .. Len(rows) : rows[k] = i
    BY <1>3
  <1>5. /\ w \in Seq(Matching(asked))
        /\ Len(w) \in Nat /\ DOMAIN w = 1 .. Len(w)
        /\ \A b \in 1 .. Len(w) : w[b] = rows[o + b]
        /\ k > o /\ k <= o + Limit => k - o \in 1 .. Len(w)
        /\ Len(rows) > o => Len(w) # 0
    <2>1. rows \in Seq(Matching(asked))
      BY <1>2, OrderListsAll
    <2> DEFINE S == Matching(asked)
    <2> HIDE DEF S, w, o, page
    <2>2. /\ Window(rows, page) \in Seq(S)
          /\ Len(Window(rows, page)) \in Nat
          /\ DOMAIN Window(rows, page) = 1 .. Len(Window(rows, page))
          /\ \A b \in 1 .. Len(Window(rows, page)) :
                Window(rows, page)[b] = rows[Offset(page) + b]
          /\ \A j \in 1 .. Len(rows) :
                j > Offset(page) /\ j <= Offset(page) + Limit
                   => j - Offset(page) \in 1 .. Len(Window(rows, page))
          /\ Len(rows) > Offset(page) => Len(Window(rows, page)) # 0
      BY <1>1, <2>1, WindowIs DEF S
    <2> QED BY <1>4, <2>2 DEF S, w, o
  <1>6. /\ Cardinality(AheadOf(i)) = k - 1
        /\ \A a \in 1 .. k : Scannable(rows[a])
    BY <1>2, <1>4, PlaceOf
  <1>7. Cardinality(AheadOf(i)) >= o
    BY DEF LiesAhead
  <1>8. /\ Answer(Scanned(w))
        /\ Scanned(w) \subseteq {j \in Matching(asked) : Scannable(j)}
    BY <1>2, <1>5, ScannedRows
  <1>9. Limit \in Nat
    BY LimitAssumption
  <1> HIDE DEF w, o, page
  <1>10. k > o
    BY <1>1, <1>3, <1>4, <1>6, <1>7
  <1>11. ASSUME NEW b \in 1 .. Len(w), o + b <= k
         PROVE  w[b] \in Scanned(w)
    <2>1. \A c \in 1 .. b : c \in 1 .. Len(w) /\ o + c \in 1 .. k
      BY <1>1, <1>3, <1>4, <1>5, <1>11
    <2>2. \A c \in 1 .. b : Scannable(w[c])
      BY <1>5, <1>6, <2>1
    <2> QED BY <1>5, <2>2 DEF Scanned
  <1>12. k > o + Limit
    <2> SUFFICES ASSUME k <= o + Limit PROVE FALSE
      BY <1>1, <1>3, <1>4, <1>9
    <2>1. k - o \in 1 .. Len(w) /\ w[k - o] = i /\ o + (k - o) <= k
      BY <1>1, <1>3, <1>4, <1>5, <1>10
    <2>2. i \in Scanned(w)
      BY <1>11, <2>1
    <2> QED BY <1>8, <2>2 DEF Answer
  <1>13. Scanned(w) # {}
    <2>1. 1 \in 1 .. Len(w) /\ o + 1 <= k
      BY <1>1, <1>3, <1>4, <1>5, <1>10
    <2> QED BY <1>11, <2>1
  <1>14. asked'.page = page + 1 /\ asked'.page # 0
    <2>1. Scanned(w) \in SUBSET (DOMAIN message_view)
      BY <1>8 DEF Matching
    <2> QED BY <1>1, <1>8, <1>13, <2>1, AnswerType DEF page
  <1>15. AheadOf(i)' = AheadOf(i)
    <2>1. asked'.folder = asked.folder /\ asked'.unread_only = asked.unread_only
      <3>1. Scanned(w) \in SUBSET (DOMAIN message_view)
        BY <1>8 DEF Matching
      <3> QED BY <1>8, <3>1, AnswerType
    <2>2. message_view' = message_view /\ date' = date
      BY <1>8 DEF List, Answer, vars, storeVars
    <2> QED BY <2>1, <2>2 DEF AheadOf, Matching, Matches, Ahead, NotAfter, DateOf
  <1>16. Cardinality(AheadOf(i)) >= o + Limit
    BY <1>1, <1>3, <1>4, <1>6, <1>9, <1>12
  <1>17. Offset(asked'.page) = o + Limit
    BY <1>1, <1>14
  <1>18. Cardinality(AheadOf(i)') >= Offset(asked'.page)
    BY <1>15, <1>16, <1>17
  <1> QED BY <1>14, <1>18 DEF LiesAhead, Offset

LEMMA StillToComeNext ==
    ASSUME TypeOK, ListTypeOK, PageInv, [ListNext]_listVars
    PROVE  StillToCome'
  <1> SUFFICES ASSUME NEW i \in start', i \notin shown', ~PassedOver(i)'
               PROVE  LiesAhead(i)'
    BY DEF StillToCome
  <1>1. /\ TypeOK'
        /\ IsFiniteSet(AheadOf(i)') /\ Cardinality(AheadOf(i)') \in Nat
    <2>1. TypeOK' => AheadIsFinite'
      BY AheadFinite, PTL
    <2> QED BY <2>1, StoreTypeNext DEF AheadIsFinite
  <1>2. CASE Turn
    <2>1. asked'.page = 1
      BY <1>2 DEF Turn
    <2>2. Offset(asked'.page) = 0
      BY <2>1, Offsets
    <2>3. Cardinality(AheadOf(i)') >= Offset(asked'.page)
      BY <1>1, <2>2
    <2> QED BY <2>1, <2>3 DEF LiesAhead, Offset
  <1>3. CASE List \/ ListBreaks \/ Meanwhile
    <2>1. start' = start /\ shown \subseteq shown'
      BY <1>3, MatchingStays DEF List, ListBreaks, Answer, Meanwhile, pageVars
    <2>2. i \in start /\ i \notin shown /\ i \in DOMAIN message_view
      BY <2>1 DEF ListTypeOK
    <2>3. ~PassedOver(i)
      BY <1>3, <2>2, PassedOverStays
    <2>4. LiesAhead(i) /\ i \in Matching(asked)
      BY <2>2, <2>3 DEF PageInv, StartKept, StillToCome, PassedOver
    <2>5. CASE List
      BY <2>3, <2>4, <2>5, StillAfterPage
    <2>6. CASE ListBreaks
      BY <2>6 DEF ListBreaks, PassedOver
    <2>7. CASE Meanwhile
      <3>1. AheadOf(i) \subseteq AheadOf(i)'
        BY <2>2, <2>7, AheadStays
      <3>2. IsFiniteSet(AheadOf(i)) /\ Cardinality(AheadOf(i)) \in Nat
        BY AheadFinite DEF AheadIsFinite
      <3>3. Cardinality(AheadOf(i)) <= Cardinality(AheadOf(i)')
        BY <1>1, <3>1, FS_Subset
      <3>4. asked' = asked /\ asked.page \in Nat \ {0}
        BY <2>4, <2>7 DEF Meanwhile, pageVars, LiesAhead, ListTypeOK, Asked
      <3>5. Offset(asked.page) \in Nat
        BY <3>4, Offsets
      <3>6. Cardinality(AheadOf(i)') >= Offset(asked.page)
        BY <1>1, <2>4, <3>2, <3>3, <3>5 DEF LiesAhead
      <3> QED BY <3>4, <3>6 DEF LiesAhead, Offset
    <2> QED BY <1>3, <2>5, <2>6, <2>7
  <1>4. CASE UNCHANGED listVars
    <2>1. i \in start /\ i \notin shown /\ ~PassedOver(i)
      BY <1>4 DEF listVars, pageVars, vars, storeVars, PassedOver, Scannable, DateOf, Ahead,
                  NotAfter
    <2>2. LiesAhead(i)
      BY <2>1 DEF PageInv, StillToCome
    <2> QED
      BY <1>4, <2>2 DEF listVars, pageVars, vars, storeVars, LiesAhead, AheadOf, Matching,
                        Matches, Ahead, NotAfter, DateOf, Offset
  <1> QED BY <1>2, <1>3, <1>4 DEF ListNext

------------------------------------------------------------------------------
(* The invariants.                                                          *)

ListAll == TypeOK /\ ListTypeOK /\ ListedCanBeOpened /\ PageInv

LEMMA ListAllInit ==
    ASSUME ListInit
    PROVE  ListAll
  <1>1. TypeOK
    BY TypeInit DEF ListInit
  <1>2. ListedCanBeOpened /\ StartKept /\ StillToCome
    BY DEF ListInit, ListedCanBeOpened, StartKept, StillToCome
  <1> QED BY <1>1, <1>2, ListTypeInit DEF ListAll, PageInv

LEMMA ListAllNext ==
    ASSUME ListAll, [ListNext]_listVars
    PROVE  ListAll'
  BY StoreTypeNext, ListTypeNext, OpenedNext, StartKeptNext, StillToComeNext
  DEF ListAll, PageInv

\* Every row that a client holds on to, asked for or was shown, is in the view.
THEOREM ListTypeCorrect == ListSpec => []ListTypeOK
  <1>1. ListAll => ListTypeOK
    BY DEF ListAll
  <1> QED BY <1>1, ListAllInit, ListAllNext, PTL DEF ListSpec

\* What a page has shown can be opened ever after: whatever the scan and the
\* handlers do, they leave its date and its body alone (handlers/messages.go).
THEOREM ListedCanBeOpenedCorrect == ListSpec => []ListedCanBeOpened
  <1>1. ListAll => ListedCanBeOpened
    BY DEF ListAll
  <1> QED BY <1>1, ListAllInit, ListAllNext, PTL DEF ListSpec

\* Going through a folder page by page, of any length, with pages of any size,
\* passes over a row for the reasons that PassedOver states and no other (List in
\* handlers/messages.go).
THEOREM PagesMissNothingCorrect == ListSpec => []PagesMissNothing
  <1>1. ListAll => PagesMissNothing
    BY DEF ListAll, PageInv, StillToCome, LiesAhead, PagesMissNothing
  <1> QED BY <1>1, ListAllInit, ListAllNext, PTL DEF ListSpec

================================================================================
