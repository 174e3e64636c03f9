----------------------------- MODULE MessageList ------------------------------
(***************************************************************************)
(* A client that reads a folder page by page with                          *)
(* GET /api/v1/messages?folder=...&page=...&limit=... (List in             *)
(* handlers/messages.go) and may open what it was shown (Get), while the   *)
(* watcher and the other handlers of MailSync change the rows.             *)
(*                                                                         *)
(*   date      the Date header of each message, 0 when it has none: the    *)
(*             column is NULL then (nullTime); it is the sender's, so that *)
(*             it need not grow with the UID, and messages may share one   *)
(*   asked     what the client asks for, and the page it asks for next     *)
(*   start     the rows that matched when it asked for page 1              *)
(*   shown     the rows of the pages since then                            *)
(*   gone      the rows that have stopped matching since then              *)
(*   broken    whether a page of this pass ended early, the connection     *)
(*             to the database being lost                                  *)
(*   listed    every row that any page ever showed                         *)
(***************************************************************************)
EXTENDS MailSync, FiniteSets

CONSTANTS
    Limit,    \* rows of a page
    Dates     \* dates that messages may have

ASSUME LimitAssumption == Limit \in Nat \ {0}
ASSUME DatesAssumption == Dates \subseteq Nat

VARIABLES date, asked, start, shown, gone, broken, listed

pageVars == <<asked, start, shown, broken, listed>>
listVars == <<vars, date, pageVars, gone>>

\* Page 0: the pass is over, because a page came back empty.
Asked == [folder: Folders, unread_only: BOOLEAN, page: Nat]

ListTypeOK ==
    /\ date \in [Uids -> Dates]
    /\ asked \in Asked
    /\ start \subseteq DOMAIN message_view
    /\ shown \subseteq listed
    /\ gone \subseteq DOMAIN message_view
    /\ broken \in BOOLEAN
    /\ listed \subseteq DOMAIN message_view

ListInit ==
    /\ Init
    /\ date \in [Uids -> Dates]
    /\ asked = [folder |-> "INBOX", unread_only |-> FALSE, page |-> 0]
    /\ start = {}
    /\ shown = {}
    /\ gone = {}
    /\ broken = FALSE
    /\ listed = {}

------------------------------------------------------------------------------
(* The query.                                                              *)

DateOf(i) == date[message_view[i].uid]

\* The WHERE clause: is_deleted is not looked at.
Matches(row, ask) ==
    /\ row.folder = ask.folder
    /\ ask.unread_only => ~row.is_read

Matching(ask) == {i \in DOMAIN message_view : Matches(message_view[i], ask)}

\* ORDER BY date DESC, which puts NULL first.
NotAfter(i, j) ==
    \/ DateOf(i) = 0
    \/ DateOf(j) # 0 /\ DateOf(i) >= DateOf(j)

\* The orders in which PostgreSQL may return the matching rows: rows with one
\* date may come in another order each time.
Orders ==
    LET n == Cardinality(Matching(asked)) IN
    {rows \in [1 .. n -> Matching(asked)] :
        /\ \A a, b \in 1 .. n : a # b => rows[a] # rows[b]
        /\ \A a, b \in 1 .. n : a < b => NotAfter(rows[a], rows[b])}

\* (Mutant.) The first page is page 0.
OffsetFromZero(page) == page * Limit

Offset(page) == (page - 1) * Limit

\* LIMIT and OFFSET.
Window(rows, page) ==
    LET last == Offset(page) + Limit IN
    SubSeq(rows, Offset(page) + 1, IF last <= Len(rows) THEN last ELSE Len(rows))

------------------------------------------------------------------------------
(* List and Get.                                                           *)

\* Scan fails on NULL for the fields Date and Snippet of a MessageView, and in
\* Get also for BodyText and BodyHTML, which are NULL in the same rows.
Scannable(i) == DateOf(i) # 0 /\ message_view[i].body # "NULL"

\* The loop over the rows: an error of Scan closes them, so that the "continue"
\* that follows it ends the loop.
Scanned(rows) ==
    {rows[a] : a \in {b \in DOMAIN rows : \A c \in 1 .. b : Scannable(rows[c])}}

\* What Get answers for a row.
CanBeOpened(i) == Scannable(i)

------------------------------------------------------------------------------
(* The client.                                                             *)

\* It turns to a folder, and to all of its messages or the unread ones.
Turn ==
    /\ asked.page = 0
    /\ \E folder \in Folders, unread_only \in BOOLEAN :
          asked' = [folder |-> folder, unread_only |-> unread_only, page |-> 1]
    /\ start' = Matching(asked')
    /\ shown' = {}
    /\ gone' = {}
    /\ broken' = FALSE
    /\ UNCHANGED <<vars, date, listed>>

\* It is answered with these rows, and asks for the next page until one is empty.
Answer(rows) ==
    /\ shown' = shown \cup rows
    /\ listed' = listed \cup rows
    /\ asked' = [asked EXCEPT !.page = IF rows = {} THEN 0 ELSE @ + 1]
    /\ UNCHANGED <<date, start, gone>>

List ==
    /\ asked.page # 0
    /\ \E rows \in Orders : Answer(Scanned(Window(rows, asked.page)))
    /\ UNCHANGED <<vars, broken>>

\* The connection to the database breaks while the rows are read: Next returns
\* false, Err is not looked at, and the answer is a page with status 200.
ListBreaks ==
    /\ asked.page # 0
    /\ Fail("page")
    /\ \E rows \in Orders :
          LET page == Window(rows, asked.page) IN
          \E n \in 0 .. Len(page) : Answer(Scanned(SubSeq(page, 1, n)))
    /\ broken' = TRUE
    /\ UNCHANGED <<inbox, seen, message_view, events, watcherVars, req>>

\* Everything else, which may take rows out of the query.
Meanwhile ==
    /\ Next
    /\ gone' = gone \cup {i \in Matching(asked) :
                                \/ i \notin DOMAIN message_view'
                                \/ ~Matches(message_view'[i], asked)}
    /\ UNCHANGED <<date, pageVars>>

ListNext == Turn \/ List \/ ListBreaks \/ Meanwhile

ListSpec == ListInit /\ [][ListNext]_listVars

------------------------------------------------------------------------------

\* Row j comes before row i in a listing, or may come before it.
Ahead(j, i) == j # i /\ NotAfter(j, i)

\* Going through a folder page by page shows every row that matched at the start,
\* although mail arrives, is marked and is moved between two pages.  A row is
\* passed over only if it has left the folder (or become read), if a row ahead
\* of it has left and so moved it to a page the client already has, if a row
\* that shares its date may have changed places with it, or if a page was cut
\* short, by a lost connection or by a row ahead of it that cannot be scanned.
PassedOver(i) ==
    \/ i \in gone \/ ~Scannable(i)
    \/ broken
    \/ \E j \in DOMAIN message_view :
          /\ Ahead(j, i)
          /\ j \in gone \/ ~Scannable(j) \/ DateOf(j) = DateOf(i)

PagesMissNothing ==
    asked.page = 0 => \A i \in start : i \in shown \/ PassedOver(i)

\* What a page has shown can be opened ever after: no later statement turns a row
\* of the listing into one that Get answers with 500 (the upserts of service.go
\* leave date, snippet and body of an existing row alone).
ListedCanBeOpened == \A i \in listed : CanBeOpened(i)

------------------------------------------------------------------------------
(* What makes these invariants inductive.                                   *)

\* The matching rows that come before row i in a listing, or may come before it.
AheadOf(i) == {j \in Matching(asked) : Ahead(j, i)}

\* A row of the start matches still, or is known to have stopped matching.
StartKept == \A i \in start : i \in Matching(asked) \cup gone

\* A row that no page has shown lies on a later page: the rows ahead of it fill
\* the pages so far.
LiesAhead(i) == asked.page # 0 /\ Cardinality(AheadOf(i)) >= Offset(asked.page)

StillToCome == \A i \in start : i \in shown \/ PassedOver(i) \/ LiesAhead(i)

\* Inductive together with TypeOK and ListTypeOK.
PageInv == StartKept /\ StillToCome

==============================================================================
