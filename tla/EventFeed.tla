------------------------------ MODULE EventFeed ------------------------------
(***************************************************************************)
(* A client that reads the event log page by page with                     *)
(* GET /api/v1/events?after_id=...&limit=... (handlers/events.go), while   *)
(* the watcher and the handlers of MailSync append to it.                  *)
(*                                                                         *)
(* The id of an event is its place in the sequence of MailSync.  A writer  *)
(* draws it from the BIGSERIAL of the table, and others see the event only *)
(* when the INSERT has committed, which is when the writer goes on.  The   *)
(* client sends the next_id of each answer as the after_id of its next     *)
(* call.  A query that breaks off while its rows are read answers 200 with *)
(* the rows read so far.                                                   *)
(*                                                                         *)
(*   in_flight   per writer the id of its INSERT that has not ended, or 0  *)
(*   visible     ids of the committed events                               *)
(*   after_id    the client's next after_id                                *)
(*   pass        ids received since after_id was 0                         *)
(*   start       ids that were visible then                                *)
(*   cut         the last answer broke off before its first row            *)
(***************************************************************************)
EXTENDS MailSync, FiniteSets

CONSTANT Limit    \* rows of a page

ASSUME LimitAssumption == Limit \in Nat \ {0}

VARIABLES in_flight, visible, after_id, pass, start, cut

clientVars == <<after_id, pass, start, cut>>
feedVars == <<vars, in_flight, visible, clientVars>>

Writers == {"watcher"} \cup Requests

FeedTypeOK ==
    /\ in_flight \in [Writers -> 0 .. Len(events)]
    /\ visible \subseteq DOMAIN events
    /\ after_id \in 0 .. Len(events)
    /\ pass \subseteq visible
    /\ start \subseteq visible
    /\ cut \in BOOLEAN

FeedInit ==
    /\ Init
    /\ in_flight = [w \in Writers |-> 0]
    /\ visible = {}
    /\ after_id = 0
    /\ pass = {}
    /\ start = {}
    /\ cut = FALSE

------------------------------------------------------------------------------
(* The writers.                                                            *)

\* Writer w does A; an event that A appends has its id but is not yet committed.
Writes(w, A) ==
    /\ in_flight[w] = 0
    /\ A
    /\ in_flight' = [in_flight EXCEPT ![w] =
                        IF events' = events THEN 0 ELSE Len(events')]
    /\ UNCHANGED <<visible, clientVars>>

Commit(w) ==
    /\ in_flight[w] # 0
    /\ visible' = visible \cup {in_flight[w]}
    /\ in_flight' = [in_flight EXCEPT ![w] = 0]
    /\ UNCHANGED <<vars, clientVars>>

\* The INSERT ends in an error, which EmitWith returns and no caller looks at;
\* its id stays unused.
RollBack(w) ==
    /\ in_flight[w] # 0
    /\ Fail("rollback")
    /\ in_flight' = [in_flight EXCEPT ![w] = 0]
    /\ UNCHANGED <<inbox, seen, message_view, events, watcherVars, req, visible,
                   clientVars>>

------------------------------------------------------------------------------
(* EventHandler.List and the client.                                       *)

After == {i \in visible : i > after_id}

\* WHERE id > after_id ORDER BY id ASC LIMIT limit.
Page == {i \in After : Cardinality({j \in After : j < i}) < Limit}

Last(ids) == CHOOSE i \in ids : \A j \in ids : j <= i

\* (Mutant.) An empty page answers with the after_id it was asked for.
NextIdOrSame(page) == IF page = {} THEN after_id ELSE Last(page)

\* (Mutant.) A page that is not full ends the log.
NextIdOfFullPage(page) == IF Cardinality(page) < Limit THEN 0 ELSE Last(page)

\* (Mutant.) The id after the last event of the page.
NextIdPlusOne(page) == IF page = {} THEN 0 ELSE Last(page) + 1

\* The id of the last event of the page, and 0 if the page is empty.
NextId(page) == IF page = {} THEN 0 ELSE Last(page)

\* The client receives page, and continues or starts again.
Receive(page) ==
    /\ after_id' = NextId(page)
    /\ pass' = IF after_id = 0 THEN page ELSE pass \cup page
    /\ start' = IF after_id = 0 THEN visible ELSE start

Poll ==
    /\ Receive(Page)
    /\ cut' = FALSE
    /\ UNCHANGED <<vars, in_flight, visible>>

\* The connection breaks before the last row is read: Next returns false, Err is
\* not looked at, and the rows so far are the page.
PollBreaks ==
    /\ Fail("page")
    /\ \E last \in {0} \cup Page :
          /\ Receive({i \in Page : i <= last})
          /\ cut' = (last = 0)
    /\ UNCHANGED <<inbox, seen, message_view, events, watcherVars, req, in_flight,
                   visible>>

------------------------------------------------------------------------------

FeedNext ==
    \/ Deliver /\ UNCHANGED <<watcherVars, req, in_flight, visible, clientVars>>
    \/ Writes("watcher", WatcherNext /\ UNCHANGED req)
    \/ \E r \in Requests :
          Writes(r, (Begin(r) \/ ApiStep(r) \/ ApiFault(r)) /\ UNCHANGED watcherVars)
    \/ \E w \in Writers : Commit(w) \/ RollBack(w)
    \/ Poll \/ PollBreaks

\* The client keeps asking.
FeedFairness == WF_feedVars(Poll)

FeedSpec == FeedInit /\ [][FeedNext]_feedVars /\ FeedFairness

------------------------------------------------------------------------------

\* Paging from after_id 0 until next_id is 0 again misses no event that was
\* committed when the paging began, although others commit meanwhile and with
\* lower ids than events already received.  A page cut short by a lost connection
\* is made up for by the next one, which continues where it ended; only a page
\* cut before its first row looks like the end (EventHandler.List).
PassComplete ==
    [][after_id # 0 /\ after_id' = 0 => start \subseteq pass' \/ cut']_feedVars

\* A client that keeps paging again and again holds every event committed so far,
\* once the log no longer grows (in the model it ends).  An event that commits
\* after one with a greater id was received is passed over, and a page cut before
\* its first row ends the paging; it is the next_id 0 of an empty page that makes
\* the client read it all after all (EventHandler.List).
HoldsWholeLog == []<>(visible \subseteq pass)

------------------------------------------------------------------------------
(* What makes PassComplete inductive.                                       *)

\* The pages received so far hold every event of the start up to after_id.
PassSoFar == after_id # 0 => \A i \in start : i <= after_id => i \in pass

==============================================================================
