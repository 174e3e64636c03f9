------------------------------- MODULE Watcher -------------------------------
(***************************************************************************)
(* The watcher goroutine of one account (internal/watcher/service.go):     *)
(* watchAccount, idleLoop and scanNewMessages.  Service.Run starts at most *)
(* one goroutine per account.  Each action is one IMAP command or one SQL  *)
(* statement; between two of them other processes may act.                 *)
(*                                                                         *)
(*   stage     where the goroutine is                                      *)
(*   todo      the fetched messages the scan loop has not finished         *)
(*   fetched   those of the fetched messages that carried \Seen            *)
(*   known     the result of the "already tracked" query                   *)
(*   has_body  whether FetchBody returned a body for the current message   *)
(***************************************************************************)
EXTENDS MailStore

CONSTANTS
    Unparsable,  \* messages on which NextPart fails for ever, never with EOF
    Unstorable,  \* messages whose text PostgreSQL rejects (cut UTF-8, NUL)
    Unquotable   \* messages with a To address that needs an escape in JSON

VARIABLES stage, todo, fetched, known, has_body

watcherVars == <<stage, todo, fetched, known, has_body>>

Stages == {"connect", "backoff", "headers", "query", "loop", "extract",
           "insert", "emit", "idle"}

WatcherTypeOK ==
    /\ stage \in Stages
    /\ todo \subseteq inbox
    /\ fetched \subseteq seen
    /\ known \subseteq Uids
    /\ has_body \in BOOLEAN

\* The scan's local variables when no scan runs.
NoScan ==
    /\ todo' = {}
    /\ fetched' = {}
    /\ known' = {}
    /\ has_body' = FALSE

WatcherInit ==
    /\ stage = "connect"
    /\ todo = {}
    /\ fetched = {}
    /\ known = {}
    /\ has_body = FALSE

------------------------------------------------------------------------------
(* watchAccount and idleLoop.                                              *)

\* Dial, log in and select INBOX; the initial scan follows.
Connect ==
    /\ stage = "connect"
    /\ stage' = "headers"
    /\ UNCHANGED <<storeVars, todo, fetched, known, has_body>>

\* Any of the three fails: idleLoop returns the error and watchAccount waits.
ConnectFails ==
    /\ stage = "connect"
    /\ Fail("connect")
    /\ stage' = "backoff"
    /\ UNCHANGED <<inbox, seen, message_view, events, todo, fetched, known, has_body>>

BackoffElapsed ==
    /\ stage = "backoff"
    /\ stage' = "connect"
    /\ UNCHANGED <<storeVars, todo, fetched, known, has_body>>

\* Idle returns nil after its 25 minutes and a scan follows.
IdleReturns ==
    /\ stage = "idle"
    /\ stage' = "headers"
    /\ UNCHANGED <<storeVars, todo, fetched, known, has_body>>

IdleFails ==
    /\ stage = "idle"
    /\ Fail("idle")
    /\ stage' = "backoff"
    /\ UNCHANGED <<inbox, seen, message_view, events, todo, fetched, known, has_body>>

------------------------------------------------------------------------------
(* scanNewMessages: the two reads.                                         *)

\* FETCH 1:* (UID FLAGS ENVELOPE RFC822.SIZE).  An empty mailbox ends the scan.
FetchHeaders ==
    /\ stage = "headers"
    /\ stage' = IF inbox = {} THEN "idle" ELSE "query"
    /\ todo' = inbox
    /\ fetched' = seen
    /\ UNCHANGED <<storeVars, known, has_body>>

\* The error is logged by idleLoop, which goes back to IDLE.
FetchHeadersFails ==
    /\ stage = "headers"
    /\ Fail("headers")
    /\ stage' = "idle"
    /\ UNCHANGED <<inbox, seen, message_view, events, todo, fetched, known, has_body>>

TrackedInInbox == {u \in Uids : HasRow(u, "INBOX")}

QueryKnown ==
    /\ stage = "query"
    /\ known' = TrackedInInbox
    /\ stage' = "loop"
    /\ UNCHANGED <<storeVars, todo, fetched, has_body>>

QueryKnownFails ==
    /\ stage = "query"
    /\ Fail("query")
    /\ stage' = "idle"
    /\ NoScan
    /\ UNCHANGED <<inbox, seen, message_view, events>>

\* The connection breaks while the rows are read: rows.Next returns false,
\* rows.Err is not looked at, and the scan goes on with what it has.
QueryKnownTruncated ==
    /\ stage = "query"
    /\ Fail("truncated")
    /\ known' \in SUBSET TrackedInInbox
    /\ stage' = "loop"
    /\ UNCHANGED <<inbox, seen, message_view, events, todo, fetched, has_body>>

------------------------------------------------------------------------------
(* scanNewMessages: the loop over the messages, in mailbox order.          *)

\* (Mutant.) The loop starts from the newest message.
CurrentNewestFirst(u) == u \in todo /\ \A v \in todo : u >= v

Current(u) == u \in todo /\ \A v \in todo : u <= v

\* Done with message u: the next one, or the end of the scan.
NextMessage(u) ==
    IF todo = {u}
    THEN stage' = "idle" /\ NoScan
    ELSE /\ stage' = "loop"
         /\ todo' = todo \ {u}
         /\ has_body' = FALSE
         /\ UNCHANGED <<fetched, known>>

\* (Mutant.) Headers are upserted whether or not the message is known.
UpsertKnownOrNew(u) ==
    /\ stage = "loop"
    /\ Current(u)
    /\ UpsertHeaders(u, u \in fetched)
    /\ NextMessage(u)
    /\ UNCHANGED <<inbox, seen, events, faults>>

UpsertKnown(u) ==
    /\ stage = "loop"
    /\ Current(u)
    /\ u \in known
    /\ UpsertHeaders(u, u \in fetched)
    /\ NextMessage(u)
    /\ UNCHANGED <<inbox, seen, events, faults>>

\* The error is only logged.
UpsertKnownFails(u) ==
    /\ stage = "loop"
    /\ Current(u)
    /\ u \in known
    /\ Fail("upsert")
    /\ NextMessage(u)
    /\ UNCHANGED <<inbox, seen, message_view, events>>

\* (Mutant.) The known message falls through to the code for a new one.
FetchBodyOfKnown(u) ==
    /\ stage = "loop"
    /\ Current(u)
    /\ SetSeen(u)
    /\ has_body' = TRUE
    /\ stage' = "extract"
    /\ UNCHANGED <<inbox, message_view, events, faults, todo, fetched, known>>

FetchBody(u) ==
    /\ stage = "loop"
    /\ Current(u)
    /\ u \notin known
    /\ SetSeen(u)
    /\ has_body' = TRUE
    /\ stage' = "extract"
    /\ UNCHANGED <<inbox, message_view, events, faults, todo, fetched, known>>

\* The error is only logged and the message goes on with an empty body; the
\* server may have set \Seen before the answer was lost.
FetchBodyFails(u) ==
    /\ stage = "loop"
    /\ Current(u)
    /\ u \notin known
    /\ Fail("body")
    /\ SetSeen(u) \/ UNCHANGED seen
    /\ stage' = "insert"
    /\ UNCHANGED <<inbox, message_view, events, todo, fetched, known, has_body>>

\* extractBody: on an error other than io.EOF its loop calls NextPart again, so
\* it does not return for a message whose error is permanent.
ExtractBody(u) ==
    /\ stage = "extract"
    /\ Current(u)
    /\ u \notin Unparsable
    /\ stage' = "insert"
    /\ UNCHANGED <<storeVars, todo, fetched, known, has_body>>

\* Whether PostgreSQL accepts the values: a body or snippet that is not valid
\* UTF-8 is refused each time, an empty one never is; toJSONB escapes nothing, so
\* that an address with a quote or a backslash makes to_addrs invalid JSON.
Storable(u) ==
    /\ has_body => u \notin Unstorable
    /\ u \notin Unquotable

InsertNew(u) ==
    /\ stage = "insert"
    /\ Current(u)
    /\ Storable(u)
    /\ InsertMessage(u, u \in fetched, has_body)
    /\ stage' = "emit"
    /\ UNCHANGED <<inbox, seen, events, faults, todo, fetched, known, has_body>>

\* The values are refused: no row, no event, on to the next message.
InsertNewRefused(u) ==
    /\ stage = "insert"
    /\ Current(u)
    /\ ~Storable(u)
    /\ NextMessage(u)
    /\ UNCHANGED storeVars

\* (Mutant.) The event is emitted although the insert failed.
InsertNewFailsButEmits(u) ==
    /\ stage = "insert"
    /\ Current(u)
    /\ Storable(u)
    /\ Fail("insert")
    /\ stage' = "emit"
    /\ UNCHANGED <<inbox, seen, message_view, events, todo, fetched, known, has_body>>

\* The statement fails, or is applied and its answer lost; either way the code
\* skips the event.
InsertNewFails(u) ==
    /\ stage = "insert"
    /\ Current(u)
    /\ Storable(u)
    /\ Fail("insert")
    /\ \/ InsertMessage(u, u \in fetched, has_body)
       \/ UNCHANGED message_view
    /\ NextMessage(u)
    /\ UNCHANGED <<inbox, seen, events>>

EmitDelivered(u) ==
    /\ stage = "emit"
    /\ Current(u)
    /\ Emit("MessageDelivered", u, "INBOX")
    /\ NextMessage(u)
    /\ UNCHANGED <<inbox, seen, message_view, faults>>

\* EmitWith's error is ignored.
EmitDeliveredFails(u) ==
    /\ stage = "emit"
    /\ Current(u)
    /\ Fail("emit")
    /\ NextMessage(u)
    /\ UNCHANGED <<inbox, seen, message_view, events>>

\* The process dies, or its context is cancelled, and it is started again.
Crash ==
    /\ Fail("crash")
    /\ stage' = "connect"
    /\ NoScan
    /\ UNCHANGED <<inbox, seen, message_view, events>>

------------------------------------------------------------------------------

\* What the goroutine does when nothing fails.
WatcherStep ==
    \/ Connect \/ BackoffElapsed \/ IdleReturns \/ FetchHeaders \/ QueryKnown
    \/ \E u \in todo : \/ UpsertKnown(u) \/ FetchBody(u) \/ ExtractBody(u)
                       \/ InsertNew(u) \/ InsertNewRefused(u)
                       \/ EmitDelivered(u)

WatcherFault ==
    \/ ConnectFails \/ IdleFails \/ FetchHeadersFails
    \/ QueryKnownFails \/ QueryKnownTruncated \/ Crash
    \/ \E u \in todo : \/ UpsertKnownFails(u) \/ FetchBodyFails(u)
                       \/ InsertNewFails(u) \/ EmitDeliveredFails(u)

WatcherNext == WatcherStep \/ WatcherFault

\* The goroutine is scheduled, its IMAP and SQL calls return, its timers fire.
WatcherFairness == WF_<<storeVars, watcherVars>>(WatcherStep)

------------------------------------------------------------------------------
(* The watcher alone with Dovecot: no API call is made.                    *)

WInit == StoreInit /\ WatcherInit
WNext == WatcherNext \/ (Deliver /\ UNCHANGED watcherVars)
WSpec == WInit /\ [][WNext]_<<storeVars, watcherVars>> /\ WatcherFairness

\* A message that is accepted by PostgreSQL and not behind one whose body the
\* scan never gets through.
Announceable(u) ==
    /\ u \notin Unstorable \cup Unquotable
    /\ \A v \in Unparsable : u < v

\* The process was restarted between the row of u and its event.
CutShort(u) ==
    /\ stage = "connect"
    /\ HasRow(u, "INBOX")
    /\ Announcements(u) = {}

\* Every such message is announced, although connections break, reads fail or
\* come back short, bodies cannot be fetched, the process dies, the insert of an
\* earlier message is refused in every scan, or a later message ends the scans
\* for good: a later scan makes up for what an earlier one left out, and no
\* message waits for one with a greater UID.  Only a process that dies between
\* the row and the event leaves a message out (idleLoop, scanNewMessages).
EveryMessageAnnounced ==
    \A u \in Uids :
        Announceable(u) =>
            (<>(u \in inbox) => <>(Announcements(u) # {} \/ CutShort(u)))

------------------------------------------------------------------------------
(* What the comments say, and the code does not do.                         *)

\* "It ... emits MessageDelivered events for genuinely new messages", "catch
\* anything delivered while we were offline" (scanNewMessages, idleLoop): every
\* message of the INBOX is announced in the end.
NewMessagesAnnounced ==
    \A u \in Uids : (u \in inbox) ~> (Announcements(u) # {})

==============================================================================
