# A TLA+ model of skybeam-mail

skybeam-mail serves mailboxes over HTTP. Dovecot is the source of truth for
mail; three Go binaries keep a read cache of it in PostgreSQL and answer a web
client from that cache. This directory models the parts in which state changes,
checks them with TLC on small instances, and proves the main guarantees with
TLAPS for every instance.

1. [Inventory](#1-inventory) - 2. [Modules](#2-modules) - 3. [Runs](#3-runs) -
4. [Fairness](#4-fairness) - 5. [Proofs](#5-proofs) -
6. [What the code does not do](#6-what-the-code-does-not-do) -
7. [Abstractions](#7-abstractions) - 8. [Not modelled](#8-not-modelled) -
9. [Plan](#9-plan)

## 1. Inventory

| Component | State it keeps | Operations | What is hard about it | What makes it correct |
|---|---|---|---|---|
| **Watcher, one account** `internal/watcher` watchAccount, idleLoop, scanNewMessages, extractBody | a scan's fetched flags, known UIDs, current body; otherwise only the tables | connect, scan (two reads, then per message an upsert, or body fetch + insert + event), IDLE, backoff | reads are minutes old when they are used; every statement may fail alone; a crash leaves a row without its event | each message announced, once, after its row; the cache converges |
| **Watcher, supervisor** Service.Run, watchAccount | map of watched accounts, backoff, timers | poll accounts each 5 min, start goroutines, back off, idle for 25 min | the map never shrinks; the backoff is reset only at shutdown; a short list of accounts looks like a full one; a scan may never return | one goroutine per account; mail is seen within the time of one wait, plus one per failure |
| **IMAP client** `internal/imap` | one connection | Login, Select, FetchHeaders, FetchBody, Idle | FETCH BODY[] sets \Seen; Idle waits for a timer | - |
| **Message handlers** `internal/api/handlers/messages.go` | none between requests | PATCH (is_read, is_starred), DELETE (Trash or is_deleted), List by OFFSET, Get | lookup, update and event are three transactions, errors of the last two are dropped; pages are cut from a table that changes | an event names a stored message; paging passes over nothing but for a cause; what is listed can be opened |
| **message_view**, **events** migrations 003, 004 | rows, UNIQUE(account, uid, folder); append-only log | SQL statements | all writers meet here and nothing locks | one row per message and folder |
| **Folder handlers** `handlers/folders.go` | none between requests | create, delete, list | emptiness check and delete are two statements | a folder with mail stays listed |
| **Reconciler** `internal/reconciler` | none between ticks | refresh folder_view, log an event | ticks overlap | counts are those of the rows |
| **Sessions and accounts** `internal/auth`, auth and admin handlers, middleware | accounts, sessions | login, logout, verify, create account, -setup-admin | bcrypt between read and insert; last_seen written by a goroutine; the account is read once per request | nobody is served on a session that stays over |
| **Event log API** `handlers/events.go` | none; the client its after_id | page by serial id | ids are drawn before commit; a broken query answers like a short page; an empty page answers next_id 0 | a poller that goes on ends up with the whole log |
| **Configuration and processes** `internal/config`, `internal/db`, `cmd/*` | a *Config, a pool | search for .env, Load, NewPool, tickers, signals; Docker restarts what ended | every failure at start ends the process | a service runs only with what it was given, and comes up in the end unless kept stopped |
| **Web client** `ui/js` | token, view, folder, message, panes, timers | sign in, list, open, search, poll | answers out of order, refused or lost; a 401 for an old token | what is shown is what was asked for; a page without a token shows the form |
| Search, send, raw | none | answer an empty list or 501 | - | - |
| Router, CORS, logging | none that changes | wiring; 30 s timeout | the timeout cuts a handler between two statements | - |
| Outbound queue (migration 006) | a table no code uses | - | - | - |
| Deployment, scripts | - | - | - | - |

Interaction: Postfix delivers into Dovecot's INBOX over LMTP. The watcher reads
INBOX and writes `message_view` and `events`. Handlers write the same two tables
and `folder_view`. The reconciler reads `message_view` and writes `folder_view`
and `events`. The processes share nothing but the tables, take no lock, and no
transaction spans two of the statements modelled. Nothing but the
implicit `\Seen` of a body fetch is ever written to Dovecot.

PROJECT.json lists the components with their status, and each hazard at the line
where it bites with the properties that would show it going wrong.

## 2. Modules

| Module | Models | Variables |
|---|---|---|
| `MailStore` | what the processes share, for one account: Dovecot's INBOX (external), each SQL statement on `message_view` and `events` | `inbox`, `seen`, `message_view`, `events`, `faults` |
| `Watcher` | the watcher goroutine, one action per IMAP command or SQL statement, plus `WSpec`, the watcher alone with Dovecot | `stage`, `todo`, `fetched`, `known`, `has_body` |
| `MessageApi` | PATCH and DELETE, one action per statement | `req` |
| `MailSync` | `Watcher` and `MessageApi` on one `MailStore`; invariants, convergence, the refinement of `MailLifecycle` | - |
| `MailLifecycle` | abstract: what the pipeline promises to readers of view and log | `inbox`, `rows`, `log`, `due` |
| `MessageList` | a client that pages through a folder (List) and opens rows (Get), beside `MailSync` | `date`, `asked`, `start`, `shown`, `gone`, `broken`, `listed` |
| `EventFeed` | a client that pages through the event log, beside `MailSync` with commits apart from ids | `in_flight`, `visible`, `after_id`, `pass`, `start`, `cut` |
| `FolderView` | the reconciler's goroutines and the folder handlers | `folder_view`, `sync`, `folder_req`, `folder_events`, `folder_faults` |
| `MailFolders` | `FolderView` beside `MailSync`: the counts are taken while the pipeline writes | - |
| `WatchSupervisor` | which accounts are watched, and the timers: refresh, IDLE, backoff | `active`, `was_active`, `run`, `ticker`, `watching`, `started`, `phase`, `timer`, `backoff`, `unseen`, `late`, `jammed`, `run_faults` |
| `Sessions` | logins, authenticated requests, accounts, last_seen updates, the clock | `accounts`, `sessions`, `clock`, `login`, `call`, `touches`, `auth_faults` |
| `Processes` | one of the three binaries from Load to its end, under Docker's restart | `service`, `environ`, `dotenv`, `cfg`, `phase`, `db`, `faults` |
| `WebClient` | one page of the web client against an API that answers in its own time | see the head of the module |
| `MailSyncProofs` | proofs about `MailSync`, which it shows to implement `MailLifecycle` | |
| `MailFoldersProofs` | proofs about `MailFolders`, which it shows to implement `MailSync` | |
| `MessageListProofs`, `EventFeedProofs` | proofs about the two clients, on those about `MailSync` | |
| `WatchSupervisorProofs`, `SessionsProofs`, `ProcessesProofs`, `WebClientProofs` | proofs about the module of that name | |
| `MCMailSync`, `MCWatcher`, `MCMailFolders`, `MCMessageList`, `MCEventFeed`, `MCWatchSupervisor`, `MCSessions`, `MCProcesses`, `MCWebClient` | constants for TLC | |

How state and actions correspond to the code:

- **A row's id** is its position in `message_view`: ids are random UUIDs that
  are only compared, and no statement deletes a row (`is_deleted` is a flag).
  An event's id is its position in `events`.
- **body** of a row is `"NULL"` (headers only: the body and snippet columns are
  NULL), `"empty"` (the body could not be fetched) or `"fetched"`.
- **stage** in `Watcher`, `req[r].stage`, `sync[s].stage`, `folder_req[r].stage`,
  `login[l].stage`, `call[c].stage` and `phase` say which statement comes next.
  What a process remembers from one statement to the next is kept in the other
  fields; what it does not remember is not.
- **A scan** is `FetchHeaders` (fetched flags), `QueryKnown`, then the loop on
  the least UID left: `UpsertKnown`, or `FetchBody` - `ExtractBody` -
  `InsertNew` - `EmitDelivered`. In `WatchSupervisor` it
  is one step: `Scan`, or, if the account has a message that extractBody never
  leaves (`jammed`), `ScanHangs`, after which only a restart dials anew. Such a
  message is got past only by `ScanWithoutBody`: its body fetch fails, and it is
  stored as empty.
- **A handler** is `Begin` - `Lookup` - `UpdateRead`/`UpdateStarred`/`DeleteRow`,
  each followed by its event. Errors the code drops do not stop it.
- **A page** of List is one statement, `List`; the order of rows with equal dates
  is any order, anew for each page. pgx closes the rows when Scan fails, so that
  the `continue` after it ends the loop (`Scanned`). `start`, `shown`, `gone`,
  `broken` and `listed` only record what the client has seen.
- **An INSERT into events** is, in `EventFeed`, two actions: it draws its id when
  the writer acts, and `Commit` (or `RollBack`) ends it, before which the writer
  takes no other step (`Writes`).
- **A page of the event log** is `Poll`, or `PollBreaks`: the connection is lost
  while rows are read, `Next` returns false, `rows.Err` is not looked at, and the
  rows so far are answered with 200. `Receive` is the client. `pass` and `start`
  record what it holds and what it could have held when it began at 0, `cut` that
  the last answer broke off before its first row.
- **Timers** in `WatchSupervisor` count down, and `Tick` happens only when nothing
  else can happen at once (`Quiet`); `late` counts how long mail has waited.
- **An `INSERT ... SELECT`** of the reconciler is two actions, because the rows
  are read when the statement starts and it may then wait for a row lock.
- **A login** is `BeginLogin` - `Lookup` - `Compare` - `InsertSession`; **a
  request** is `Arrive` (where VerifyToken reads the clock) - `VerifyToken` (its
  query) - the handler. The last_seen update is a `touch` that runs whenever it
  likes, or never. `Deactivate` and `Activate` switch is_active, which no code
  does, at any moment.
- **A process** goes through `Load` - `Connect` - `Start` to `"run"`, and by a
  signal through `"drain"` to `"stopped"`; what ends by itself is `"exited"`. `Restart` is
  Docker, which starts an exited container again but none that was stopped;
  `StartedAgain` is someone who does.
- **The page**: each action of `WebClient` is what the browser runs without a
  pause - a click, a timer, the code after an `await`. A request under way
  carries the answers it may get (`may`, `counts`), because the server looks at
  sessions and counts some time between call and answer. Every answer that
  makes `request` throw - 401, an error, the 204 without JSON - is one operator,
  `Throw`, as in the code. The reading pane is two variables, for `openMessage`
  replaces the `body` (spinner, text, error) long before, or without ever
  replacing, the `header` (subject, sender, date). `trouble` records what has gone wrong and guards
  nothing.
- **Faults** are separate actions guarded by `Fail(kind)` (`RunFail`, `NetFail`):
  a kind must be in the constant and a bounded number happen. The kinds are named
  after what fails: `connect`, `idle`, `headers`, `query`, `truncated` (rows end
  early), `upsert`, `body`, `insert`, `emit`, `crash` for the watcher; `lookup`,
  `update`, `emit`, `abort` for a handler; `page` for a List of messages or events;
  `rollback` for an event; `list`, `dial`, `scan`, `body`, `idle`, `crash` for the
  supervisor; `listen`,
  `terminate`, `kill`, `db` for a process; `net`, `auth` for the page. Where a
  statement can be applied and its answer lost, the action has both outcomes.

Operators marked `(Mutant.)` are no part of a specification: each is a plausible
wrong version of the definition after it, used to see that a property notices.

## 3. Runs

`tlc -config <run>.cfg <module>`. All end within three minutes with two workers.

| Run | Module | Question | Bounds |
|---|---|---|---|
| `mailsync_safety` | MCMailSync | do the pipeline's invariants hold in every interleaving, and does it implement `MailLifecycle`? | 2 messages, 2 requests (one of each effect), 1 fault of any kind but `truncated`; requests symmetric |
| `mailsync_converges` | MCMailSync | does INBOX end up in the cache with Dovecot's read state, and what is a row without body due to? | 3 messages: one that PostgreSQL refuses, one ordinary, one that extractBody never leaves; 2 requests (read, trash), 1 fault of any kind |
| `watcher_announces` | MCWatcher | is every message announced in the end? | 5 messages: one with a body PostgreSQL refuses, one with a To address it refuses, one that extractBody never leaves; 2 faults that a later scan can make up for, or crashes |
| `message_list` | MCMessageList | does paging pass over rows, and can what is listed be opened? | 2 messages with dates 0 (none), 1, 2, 1 request (read, unread, trash), pages of 1 row, 1 lost connection |
| `event_feed` | MCEventFeed | does a poller of the log end up with all of it? | 2 messages, 1 request with two events, pages of 2, 1 fault of any kind |
| `folders_counts` | MCMailFolders | do folders with mail stay listed, with their true counts? | 1 message, 1 move to Trash, 2 refreshes at a time, 1 folder request, 1 folder fault of any kind |
| `supervisor` | MCWatchSupervisor | who is watched, and how late is mail seen? | 2 accounts, IDLE 4, refresh 2, first backoff 2, ceiling 3, 2 faults of any kind, messages on which a scan hangs |
| `sessions_safety` | MCSessions | who is let in, and as whom? | 2 logins, 2 requests, 2 spellings of an address, 2 passwords, TTL 1, clock 0..2, 1 fault of any kind; all symmetric |
| `processes` | MCProcesses | with what does a service run, and does it come up? | each of the 3 services, every environment and .env over 3 variables, .env at every depth, 2 faults or stops by hand |
| `web_client` | MCWebClient | what do the panes show when nothing is under way, and in the end? | 2 folders, 2 messages, 2 requests at a time, 2 sign-ins (or one of an earlier page), 2 acts of the user or the world, 2 faults, 3 of both together |
| `claim_announced_crash`, `claim_deploy` | MCWatcher, MCProcesses | section 6 | |

What the properties say:

- `EventsBacked`: an event never names a message without a row, whichever
  statement fails or is cut off by a crash.
- `RepeatOnlyAfterTrash`, `AnnouncedAtMostTwice`: no scan, reconnection or crash
  announces a message twice; the only cause of a second announcement is a move
  to Trash, and there is never a third: the UNIQUE constraint
  refuses the second move, which the handler does not notice (messages.go:221), and
  were it to delete the row instead, the message would come back for ever.
  Truncated reads are excluded: with one,
  a known message is taken for new and announced again (rows.Err is not looked
  at, service.go:215).
- `ReadHasCause`: a stale scan result never marks a message read by itself.
- `ImplementsLifecycle`: with the scan, the requests and the flags hidden, the
  pipeline is `MailLifecycle`: the only row ever announced is the one inserted
  last, at most once and before the next row is inserted.
- `BodylessOnlyAfterTrash`: a row lacks its body only through the race of a move
  to Trash with a scan.
- `ViewConverges`: once clients stop and faults end, INBOX is in the cache,
  message by message, with Dovecot's read state - the messages that PostgreSQL
  refuses left out, and only if INBOX has none that extractBody never leaves: from
  such a one on no scan ends, and not even flags are copied any more. "DOVECOT
  WINS" (migrations/004:3) holds with these two exceptions.
- `EveryMessageAnnounced`: neither broken connections, short reads, bodies that
  cannot be fetched, messages that are refused at every scan nor a later message
  that ends the scans keep a message from being announced; a process that dies
  between row and event does (`CutShort`). `insert` and `emit` are excluded, for
  each can lose an announcement for good.
- `PagesMissNothing`: a row that matched when page 1 was asked for is shown by
  some page, or there is one of the reasons that `PassedOver` lists: it left, a
  row ahead of it left and shifted the OFFSET, a date is shared, a page was cut
  short. `ListedCanBeOpened`: no later statement makes a listed row one that Get
  cannot scan.
- `PassComplete`: a client that follows next_id from 0 until it is 0 again holds
  what was committed when it began - unless the last answer broke off before its
  first row, which looks like the end. Any other page that breaks off is made up
  for by the next. `HoldsWholeLog`: an id that commits late is passed over by a
  client that follows next_id; it is the next_id 0 of an empty page, which starts
  the log anew, that makes a client that never stops read everything committed
  after all. An announcement that was never written (a crash before the emit, an
  INSERT that fails or is rolled back) is not in the log, and no client gets it.
- `MailFoldersStay`: deleting a folder checks and removes in two statements; a
  folder with mail is still never unlisted, because rows only enter folders that
  the handler protects. `CountsConverge`: overlapping refreshes may write old
  counts last, but the next tick corrects them.
- `OneGoroutine`, `WatchedWasActive`: whatever refreshes, activations and
  restarts do, an account has one goroutine, and only if it was active in the
  life of the process - that it still is, is not promised.
- `SeenInTime`: mail of an active account is scanned within `Promptness` (the
  longer of IDLE and refresh), and each failure, whatever it is and wherever it
  strikes, adds at most `Setback`, one more wait. `MailGetsSeen`: in the end. Both leave out
  an account from the moment it has a message on which the scan never returns, and
  the IDLE of the bound is 25 minutes whatever the server pushes: that is the code's
  promptness, not what its comments say (section 6).
- `RefusedWhenOver`, `GrantedIfMatched`, `HandledAsAdmin`,
  `NotSeenAfterExpiry`: no request that arrives after its session was logged
  out or has expired is let through, and one that arrives while its account is
  deactivated only if the account is activated before the query of VerifyToken; a
  session is opened only for a
  password that was right at some moment since the login arrived, though the
  account may change during bcrypt; the is_admin that a request carries is still
  true when it is handled; a late last_seen never passes the session's end.
- `RunsConfigured`: a running service has, for each required variable, the value
  of the highest source that sets it, and intervals that a ticker takes.
  `ComesUp`: a well configured one is up for good once faults end, unless it is
  stopped by hand and nobody starts it.
- `ListIsTitled`, `ReaderIsActive`: when nothing is under way, the list is that
  of the title, and the reading pane shows header and body of the active message -
  but for the four `Troubles`: loads that overlapped, one that failed, INBOX loaded
  by a second sign-in under another title, two messages opened at once; and but for
  a message that could not be opened, whose error stands below the header of the
  last one that could. The page does nothing against these. `SignedOutInTheEnd`: a
  page without a token ends on the login form, although showApp's timer may hide it
  again - except when both requests of the initial load fail and nothing polls,
  which takes both faults of the run. `FoldersConverge`: polling
  corrects whatever the folder list shows.

Why the bounds suffice. Messages interact only through the order of the scan
loop, of a listing and of the log, for which two give every relation (in
`watcher_announces` one message of each kind, with ordinary ones between and
before them, and in `mailsync_converges` one of three kinds); a third request meets a row in the same three states (INBOX,
Trash, both) that two can bring about. One fault at every point of the run, and
two in the watcher, supervisor, process and page runs, cover each failure alone and a
failure during recovery. Pages of one row make every message a page boundary;
pages of two make one page hold a gap. The supervisor's times are scaled so that
each order of them occurs: a refresh within an IDLE, a backoff below and beyond
the ceiling; what holds of all times is proved (section 5). `late` stops at
`MaxLate`, where `SeenInTime` is already false. Two refreshes suffice for one to
overwrite the other. The clock of `Sessions` reaches one tick beyond the end of
the longest session that starts at 0. Two requests of a page suffice to overtake
each other; an act more would repeat them. The counters that are unbounded in the
code (the log, the rows) are bounded by these, except the watcher's scans, which
repeat without growing the state.

`CHECK_DEADLOCK FALSE` is set where the system really stops: in
`watcher_announces` and `mailsync_converges` after `extractBody` was given a
message it never leaves; in
`sessions_safety` when time and requests have run out; in `processes` and
`claim_deploy` when a service runs and nothing more fails; in `web_client` when
the user has done what the bounds let him do and nothing polls.

## 4. Fairness

Weak fairness only, and only for what the Go scheduler, a timer, a browser or a
returning call ensures:

- `WatcherStep` (the goroutine goes on, IMAP and SQL calls return, IDLE and
  backoff timers fire), each handler once it has begun (`ApiStep(r)`), and each
  reconciler goroutine together with its ticker (`SyncStep(s)`);
- `SuperStep`: goroutines are scheduled and time passes;
- in `EventFeed` the client alone, which asks again: that is what the property is
  about, and it holds of whatever the writers have committed;
- in `Processes` main itself, Docker (`restart: always`) for a container that has
  exited, and PostgreSQL, which has the same restart policy. Nobody need start a
  container again that was stopped by hand;
- in `WebClient` the interval timer, and the page together with the server: some
  answer comes, as the router ends every handler after 30 seconds, but any one
  request may be overtaken for ever.

Faults, deliveries, activations and what users do are never fair. Faults end
because they are bounded, which is what "eventually" means in these properties:
after the last fault. `Sessions` and `MessageList` make no liveness claim.

## 5. Proofs

`tlapm` on the eight modules `*Proofs.tla` checks everything with SMT, Zenon and
LS4. Every invariant that a run checks is proved, for any values of the constants
that satisfy the ASSUMEs: any number of messages, requests, accounts, sessions,
clients' requests under way, faults, and any times. The assumptions, and why the code
justifies them:

| Module | Assumed |
|---|---|
| `MailStore`, `MessageApi` | UIDs are positive (RFC 3501); `Calls` is a subset of `AllCalls`; a bound on faults is a natural number |
| `FolderView` | the folders listed at the start are system folders |
| `MessageList`, `EventFeed` | a page has at least one place (`limit` is set to a default otherwise); dates are ordered like numbers |
| `WatchSupervisor` | times are positive, and a first backoff is below twice the ceiling |
| `Sessions` | lower-casing twice is lower-casing once; times are natural numbers |
| `Processes` | DATABASE_URL is among the required variables (config.go) |
| `WebClient` | INBOX is a folder; no folder or message has the name of a state of the page (in the code a missing one is null, not a name); places for requests are numbered; at least one sign-in |

| Theorem | Says | Needs |
|---|---|---|
| `TypeCorrect` | `Spec => []TypeOK` | - |
| `EventsBackedCorrect` | the invariant | `BackedInv` |
| `RepeatOnlyAfterTrashCorrect`, `AnnouncedAtMostTwiceCorrect` | the two invariants, if `"truncated" \notin Faults` | `AnnounceInv` |
| `ImplementsLifecycleCorrect` | `Spec => ImplementsLifecycle`, if `"truncated" \notin Faults` | `AnnounceInv`, `EmitIsLast` |
| `BodylessOnlyAfterTrashCorrect`, `ReadHasCauseCorrect` | the two invariants | `ContentInv` |
| `MailFoldersStayCorrect` | the action property | `FolderInv`, `TypeCorrect` |
| `FolderTypeCorrect` | `FoldersSpec => []FolderTypeOK` | `FolderInv`, `SyncTypeOK` |
| `ListTypeCorrect`, `ListedCanBeOpenedCorrect`, `PagesMissNothingCorrect` | the three invariants of `MessageList` | `PageInv`, `TypeOK` |
| `FeedTypeCorrect`, `PassCompleteCorrect` | the invariant and the action property of `EventFeed` | `PassSoFar`, `TypeOK` |
| `SupervisorTypeCorrect`, `OneGoroutineCorrect`, `WatchedWasActiveCorrect` | the three invariants of `WatchSupervisor` | `WatchInv` |
| `SeenInTimeCorrect` | mail of an active account is seen within `Promptness + run_faults * Setback`, unless a scan of it never returns | `DelayInv` |
| `SessionTypeCorrect`, `RefusedWhenOverCorrect`, `GrantedIfMatchedCorrect`, `HandledAsAdminCorrect`, `NotSeenAfterExpiryCorrect` | the five invariants of `Sessions` | `SessionInv` |
| `ProcTypeCorrect`, `RunsConfiguredCorrect` | the two invariants of `Processes` | `ProcInv` |
| `WebTypeCorrect`, `ReaderIsActiveCorrect`, `ListIsTitledCorrect` | the three invariants of `WebClient` | `WebInv` |

The arguments:

- Each SQL statement is one of three changes of `message_view` (`ViewStep`):
  none, a row appended, a row replaced. The lemmas `...View` show this once per
  statement, with what it does to keys; the invariants are then proved from
  `ViewStep`, not from the statements.
- `EventsBacked` is not inductive: an event is emitted from what a process
  remembers. `BackedInv` adds that a handler's looked-up UID is that of its row
  (`LookupsBacked`) and that the message the watcher is about to announce has a
  row (`EmitsBacked`). Rows are never deleted and never change their UID, so both
  are stable under the steps of others.
- `RepeatOnlyAfterTrash` needs `ScanIsFresh`: only the watcher puts rows into
  INBOX, so a message that the scan has yet to handle and does not know still has
  no INBOX row, however old `known` is; and `EmitIsDue`, which carries the same
  fact across the insert to the pending event. A truncated read breaks
  `ScanIsFresh`, hence the assumption.
- `ImplementsLifecycle`: each statement leaves the keys of the rows alone, appends
  one that INBOX did not have, or moves one to Trash (`KeysStay`, `KeyStored`,
  `KeyMoved`); those are stutters, `Store` and `MoveToTrash`. An announcement maps
  to `Announce` because the row it names is still the last (`EmitIsLast`): only the
  watcher appends rows, and it does not between the insert and the event.
  `ScanIsFresh` shows that the insert before an announcement appends a row at all;
  after a truncated read it may not, and the theorem excludes that.
- `MailFoldersStay` needs that a request past the protected check carries an
  unprotected name (`RemovesUnprotected`), and that a row's folder is INBOX or
  Trash (`TypeOK`), both of them protected.
- `OneGoroutine` needs that a goroutine's phase and the map agree
  (`GoroutinesMatch`), `WatchedWasActive` that a running process has seen every
  account that is active (the same).
- `SeenInTime` is not inductive, for time passes: `DelayBounded` adds what has
  still to be waited (`Remaining`). A tick moves one from the rest to the past; a
  step without fault never lengthens the rest of mail that waits; a fault may, by
  at most `Setback`, which is also what it adds to the bound. `WaitsBounded` says
  that a wait is that of an IDLE or a refresh unless something has failed, and that
  only a goroutine with such a message is stuck in its scan.
- `ReadHasCause` and `BodylessOnlyAfterTrash` are about what a scan remembers:
  flags it fetched were set by Dovecot, which takes none back (`TypeOK`), and a
  message it knows has a row somewhere (`KnownTracked`). The upsert of a known
  message that finds no row in INBOX therefore finds one in Trash. Neither needs
  reads to be whole: a truncated read only makes `known` smaller.
- `PagesMissNothing` is not about pages but about places. A row that matched at the
  start and has not been shown has, unless it is passed over for a cause, enough
  matching rows ahead of it to fill the pages so far (`StillToCome`): rows ahead
  only leave by moving, which is a cause, and new ones only push it back. LIMIT and
  OFFSET cut a page out of an order of the rows; in any such order the place of a
  row whose date is no one else's is one more than the number of rows ahead of it,
  which is shown with a bijection and the cardinality theorems. A row behind the
  page is thus still ahead in the paging, and an empty page has nothing behind it.
- `ListedCanBeOpened` holds because only the insert of a row writes its body and
  its date.
- `PassComplete`: the events of the start up to `after_id` have been received
  (`PassSoFar`), for a page is the least visible ids above `after_id`, and one that
  breaks off the least of these; a page is empty only when no visible id is left
  above it, or when it broke off before its first row.
- `Sessions`: between two statements of a login or a request the tables change, so
  each invariant is about what was read. `MatchesSeen` carries the hash that was
  read to the comparison and the insert, `CallsBacked` the time a request arrived
  at to the query that may refuse it, with the clock only growing and no session
  coming back but by `Activate`, which is proved to be the only step that switches an
  account on again (`NoneActivated`) and to be noted by the requests under way
  (`ActivateCalls`), and `TouchesTimely` the time of a last_seen update to its
  execution. Accounts are never deleted and never lose is_admin.
- `RunsConfigured`: `LoadedWhole` holds from Load to the end of the process; Load
  lets nothing pass that is empty, and what is not empty is the value of the
  highest source that sets it. That the file is looked for in just the directories
  that `Effective` names is a lemma about `FindDotEnv`.
- `WebClient`: answers come in any order, so the invariants are about the requests
  under way. What the server knows of a request changes behind the page's back,
  what it asks does not (`SameAsk`, `Kept`). `OneSignIn` is kept by the button that
  is off meanwhile. Unless `trouble` says otherwise, a request for the list asks
  for the one of the title, and is the only one (`LoadIsTitled`); a request for a
  message asks for the active one (`OpenIsActive`). A text is shown below its own
  header, as an answer replaces both (`PaneIsWhole`).

Only model-checked: the liveness properties `ViewConverges`,
`EveryMessageAnnounced`, `CountsConverge`, `MailGetsSeen`, `HoldsWholeLog`,
`ComesUp`, `SignedOutInTheEnd` and `FoldersConverge`; liveness under fairness is
beyond the provers used.

## 6. What the code does not do

Two lines of the repository are stated as properties, and a run finds the
behaviour that contradicts each.

| Run | The line | What happens |
|---|---|---|
| `claim_announced_crash` | "emits MessageDelivered events for genuinely new messages" (service.go:189) | a crash between the insert and its event: the message is known ever after, and never announced |
| `claim_deploy` | "Build and start" (README.md:66) | docker-compose.yml gives API_SECRET to the api container alone, and Load exits without it in all three binaries (config.go:87): watcher and reconciler are restarted for ever |

Noticed while modelling, without a run; the models behave as described.

Watcher and cache:

- the body fetch has no PEEK and sets \Seen; the next scan marks every new
  message read, although scanning is called idempotent (service.go:190);
- a message moved to Trash is inserted again by the next scan, and announced
  again, for Dovecot still has it in INBOX; moving that second row to Trash
  violates the UNIQUE constraint, the error is dropped, the event logged and the
  answer 204 (messages.go:221);
- a row moved to Trash after the known-UIDs query makes the upsert insert one
  with headers only, for good (service.go:272); such a row, and one without a
  Date, ends a page of List early (messages.go:84) and is a 500 for Get;
- a permanently failing NextPart keeps extractBody in its loop (service.go:379), and
  with it the goroutine of the account, which no timeout ends: later mail of the
  account is never seen;
  a snippet cut within a character is refused at every scan (service.go:300), and
  so is an address with a quote or a backslash, which toJSONB does not escape
  (service.go:352);
- Idle neither returns for a push nor when the server ends it (client.go:184,
  :202): new mail is seen up to 25 minutes late;
- a folder whose last live row is gone is in no group of the reconciler's query,
  and keeps its last counts (reconciler/service.go:146);
- messages deleted for good are still listed (messages.go:66).

API and accounts:

- ids of events are drawn before commit (migrations/003:7): following next_id
  passes over an event that commits late;
- a query of the event log that breaks off answers 200 with the rows so far, and
  with next_id 0 if there are none (events.go:50);
- an error of the lookup other than "no rows" does not end a PATCH, and its event is
  logged without UID and folder (messages.go:163);
- PATCH ignores `folder` and `labels`; `offset`, which the page sends, is ignored
  by List; the search handler never returns rows;
- creating a folder that exists, or deleting one that does not, is logged as an
  event all the same (folders.go:71);
- Logout does not trim the token that RequireAuth trimmed (handlers/auth.go:54);
  accounts are stored with the case they were typed in while logins are
  lower-cased (handlers/admin.go:117); the admin list scans a timestamp into a
  string; SESSION_TTL_DAYS of 0 or less is accepted;
- a duration of 0 parses, and time.NewTicker panics on it (config.go:210);
- accounts that CreateAccount makes get no system folders, although
  migrations/005:18 says seeding is "done by application"; `Listed` lets the
  model start with or without them. Spam is seeded as a system folder and not
  protected by Delete.

Web client:

- an error of the database in VerifyToken is answered 401, upon which the page
  drops its token; a 401 for an old token drops a new one too (api.js:38);
- each sign-in adds an interval timer that is never cleared (app.js:99);
- after a second sign-in INBOX is loaded under the title of before (app.js:97);
- a message that cannot be opened is reported below the header of the one before
  (app.js:287).

## 7. Abstractions

- One account: every query filters on the account id. Accounts meet only in
  `Sessions` and `WatchSupervisor`, which have several.
- Headers, labels, threads and attachments are left out; `body` says what a row
  has of its body. `Unparsable`, `Unstorable` and `Unquotable` name the messages
  on which parsing never ends, whose text is no UTF-8, and whose addresses are no
  JSON once put together.
- Times are left out but for `Sessions`, which has a coarse clock,
  `WatchSupervisor`, which counts, and the dates of `MessageList`. Elsewhere IDLE
  may end and a timer may fire at any moment. In `WatchSupervisor` dialling and
  scanning take no time, unless the scan hangs.
- A call on a connection whose other end is silently gone returns in the end, with
  an error; the code sets no deadline of its own.
- FETCH answers with the mailbox of one moment, its own.
- Folder events are a set: nothing reads them, and their order with respect to
  the pipeline's events is of no concern to any property.
- A token is the login that drew it: 32 random bytes do not repeat. A password
  hash is the password it matches.
- `accounts.is_active` is read by the code and written by none of it;
  `Deactivate` and `Activate` stand for whoever does (in `WatchSupervisor`
  `Activate` is also the INSERT of a new account).
- Values of variables in `Processes` are of five kinds: unset, empty, of use, not
  to be parsed, not positive. Two of the four required variables stand for all,
  one of the two tickers for both.
- In `WebClient` the server's unread counts are one Boolean; what the debounce
  of the search box delays is merged with it into `Search`; a page has a bounded
  number of requests under way, and waits with the next while it has them.
- PATCH ignores `folder` and `labels` of its body, and so does the model.

## 8. Not modelled

- The admin panel of the web client and the domains table behind it: three
  handlers write the table and nothing else reads it.
- Thread only reads one message; search, send and raw answer an empty list or
  501, and have no state.
- CORS and logging; layout, styles, scripts. Of add-account.sh, the seeding of
  folders is `FolderInit`; of docker-compose.yml, the environment and the
  restart policy are in `Processes`, the rest is configuration.
- Migration 006 has no code.
- AddFlags, RemoveFlags, MoveMessage and Expunge of the IMAP client, which
  nothing calls.

## 9. Plan

Written in this order: `MailStore`, `Watcher`, `MessageApi`, `MailSync` and their
runs; the proofs of `MailSync`; `FolderView`, `MailFolders` and their proofs;
`Sessions`; `MailLifecycle`, `WatchSupervisor`, `EventFeed`, `MessageList`,
`Processes`, `WebClient`; the proofs of those. All invariants and action properties
that a run checks are proved.

What is left:

1. Abstract specifications of `Sessions` (who is served) and of `EventFeed` (a log
   in the order of commits), with refinements to prove.
2. The safety half of convergence: what a scan that meets no fault leaves behind,
   as an action property of `MailSync`.
