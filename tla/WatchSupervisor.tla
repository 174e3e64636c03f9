--------------------------- MODULE WatchSupervisor ---------------------------
(***************************************************************************)
(* Which accounts the watcher process watches, and how late it sees mail:  *)
(* Service.Run, listAccounts, watchAccount and idleLoop of                 *)
(* internal/watcher/service.go and Client.Idle of internal/imap/client.go. *)
(* What a goroutine does in a scan is in Watcher; here a scan is one step. *)
(*                                                                         *)
(* Timers count down.  Time passes, in Tick, only when nothing else can    *)
(* happen at once.                                                         *)
(*                                                                         *)
(*   active       accounts whose is_active is true                         *)
(*   was_active   those that were active at some time of this process      *)
(*   run, ticker  where the process is, and the time to its next refresh   *)
(*   watching     the keys of the map of that name                         *)
(*   started      how many goroutines this process started per account     *)
(*   phase, timer, backoff   where the goroutine of an account is, how     *)
(*                long it still waits there, and its next backoff          *)
(*   unseen       accounts with mail that no scan has fetched              *)
(*   late         how long that mail has waited while its account was      *)
(*                active and not jammed                                    *)
(*   jammed       accounts with a message, not yet in the view, on which   *)
(*                extractBody never returns (Unparsable in Watcher)        *)
(***************************************************************************)
EXTENDS Naturals

CONSTANTS
    Accounts,
    IdleTime,      \* 25 minutes
    RefreshEvery,  \* 5 minutes
    FirstBackoff,  \* 5 seconds
    Ceiling,       \* 5 minutes: a backoff below it is doubled
    RunFaults,     \* kinds of fault that may happen, see RunFail
    MaxRunFaults   \* bound on the number of faults in a behaviour

ASSUME TimesAssumption ==
    /\ IdleTime \in Nat \ {0}
    /\ RefreshEvery \in Nat \ {0}
    /\ FirstBackoff \in Nat \ {0}
    /\ Ceiling \in Nat
    /\ FirstBackoff < 2 * Ceiling
    /\ MaxRunFaults \in Nat

VARIABLES active, was_active, run, ticker, watching, started, phase, timer,
          backoff, unseen, late, jammed, run_faults

accountVars == <<active, was_active>>
processVars == <<run, ticker, watching, started>>
goroutineVars == <<phase, timer, backoff>>
mailVars == <<unseen, late, jammed>>

superVars == <<accountVars, processVars, goroutineVars, mailVars, run_faults>>

------------------------------------------------------------------------------

Waiting(a) == phase[a] \in {"idle", "wait"}

Larger(m, n) == IF m < n THEN n ELSE m

\* The longest that mail waits when nothing fails, and what one fault may add.  An
\* IDLE lasts its whole 25 minutes, whatever the server pushes (see IdleReturns).
Promptness == Larger(IdleTime, RefreshEvery)
Setback == Larger(Promptness, 2 * Ceiling)

\* Bound on late: the count stops where SeenInTime is false for certain.
MaxLate == Promptness + MaxRunFaults * Setback + 1

\* Shape of every variable, and the bounds of the waits: a backoff may pass the
\* ceiling, but stays below twice the ceiling (320 seconds against 5 minutes).
SupervisorTypeOK ==
    /\ active \subseteq Accounts
    /\ was_active \subseteq Accounts
    /\ run \in {"down", "refresh", "select"}
    /\ ticker \in 0 .. RefreshEvery
    /\ watching \subseteq Accounts
    /\ started \in [Accounts -> Nat]
    /\ phase \in [Accounts -> {"none", "dial", "scan", "stuck", "idle", "wait"}]
    /\ timer \in [Accounts -> 0 .. Larger(IdleTime, 2 * Ceiling)]
    /\ backoff \in [Accounts -> 0 .. 2 * Ceiling - 1]
    /\ unseen \subseteq Accounts
    /\ late \in [Accounts -> 0 .. MaxLate]
    /\ jammed \subseteq Accounts
    /\ run_faults \in 0 .. MaxRunFaults

SuperInit ==
    /\ active \in SUBSET Accounts
    /\ was_active = {}
    /\ run = "down"
    /\ ticker = 0
    /\ watching = {}
    /\ started = [a \in Accounts |-> 0]
    /\ phase = [a \in Accounts |-> "none"]
    /\ timer = [a \in Accounts |-> 0]
    /\ backoff = [a \in Accounts |-> 0]
    /\ unseen = {}
    /\ late = [a \in Accounts |-> 0]
    /\ jammed = {}
    /\ run_faults = 0

RunFail(kind) ==
    /\ kind \in RunFaults
    /\ run_faults < MaxRunFaults
    /\ run_faults' = run_faults + 1

------------------------------------------------------------------------------
(* The accounts, which the API and -setup-admin insert and a person may    *)
(* switch off and on, and Postfix, which delivers.                         *)

\* An INSERT into accounts, whose is_active is true by default, or is_active set
\* again by hand.
Activate(a) ==
    /\ a \notin active
    /\ active' = active \cup {a}
    /\ was_active' = was_active \cup {a}
    /\ late' = [late EXCEPT ![a] = 0]
    /\ UNCHANGED <<processVars, goroutineVars, unseen, jammed, run_faults>>

Deactivate(a) ==
    /\ a \in active
    /\ active' = active \ {a}
    /\ late' = [late EXCEPT ![a] = 0]
    /\ UNCHANGED <<was_active, processVars, goroutineVars, unseen, jammed, run_faults>>

Arrive(a) ==
    /\ a \notin unseen
    /\ unseen' = unseen \cup {a}
    /\ late' = [late EXCEPT ![a] = 0]
    /\ UNCHANGED <<accountVars, processVars, goroutineVars, jammed, run_faults>>

\* A message arrives whose structure NextPart never gets to the end of.
ArriveUnparsable(a) ==
    /\ a \notin jammed
    /\ jammed' = jammed \cup {a}
    /\ unseen' = unseen \cup {a}
    /\ late' = [late EXCEPT ![a] = 0]
    /\ UNCHANGED <<accountVars, processVars, goroutineVars, run_faults>>

------------------------------------------------------------------------------
(* The process and Service.Run.                                            *)

\* main loads the configuration, pings the database and runs the service, which
\* refreshes at once and starts its ticker.
Start ==
    /\ run = "down"
    /\ run' = "refresh"
    /\ ticker' = RefreshEvery
    /\ was_active' = active
    /\ UNCHANGED <<active, watching, started, goroutineVars, mailVars, run_faults>>

\* (Mutant.) Whether an account is watched is not looked up.
StartWatchingAgain(accounts) ==
    /\ watching' = watching \cup accounts
    /\ started' = [a \in Accounts |->
                     IF a \in accounts THEN started[a] + 1 ELSE started[a]]
    /\ phase' = [a \in Accounts |-> IF a \in accounts THEN "dial" ELSE phase[a]]
    /\ backoff' = [a \in Accounts |->
                     IF a \in accounts THEN FirstBackoff ELSE backoff[a]]
    /\ UNCHANGED timer

\* A goroutine is started for every listed account without one.
StartWatching(accounts) ==
    LET new == accounts \ watching
    IN  /\ watching' = watching \cup accounts
        /\ started' = [a \in Accounts |->
                         IF a \in new THEN started[a] + 1 ELSE started[a]]
        /\ phase' = [a \in Accounts |-> IF a \in new THEN "dial" ELSE phase[a]]
        /\ backoff' = [a \in Accounts |->
                         IF a \in new THEN FirstBackoff ELSE backoff[a]]
        /\ UNCHANGED timer

\* (Mutant.) listAccounts does not filter on is_active.
RefreshAll ==
    /\ run = "refresh"
    /\ StartWatching(Accounts)
    /\ run' = "select"
    /\ UNCHANGED <<accountVars, ticker, mailVars, run_faults>>

Refresh ==
    /\ run = "refresh"
    /\ StartWatching(active)
    /\ run' = "select"
    /\ UNCHANGED <<accountVars, ticker, mailVars, run_faults>>

\* The query fails, a row cannot be scanned, or the connection breaks between
\* two rows, which is not looked at: some accounts are left for the next tick.
RefreshShort ==
    /\ run = "refresh"
    /\ RunFail("list")
    /\ \E accounts \in SUBSET active : StartWatching(accounts)
    /\ run' = "select"
    /\ UNCHANGED <<accountVars, ticker, mailVars>>

TickerFires ==
    /\ run = "select"
    /\ ticker = 0
    /\ ticker' = RefreshEvery
    /\ run' = "refresh"
    /\ UNCHANGED <<accountVars, watching, started, goroutineVars, mailVars, run_faults>>

\* The process dies or is stopped; all its goroutines go with it, and the
\* container is started again at once.
Die ==
    /\ run # "down"
    /\ RunFail("crash")
    /\ run' = "down"
    /\ ticker' = 0
    /\ watching' = {}
    /\ started' = [a \in Accounts |-> 0]
    /\ phase' = [a \in Accounts |-> "none"]
    /\ timer' = [a \in Accounts |-> 0]
    /\ backoff' = [a \in Accounts |-> 0]
    /\ was_active' = {}
    /\ UNCHANGED <<active, mailVars>>

------------------------------------------------------------------------------
(* watchAccount and idleLoop.                                              *)

GoTo(a, p, time) ==
    /\ phase' = [phase EXCEPT ![a] = p]
    /\ timer' = [timer EXCEPT ![a] = time]

\* Dial, log in, select INBOX.
Dial(a) ==
    /\ phase[a] = "dial"
    /\ GoTo(a, "scan", 0)
    /\ UNCHANGED <<accountVars, processVars, backoff, mailVars, run_faults>>

\* (Mutant.) A failed connection ends the goroutine.
DialFailsForGood(a) ==
    /\ phase[a] = "dial"
    /\ RunFail("dial")
    /\ GoTo(a, "none", 0)
    /\ UNCHANGED <<accountVars, processVars, backoff, mailVars>>

DialFails(a) ==
    /\ phase[a] = "dial"
    /\ RunFail("dial")
    /\ GoTo(a, "wait", backoff[a])
    /\ UNCHANGED <<accountVars, processVars, backoff, mailVars>>

Scan(a) ==
    /\ phase[a] = "scan"
    /\ a \notin jammed
    /\ unseen' = unseen \ {a}
    /\ late' = [late EXCEPT ![a] = 0]
    /\ GoTo(a, "idle", IdleTime)
    /\ UNCHANGED <<accountVars, processVars, backoff, jammed, run_faults>>

\* extractBody goes on calling NextPart, and the scan never returns.
ScanHangs(a) ==
    /\ phase[a] = "scan"
    /\ a \in jammed
    /\ GoTo(a, "stuck", 0)
    /\ UNCHANGED <<accountVars, processVars, backoff, mailVars, run_faults>>

\* The body of that message cannot be fetched: it is stored as empty, and known to
\* every later scan.
ScanWithoutBody(a) ==
    /\ phase[a] = "scan"
    /\ a \in jammed
    /\ RunFail("body")
    /\ jammed' = jammed \ {a}
    /\ unseen' = unseen \ {a}
    /\ late' = [late EXCEPT ![a] = 0]
    /\ GoTo(a, "idle", IdleTime)
    /\ UNCHANGED <<accountVars, processVars, backoff>>

\* The error is logged, and IDLE entered all the same.
ScanFails(a) ==
    /\ phase[a] = "scan"
    /\ RunFail("scan")
    /\ GoTo(a, "idle", IdleTime)
    /\ UNCHANGED <<accountVars, processVars, backoff, mailVars>>

\* (Mutant.) Idle is entered again without a scan.
IdleAgain(a) ==
    /\ phase[a] = "idle"
    /\ timer[a] = 0
    /\ GoTo(a, "idle", IdleTime)
    /\ UNCHANGED <<accountVars, processVars, backoff, mailVars, run_faults>>

\* Idle returns when its timer fires.  A push by the server does not complete
\* the IDLE command, and of a server that ends the command early Idle learns
\* nothing before it has received from "done", which the timer sends to.
IdleReturns(a) ==
    /\ phase[a] = "idle"
    /\ timer[a] = 0
    /\ GoTo(a, "scan", 0)
    /\ UNCHANGED <<accountVars, processVars, backoff, mailVars, run_faults>>

\* The connection breaks.
IdleFails(a) ==
    /\ phase[a] = "idle"
    /\ RunFail("idle")
    /\ GoTo(a, "wait", backoff[a])
    /\ UNCHANGED <<accountVars, processVars, backoff, mailVars>>

\* (Mutant.) The backoff is doubled without an end.
BackoffElapsedUncapped(a) ==
    /\ phase[a] = "wait"
    /\ timer[a] = 0
    /\ backoff' = [backoff EXCEPT ![a] = 2 * @]
    /\ GoTo(a, "dial", 0)
    /\ UNCHANGED <<accountVars, processVars, mailVars, run_faults>>

\* Nothing but the end of the process sets the backoff back: idleLoop returns
\* nil only when the context is done.
BackoffElapsed(a) ==
    /\ phase[a] = "wait"
    /\ timer[a] = 0
    /\ backoff' = [backoff EXCEPT ![a] = IF @ < Ceiling THEN 2 * @ ELSE @]
    /\ GoTo(a, "dial", 0)
    /\ UNCHANGED <<accountVars, processVars, mailVars, run_faults>>

------------------------------------------------------------------------------

\* Nothing can happen at once.
Quiet ==
    /\ run = "select"
    /\ ticker > 0
    /\ \A a \in Accounts :
          phase[a] \in {"none", "stuck"} \/ (Waiting(a) /\ timer[a] > 0)

Tick ==
    /\ Quiet
    /\ ticker' = ticker - 1
    /\ timer' = [a \in Accounts |-> IF Waiting(a) THEN timer[a] - 1 ELSE timer[a]]
    /\ late' = [a \in Accounts |->
                  IF a \in (unseen \cap active) \ jammed /\ late[a] < MaxLate
                  THEN late[a] + 1 ELSE late[a]]
    /\ UNCHANGED <<accountVars, run, watching, started, phase, backoff, unseen,
                   jammed, run_faults>>

GoroutineStep(a) ==
    Dial(a) \/ Scan(a) \/ ScanHangs(a) \/ IdleReturns(a) \/ BackoffElapsed(a)

GoroutineFault(a) == DialFails(a) \/ ScanFails(a) \/ ScanWithoutBody(a) \/ IdleFails(a)

SuperStep ==
    \/ Start \/ Refresh \/ TickerFires \/ Tick
    \/ \E a \in Accounts : GoroutineStep(a)

SuperNext ==
    \/ SuperStep \/ RefreshShort \/ Die
    \/ \E a \in Accounts : \/ GoroutineFault(a)
                           \/ Activate(a) \/ Deactivate(a)
                           \/ Arrive(a) \/ ArriveUnparsable(a)

\* Goroutines are scheduled, and time passes.
SuperSpec == SuperInit /\ [][SuperNext]_superVars /\ WF_superVars(SuperStep)

------------------------------------------------------------------------------

\* No account has two goroutines, whatever refreshes, changes of is_active and
\* restarts do: two of them would announce each message twice (Service.Run).
OneGoroutine ==
    \A a \in Accounts : started[a] <= 1 /\ (started[a] = 1 <=> a \in watching)

\* An account is watched only if it was active at some time since the process
\* started.  That it still is active is not required: no goroutine ends when its
\* account is deactivated (Service.Run, listAccounts).
WatchedWasActive == watching \subseteq was_active

\* Mail of an active account is scanned within the time of one IDLE or one
\* refresh, and each failure, of whatever kind and whenever it happens, adds at
\* most one more wait: the backoffs are bounded, the failed step is retried, no
\* account is forgotten (Run, watchAccount, idleLoop, Idle).  Nothing is promised
\* for an account with a message that the scan never gets through, and the time of
\* one IDLE is 25 minutes even if the server announces the mail at once.
SeenInTime ==
    \A a \in (unseen \cap active) \ jammed :
        late[a] <= Promptness + run_faults * Setback

\* And it is scanned in the end, unless such a message arrives.
MailGetsSeen ==
    \A a \in Accounts :
        (a \in unseen \cap active) ~> (a \notin unseen \cap active \/ a \in jammed)

------------------------------------------------------------------------------
(* What makes these invariants inductive.                                   *)

\* A goroutine runs for each watched account and no other; a process that is
\* down has none; a running one has listed only accounts of its time.
GoroutinesMatch ==
    /\ \A a \in Accounts : phase[a] = "none" <=> a \notin watching
    /\ run = "down" => watching = {}
    /\ run # "down" => active \subseteq was_active

\* The time until account a is scanned next, if nothing fails.
Remaining(a) ==
    IF a \in watching THEN (IF Waiting(a) THEN timer[a] ELSE 0)
    ELSE IF run = "select" THEN ticker ELSE 0

\* A wait is that of an IDLE or a refresh, unless something has failed, and a scan
\* without end has its message.
WaitsBounded ==
    \A a \in Accounts :
        /\ phase[a] = "idle" => timer[a] <= IdleTime
        /\ phase[a] = "wait" => run_faults > 0
        /\ phase[a] = "stuck" => a \in jammed

\* What mail has waited and has still to wait is within the bound together.
DelayBounded ==
    \A a \in (unseen \cap active) \ jammed :
        late[a] + Remaining(a) <= Promptness + run_faults * Setback

\* Inductive together with SupervisorTypeOK, the second also with the first.
WatchInv == OneGoroutine /\ WatchedWasActive /\ GoroutinesMatch
DelayInv == WaitsBounded /\ DelayBounded

==============================================================================
