------------------------ MODULE WatchSupervisorProofs -------------------------
(***************************************************************************)
(* Proofs about WatchSupervisor: its type invariant, one goroutine per     *)
(* account, only accounts that were active, and the bound on how late mail *)
(* is seen - for any accounts, times and number of faults.                 *)
(***************************************************************************)
EXTENDS WatchSupervisor, TLAPS

------------------------------------------------------------------------------
(* Arithmetic of the bounds.                                                *)

\* The two bounds are natural numbers, and each wait is within them.
LEMMA BoundFacts ==
    /\ Promptness \in Nat /\ Setback \in Nat
    /\ IdleTime <= Promptness /\ RefreshEvery <= Promptness
    /\ Promptness <= Setback /\ 2 * Ceiling <= Setback
    /\ Larger(IdleTime, 2 * Ceiling) \in Nat
    /\ IdleTime <= Larger(IdleTime, 2 * Ceiling)
    /\ 2 * Ceiling <= Larger(IdleTime, 2 * Ceiling)
    /\ Larger(IdleTime, 2 * Ceiling) <= Setback
  BY TimesAssumption DEF Promptness, Setback, Larger

\* What mail may have waited after f faults.
Bound(f) == Promptness + f * Setback

\* The product of natural numbers, apart from everything else.
LEMMA ProductFacts ==
    ASSUME NEW f \in Nat, NEW s \in Nat
    PROVE  /\ f * s \in Nat
           /\ (f + 1) * s = f * s + s
           /\ f > 0 => s <= f * s
  <1>1. f * s \in Nat
    OBVIOUS
  <1>2. (f + 1) * s = f * s + s
    OBVIOUS
  <1>3. ASSUME f > 0 PROVE s <= f * s
    <2>1. PICK g \in Nat : f = g + 1
      BY <1>3
    <2>2. g * s \in Nat
      OBVIOUS
    <2>3. f * s = g * s + s
      BY <2>1
    <2> QED BY <2>2, <2>3
  <1> QED BY <1>1, <1>2, <1>3

\* Each fault raises the bound by Setback.
LEMMA BoundGrows ==
    ASSUME NEW f \in Nat
    PROVE  /\ Bound(f) \in Nat
           /\ Promptness <= Bound(f)
           /\ Bound(f + 1) = Bound(f) + Setback
           /\ f > 0 => Setback <= Bound(f)
  <1>1. /\ f * Setback \in Nat
        /\ (f + 1) * Setback = f * Setback + Setback
        /\ f > 0 => Setback <= f * Setback
    BY BoundFacts, ProductFacts
  <1> QED BY <1>1, BoundFacts DEF Bound

LEMMA MaxLateNat == MaxLate \in Nat
  <1>1. MaxRunFaults * Setback \in Nat
    BY BoundFacts, ProductFacts, TimesAssumption
  <1> QED BY <1>1, BoundFacts DEF MaxLate

------------------------------------------------------------------------------
(* Types.                                                                   *)

LEMMA TypeInit == SuperInit => SupervisorTypeOK
  BY MaxLateNat, BoundFacts, TimesAssumption DEF SuperInit, SupervisorTypeOK

\* Starting goroutines keeps the types of what it changes.
LEMMA StartWatchingType ==
    ASSUME SupervisorTypeOK, NEW accounts \in SUBSET Accounts, StartWatching(accounts)
    PROVE  /\ watching' \subseteq Accounts
           /\ started' \in [Accounts -> Nat]
           /\ phase' \in [Accounts -> {"none", "dial", "scan", "stuck", "idle", "wait"}]
           /\ backoff' \in [Accounts -> 0 .. 2 * Ceiling - 1]
           /\ timer' = timer
  BY TimesAssumption DEF SupervisorTypeOK, StartWatching

\* What happens outside the process.
World(a) == Activate(a) \/ Deactivate(a) \/ Arrive(a) \/ ArriveUnparsable(a)

\* Every step preserves the types.
LEMMA TypeNext == SupervisorTypeOK /\ [SuperNext]_superVars => SupervisorTypeOK'
  <1> SUFFICES ASSUME SupervisorTypeOK, [SuperNext]_superVars
               PROVE  SupervisorTypeOK'
    OBVIOUS
  <1> USE TimesAssumption
  <1>1. CASE Start
    BY <1>1 DEF Start, SupervisorTypeOK, goroutineVars, mailVars
  <1>2. CASE Refresh
    <2>1. active \in SUBSET Accounts /\ StartWatching(active)
      BY <1>2 DEF Refresh, SupervisorTypeOK
    <2> QED
      BY <1>2, <2>1, StartWatchingType
      DEF Refresh, SupervisorTypeOK, accountVars, mailVars
  <1>3. CASE TickerFires
    BY <1>3 DEF TickerFires, SupervisorTypeOK, accountVars, goroutineVars, mailVars
  <1>4. CASE Tick
    <2>1. timer' \in [Accounts -> 0 .. Larger(IdleTime, 2 * Ceiling)]
      BY <1>4, BoundFacts DEF Tick, Quiet, SupervisorTypeOK, Waiting
    <2>2. late' \in [Accounts -> 0 .. MaxLate]
      BY <1>4, MaxLateNat DEF Tick, SupervisorTypeOK
    <2> QED
      BY <1>4, <2>1, <2>2 DEF Tick, Quiet, SupervisorTypeOK, accountVars
  <1>5. ASSUME NEW a \in Accounts, GoroutineStep(a) PROVE SupervisorTypeOK'
    <2>1. CASE Dial(a)
      BY <2>1, BoundFacts
      DEF Dial, GoTo, SupervisorTypeOK, accountVars, processVars, mailVars
    <2>2. CASE Scan(a)
      BY <2>2, BoundFacts, MaxLateNat
      DEF Scan, GoTo, SupervisorTypeOK, accountVars, processVars
    <2>3. CASE IdleReturns(a)
      BY <2>3, BoundFacts
      DEF IdleReturns, GoTo, SupervisorTypeOK, accountVars, processVars, mailVars
    <2>4. CASE BackoffElapsed(a)
      <3>1. backoff' \in [Accounts -> 0 .. 2 * Ceiling - 1]
        BY <2>4 DEF BackoffElapsed, SupervisorTypeOK
      <3> QED
        BY <2>4, <3>1, BoundFacts
        DEF BackoffElapsed, GoTo, SupervisorTypeOK, accountVars, processVars, mailVars
    <2>5. CASE ScanHangs(a)
      BY <2>5, BoundFacts
      DEF ScanHangs, GoTo, SupervisorTypeOK, accountVars, processVars, mailVars
    <2> QED BY <1>5, <2>1, <2>2, <2>3, <2>4, <2>5 DEF GoroutineStep
  <1>6. CASE RefreshShort
    <2>1. PICK accounts \in SUBSET active : StartWatching(accounts)
      BY <1>6 DEF RefreshShort
    <2>2. accounts \in SUBSET Accounts
      BY <2>1 DEF SupervisorTypeOK
    <2> QED
      BY <1>6, <2>1, <2>2, StartWatchingType
      DEF RefreshShort, RunFail, SupervisorTypeOK, accountVars, mailVars
  <1>7. CASE Die
    BY <1>7, BoundFacts DEF Die, RunFail, SupervisorTypeOK, mailVars
  <1>8. ASSUME NEW a \in Accounts, GoroutineFault(a) PROVE SupervisorTypeOK'
    <2>1. CASE DialFails(a)
      BY <2>1, BoundFacts
      DEF DialFails, RunFail, GoTo, SupervisorTypeOK, accountVars, processVars, mailVars
    <2>2. CASE ScanFails(a)
      BY <2>2, BoundFacts
      DEF ScanFails, RunFail, GoTo, SupervisorTypeOK, accountVars, processVars, mailVars
    <2>3. CASE IdleFails(a)
      BY <2>3, BoundFacts
      DEF IdleFails, RunFail, GoTo, SupervisorTypeOK, accountVars, processVars, mailVars
    <2>4. CASE ScanWithoutBody(a)
      BY <2>4, BoundFacts, MaxLateNat
      DEF ScanWithoutBody, RunFail, GoTo, SupervisorTypeOK, accountVars, processVars
    <2> QED BY <1>8, <2>1, <2>2, <2>3, <2>4 DEF GoroutineFault
  <1>9. ASSUME NEW a \in Accounts, World(a) PROVE SupervisorTypeOK'
    BY <1>9, MaxLateNat
    DEF World, Activate, Deactivate, Arrive, ArriveUnparsable, SupervisorTypeOK, accountVars, processVars,
        goroutineVars, mailVars
  <1>10. CASE UNCHANGED superVars
    BY <1>10
    DEF superVars, SupervisorTypeOK, accountVars, processVars, goroutineVars, mailVars
  <1> QED
    BY <1>1, <1>2, <1>3, <1>4, <1>5, <1>6, <1>7, <1>8, <1>9, <1>10
    DEF SuperNext, SuperStep, World

\* Types hold in every reachable state, and with them the bounds of the waits: no
\* backoff reaches twice the ceiling (SupervisorTypeOK).
THEOREM SupervisorTypeCorrect == SuperSpec => []SupervisorTypeOK
  BY TypeInit, TypeNext, PTL DEF SuperSpec

------------------------------------------------------------------------------
(* Who is watched.                                                          *)

LEMMA WatchInit == SuperInit => WatchInv
  BY DEF SuperInit, WatchInv, OneGoroutine, WatchedWasActive, GoroutinesMatch

\* Starting goroutines for accounts of this time keeps one per account.
LEMMA StartWatchingKeeps ==
    ASSUME SupervisorTypeOK, WatchInv, run = "refresh",
           NEW accounts \in SUBSET active, StartWatching(accounts),
           run' = "select", UNCHANGED accountVars
    PROVE  WatchInv'
  <1>1. OneGoroutine'
    BY DEF SupervisorTypeOK, WatchInv, OneGoroutine, StartWatching
  <1>2. WatchedWasActive'
    BY DEF WatchInv, WatchedWasActive, GoroutinesMatch, StartWatching, accountVars
  <1>3. GoroutinesMatch'
    BY DEF SupervisorTypeOK, WatchInv, GoroutinesMatch, StartWatching, accountVars
  <1> QED BY <1>1, <1>2, <1>3 DEF WatchInv

\* A goroutine that goes from one phase to another keeps WatchInv.
LEMMA GoToKeeps ==
    ASSUME SupervisorTypeOK, WatchInv, NEW a \in Accounts, NEW p, NEW t,
           phase[a] # "none", p # "none", GoTo(a, p, t),
           UNCHANGED <<accountVars, processVars>>
    PROVE  WatchInv'
  BY DEF SupervisorTypeOK, WatchInv, OneGoroutine, WatchedWasActive, GoroutinesMatch,
         GoTo, accountVars, processVars

\* Every step preserves WatchInv.
LEMMA WatchNext ==
    SupervisorTypeOK /\ WatchInv /\ [SuperNext]_superVars => WatchInv'
  <1> SUFFICES ASSUME SupervisorTypeOK, WatchInv, [SuperNext]_superVars
               PROVE  WatchInv'
    OBVIOUS
  <1>1. CASE Start
    BY <1>1
    DEF Start, goroutineVars, WatchInv, OneGoroutine, WatchedWasActive, GoroutinesMatch
  <1>2. CASE Refresh
    <2>1. active \in SUBSET active
      OBVIOUS
    <2> QED BY <1>2, <2>1, StartWatchingKeeps DEF Refresh
  <1>3. CASE TickerFires
    BY <1>3
    DEF TickerFires, goroutineVars, accountVars, WatchInv, OneGoroutine,
        WatchedWasActive, GoroutinesMatch
  <1>4. CASE Tick
    BY <1>4
    DEF Tick, accountVars, WatchInv, OneGoroutine, WatchedWasActive, GoroutinesMatch
  <1>5. ASSUME NEW a \in Accounts, GoroutineStep(a) PROVE WatchInv'
    <2>1. CASE Dial(a)
      BY <2>1, GoToKeeps DEF Dial
    <2>2. CASE Scan(a)
      BY <2>2, GoToKeeps DEF Scan
    <2>3. CASE IdleReturns(a)
      BY <2>3, GoToKeeps DEF IdleReturns
    <2>4. CASE BackoffElapsed(a)
      BY <2>4, GoToKeeps DEF BackoffElapsed
    <2>5. CASE ScanHangs(a)
      BY <2>5, GoToKeeps DEF ScanHangs
    <2> QED BY <1>5, <2>1, <2>2, <2>3, <2>4, <2>5 DEF GoroutineStep
  <1>6. CASE RefreshShort
    BY <1>6, StartWatchingKeeps DEF RefreshShort
  <1>7. CASE Die
    BY <1>7
    DEF Die, SupervisorTypeOK, WatchInv, OneGoroutine, WatchedWasActive, GoroutinesMatch
  <1>8. ASSUME NEW a \in Accounts, GoroutineFault(a) PROVE WatchInv'
    <2>1. CASE DialFails(a)
      BY <2>1, GoToKeeps DEF DialFails
    <2>2. CASE ScanFails(a)
      BY <2>2, GoToKeeps DEF ScanFails
    <2>3. CASE IdleFails(a)
      BY <2>3, GoToKeeps DEF IdleFails
    <2>4. CASE ScanWithoutBody(a)
      BY <2>4, GoToKeeps DEF ScanWithoutBody
    <2> QED BY <1>8, <2>1, <2>2, <2>3, <2>4 DEF GoroutineFault
  <1>9. ASSUME NEW a \in Accounts, World(a) PROVE WatchInv'
    BY <1>9
    DEF World, Activate, Deactivate, Arrive, ArriveUnparsable, accountVars, processVars, goroutineVars,
        WatchInv, OneGoroutine, WatchedWasActive, GoroutinesMatch
  <1>10. CASE UNCHANGED superVars
    BY <1>10
    DEF superVars, accountVars, processVars, goroutineVars, WatchInv, OneGoroutine,
        WatchedWasActive, GoroutinesMatch
  <1> QED
    BY <1>1, <1>2, <1>3, <1>4, <1>5, <1>6, <1>7, <1>8, <1>9, <1>10
    DEF SuperNext, SuperStep, World

LEMMA WatchInvCorrect == SuperSpec => []WatchInv
  BY WatchInit, WatchNext, SupervisorTypeCorrect, PTL DEF SuperSpec

\* No refresh, activation or restart ever starts a second goroutine for an
\* account (OneGoroutine).
THEOREM OneGoroutineCorrect == SuperSpec => []OneGoroutine
  <1>1. WatchInv => OneGoroutine
    BY DEF WatchInv
  <1> QED BY <1>1, WatchInvCorrect, PTL

\* No account is watched that was not active in the life of the process
\* (WatchedWasActive).
THEOREM WatchedWasActiveCorrect == SuperSpec => []WatchedWasActive
  <1>1. WatchInv => WatchedWasActive
    BY DEF WatchInv
  <1> QED BY <1>1, WatchInvCorrect, PTL

------------------------------------------------------------------------------
(* How late mail is seen.                                                   *)

LEMMA DelayInit == SuperInit => DelayInv
  BY DEF SuperInit, DelayInv, WaitsBounded, DelayBounded

\* A goroutine that goes into a wait has its reason, and its time.
LEMMA GoToBounded ==
    ASSUME SupervisorTypeOK, WaitsBounded, NEW a \in Accounts, NEW p, NEW t,
           GoTo(a, p, t),
           p = "idle" => t <= IdleTime,
           p = "wait" => run_faults' > 0,
           p = "stuck" => a \in jammed',
           \A b \in jammed : \/ b \in jammed'
                             \/ b = a /\ p # "stuck",
           run_faults' \in {run_faults, run_faults + 1}
    PROVE  WaitsBounded'
  BY TimesAssumption DEF SupervisorTypeOK, WaitsBounded, GoTo

\* Every step preserves WaitsBounded.
LEMMA WaitsNext ==
    SupervisorTypeOK /\ WaitsBounded /\ [SuperNext]_superVars => WaitsBounded'
  <1> SUFFICES ASSUME SupervisorTypeOK, WaitsBounded, [SuperNext]_superVars
               PROVE  WaitsBounded'
    OBVIOUS
  <1>0. run_faults \in Nat /\ IdleTime \in Nat
    BY TimesAssumption DEF SupervisorTypeOK
  <1>1. CASE Start \/ TickerFires
    BY <1>1 DEF Start, TickerFires, goroutineVars, mailVars, WaitsBounded
  <1>2. CASE Refresh \/ RefreshShort
    BY <1>0, <1>2
    DEF Refresh, RefreshShort, RunFail, StartWatching, SupervisorTypeOK, WaitsBounded,
        mailVars
  <1>3. CASE Tick
    BY <1>0, <1>3, TimesAssumption DEF Tick, Quiet, Waiting, SupervisorTypeOK, WaitsBounded
  <1>4. ASSUME NEW a \in Accounts, GoroutineStep(a) PROVE WaitsBounded'
    <2>1. CASE Dial(a)
      BY <2>1, GoToBounded DEF Dial, mailVars
    <2>2. CASE Scan(a)
      BY <2>2, <1>0, GoToBounded DEF Scan
    <2>3. CASE IdleReturns(a)
      BY <2>3, GoToBounded DEF IdleReturns, mailVars
    <2>4. CASE BackoffElapsed(a)
      BY <2>4, GoToBounded DEF BackoffElapsed, mailVars
    <2>5. CASE ScanHangs(a)
      <3>1. /\ GoTo(a, "stuck", 0) /\ a \in jammed'
            /\ jammed' = jammed /\ run_faults' = run_faults
        BY <2>5 DEF ScanHangs, mailVars
      <3>2. \A b \in jammed : b \in jammed'
        BY <3>1
      <3> QED BY <3>1, <3>2, GoToBounded
    <2> QED BY <1>4, <2>1, <2>2, <2>3, <2>4, <2>5 DEF GoroutineStep
  <1>5. CASE Die
    BY <1>5 DEF Die, WaitsBounded
  <1>6. ASSUME NEW a \in Accounts, GoroutineFault(a) PROVE WaitsBounded'
    <2>1. CASE DialFails(a)
      BY <2>1, <1>0, GoToBounded DEF DialFails, RunFail, mailVars
    <2>2. CASE ScanFails(a)
      BY <2>2, <1>0, GoToBounded DEF ScanFails, RunFail, mailVars
    <2>3. CASE IdleFails(a)
      BY <2>3, <1>0, GoToBounded DEF IdleFails, RunFail, mailVars
    <2>4. CASE ScanWithoutBody(a)
      BY <2>4, <1>0, GoToBounded DEF ScanWithoutBody, RunFail
    <2> QED BY <1>6, <2>1, <2>2, <2>3, <2>4 DEF GoroutineFault
  <1>7. ASSUME NEW a \in Accounts, World(a) PROVE WaitsBounded'
    BY <1>7
    DEF World, Activate, Deactivate, Arrive, ArriveUnparsable, goroutineVars, mailVars,
        WaitsBounded
  <1>8. CASE UNCHANGED superVars
    BY <1>8 DEF superVars, goroutineVars, mailVars, WaitsBounded
  <1> QED
    BY <1>1, <1>2, <1>3, <1>4, <1>5, <1>6, <1>7, <1>8 DEF SuperNext, SuperStep, World

\* What remains is a natural number, and within the bound by itself.
RemainingBounded ==
    \A a \in Accounts :
        /\ Remaining(a) \in Nat
        /\ Remaining(a) <= Setback
        /\ Remaining(a) <= Bound(run_faults)

\* A wait is at most Promptness, or at most Setback and something has failed.
LEMMA RemainingFacts == SupervisorTypeOK /\ WaitsBounded => RemainingBounded
  <1> SUFFICES ASSUME SupervisorTypeOK, WaitsBounded, NEW a \in Accounts
               PROVE  /\ Remaining(a) \in Nat
                      /\ Remaining(a) <= Setback
                      /\ Remaining(a) <= Bound(run_faults)
    BY DEF RemainingBounded
  <1>1. run_faults \in Nat /\ ticker \in Nat /\ ticker <= RefreshEvery
    BY TimesAssumption DEF SupervisorTypeOK
  <1>2. timer[a] \in Nat /\ timer[a] <= Setback
    BY BoundFacts, TimesAssumption DEF SupervisorTypeOK
  <1>3. /\ Bound(run_faults) \in Nat
        /\ Promptness <= Bound(run_faults)
        /\ run_faults > 0 => Setback <= Bound(run_faults)
    BY <1>1, BoundGrows
  <1>4. CASE a \in watching /\ phase[a] = "idle"
    <2>1. Remaining(a) = timer[a] /\ timer[a] <= IdleTime
      BY <1>4 DEF Remaining, Waiting, WaitsBounded
    <2> QED BY <2>1, <1>2, <1>3, BoundFacts, TimesAssumption
  <1>5. CASE a \in watching /\ phase[a] = "wait"
    <2>1. Remaining(a) = timer[a] /\ run_faults > 0
      BY <1>5 DEF Remaining, Waiting, WaitsBounded
    <2> QED BY <2>1, <1>2, <1>3, BoundFacts
  <1>6. CASE a \in watching /\ ~Waiting(a)
    <2>1. Remaining(a) = 0
      BY <1>6 DEF Remaining
    <2> QED BY <2>1, <1>3, BoundFacts
  <1>7. CASE a \notin watching
    <2>1. Remaining(a) = 0 \/ Remaining(a) = ticker
      BY <1>7 DEF Remaining
    <2> QED BY <2>1, <1>1, <1>3, BoundFacts, TimesAssumption
  <1> QED BY <1>4, <1>5, <1>6, <1>7 DEF Waiting

\* The bound before and after a step.
LEMMA BoundStep ==
    ASSUME SupervisorTypeOK
    PROVE  /\ Bound(run_faults) \in Nat
           /\ run_faults' = run_faults => Bound(run_faults)' = Bound(run_faults)
           /\ run_faults' = run_faults + 1 =>
                 Bound(run_faults)' = Bound(run_faults) + Setback
  <1>1. run_faults \in Nat
    BY TimesAssumption DEF SupervisorTypeOK
  <1>2. Bound(run_faults) \in Nat /\ Bound(run_faults + 1) = Bound(run_faults) + Setback
    BY <1>1, BoundGrows
  <1>3. /\ run_faults' = run_faults => Bound(run_faults)' = Bound(run_faults)
        /\ run_faults' = run_faults + 1 => Bound(run_faults)' = Bound(run_faults + 1)
    BY DEF Bound
  <1> QED BY <1>2, <1>3

\* The accounts whose mail is on its way.
Awaited == (unseen \cap active) \ jammed

\* A step does account a no harm: its mail is new or just seen, or what remains
\* has not grown, or a fault has happened, which raises the bound.
Unharmed(a) ==
    \/ late'[a] = 0
    \/ /\ a \in Awaited
       /\ late'[a] = late[a]
       /\ \/ run_faults' = run_faults /\ Remaining(a)' <= Remaining(a)
          \/ run_faults' = run_faults + 1

\* Then its mail is still in time.
LEMMA UnharmedInTime ==
    ASSUME SupervisorTypeOK, DelayBounded, RemainingBounded, RemainingBounded',
           NEW a \in Accounts, Unharmed(a)
    PROVE  (late[a] + Remaining(a) <= Promptness + run_faults * Setback)'
  <1> SUFFICES late'[a] + Remaining(a)' <= Bound(run_faults)'
    BY DEF Bound
  <1>1. /\ Remaining(a) \in Nat
        /\ Remaining(a)' \in Nat /\ Remaining(a)' <= Setback
        /\ Remaining(a)' <= Bound(run_faults)'
    BY DEF RemainingBounded
  <1>2. late[a] \in Nat
    BY MaxLateNat DEF SupervisorTypeOK
  <1>3. CASE late'[a] = 0
    BY <1>1, <1>3
  <1>4. CASE late'[a] # 0
    <2>1. late[a] + Remaining(a) <= Bound(run_faults)
      BY <1>4 DEF Unharmed, DelayBounded, Bound, Awaited
    <2>2. CASE run_faults' = run_faults
      <3>1. Remaining(a)' <= Remaining(a) /\ late'[a] = late[a]
        <4>1. run_faults \in Nat
          BY TimesAssumption DEF SupervisorTypeOK
        <4> QED BY <1>4, <2>2, <4>1 DEF Unharmed
      <3> QED BY <1>1, <1>2, <2>1, <2>2, <3>1, BoundStep
    <2>3. CASE run_faults' = run_faults + 1
      <3>1. late'[a] = late[a]
        BY <1>4 DEF Unharmed
      <3> QED BY <1>1, <1>2, <2>1, <2>3, <3>1, BoundStep, BoundFacts
    <2> QED BY <1>4, <2>2, <2>3 DEF Unharmed
  <1> QED BY <1>3, <1>4

\* A tick adds one to what has passed and takes one from what remains.
LEMMA TickInTime ==
    ASSUME SupervisorTypeOK, WatchInv, DelayBounded, RemainingBounded, Tick,
           WaitsBounded, NEW a \in Awaited, a \in Accounts
    PROVE  (late[a] + Remaining(a) <= Promptness + run_faults * Setback)'
  <1>1. late[a] + Remaining(a) <= Bound(run_faults)
    BY DEF DelayBounded, Bound, Awaited
  <1>2. Remaining(a) \in Nat /\ Remaining(a)' = Remaining(a) - 1
    <2>1. CASE a \in watching
      <3>1. Waiting(a) /\ Waiting(a)' /\ watching' = watching
        BY <2>1 DEF Tick, Quiet, WatchInv, GoroutinesMatch, Waiting, WaitsBounded,
                    Awaited
      <3>2. timer'[a] = timer[a] - 1
        BY <3>1 DEF Tick
      <3> QED BY <2>1, <3>1, <3>2 DEF Remaining, RemainingBounded
    <2>2. CASE a \notin watching
      BY <2>2 DEF Tick, Quiet, Remaining, RemainingBounded
    <2> QED BY <2>1, <2>2
  <1>3. late[a] \in Nat /\ late'[a] \in Nat /\ late'[a] <= late[a] + 1
    BY MaxLateNat DEF Tick, SupervisorTypeOK
  <1>4. Bound(run_faults)' = Bound(run_faults) /\ Bound(run_faults) \in Nat
    BY BoundStep DEF Tick
  <1>5. late'[a] + Remaining(a)' <= Bound(run_faults)'
    BY <1>1, <1>2, <1>3, <1>4
  <1> QED BY <1>5 DEF Bound

\* Starting goroutines does no account harm that is in the list; a short list
\* comes with a fault.
LEMMA StartWatchingUnharmed ==
    ASSUME SupervisorTypeOK, WatchInv, run = "refresh", run' = "select",
           NEW accounts \in SUBSET active, StartWatching(accounts),
           NEW a \in Awaited, a \in Accounts, late' = late,
           \/ accounts = active /\ run_faults' = run_faults
           \/ run_faults' = run_faults + 1
    PROVE  Unharmed(a)
  <1>1. CASE run_faults' = run_faults + 1
    BY <1>1 DEF Unharmed
  <1>2. CASE accounts = active /\ run_faults' = run_faults
    <2>1. CASE a \in watching
      <3>1. a \in watching' /\ timer'[a] = timer[a] /\ phase'[a] = phase[a]
        BY <2>1 DEF StartWatching
      <3>2. Remaining(a)' = Remaining(a)
        BY <2>1, <3>1 DEF Remaining, Waiting
      <3>3. Remaining(a) \in Nat
        BY <2>1, TimesAssumption, BoundFacts DEF Remaining, SupervisorTypeOK
      <3> QED BY <1>2, <3>2, <3>3 DEF Unharmed
    <2>2. CASE a \notin watching
      <3>1. a \in watching' /\ phase'[a] = "dial"
        BY <1>2, <2>2 DEF StartWatching, Awaited
      <3>2. Remaining(a)' = 0 /\ Remaining(a) = 0
        BY <2>2, <3>1 DEF Remaining, Waiting
      <3> QED BY <1>2, <3>2 DEF Unharmed
    <2> QED BY <2>1, <2>2
  <1> QED BY <1>1, <1>2

\* Nor does a goroutine that goes on without a wait harm its own account or
\* another.
LEMMA GoToUnharmed ==
    ASSUME SupervisorTypeOK, WatchInv, NEW b \in Accounts, NEW p \in {"dial", "scan"},
           phase[b] # "none", Waiting(b) => timer[b] = 0, GoTo(b, p, 0),
           UNCHANGED <<accountVars, processVars>>, run_faults' = run_faults,
           NEW a \in Awaited, a \in Accounts, late'[a] = late[a]
    PROVE  Unharmed(a)
  <1>0. Remaining(a) \in Nat
    BY TimesAssumption, BoundFacts DEF Remaining, SupervisorTypeOK
  <1>1. watching' = watching /\ run' = run /\ ticker' = ticker
    BY DEF processVars
  <1>2. CASE a = b
    <2>1. Remaining(a) = 0
      BY <1>2 DEF Remaining, WatchInv, GoroutinesMatch
    <2>2. Remaining(a)' = 0
      BY <1>1, <1>2 DEF Remaining, Waiting, GoTo, SupervisorTypeOK, WatchInv,
                        GoroutinesMatch
    <2> QED BY <2>1, <2>2 DEF Unharmed
  <1>3. CASE a # b
    <2>1. Remaining(a)' = Remaining(a)
      BY <1>1, <1>3 DEF Remaining, Waiting, GoTo, SupervisorTypeOK
    <2> QED BY <1>0, <2>1 DEF Unharmed
  <1> QED BY <1>2, <1>3

\* Every step preserves DelayInv.
LEMMA DelayNext ==
    SupervisorTypeOK /\ WatchInv /\ DelayInv /\ [SuperNext]_superVars => DelayInv'
  <1> SUFFICES ASSUME SupervisorTypeOK, WatchInv, DelayInv, [SuperNext]_superVars
               PROVE  DelayInv'
    OBVIOUS
  <1>a. WaitsBounded /\ DelayBounded
    BY DEF DelayInv
  <1>b. SupervisorTypeOK' /\ WaitsBounded'
    BY <1>a, TypeNext, WaitsNext
  <1>c. RemainingBounded
    BY <1>a, RemainingFacts
  <1>d. RemainingBounded'
    BY <1>b, RemainingFacts, PTL
  <1> SUFFICES ASSUME NEW a \in Accounts, a \in (unseen' \cap active') \ jammed'
               PROVE  (late[a] + Remaining(a) <= Promptness + run_faults * Setback)'
    BY <1>b DEF DelayInv, DelayBounded, SupervisorTypeOK
  <1>e. Remaining(a) \in Nat
    BY <1>c DEF RemainingBounded
  <1>1. CASE Start
    <2>1. run = "down" /\ run' = "refresh" /\ UNCHANGED <<watching, phase, timer>>
      BY <1>1 DEF Start, goroutineVars
    <2>2. Remaining(a)' = Remaining(a)
      BY <2>1 DEF Remaining, Waiting
    <2>3. Unharmed(a)
      BY <1>1, <1>e, <2>2 DEF Start, Unharmed, Awaited, mailVars
    <2> QED BY <1>a, <1>c, <1>d, <2>3, UnharmedInTime
  <1>2. CASE Refresh
    <2>1. Unharmed(a)
      BY <1>2, StartWatchingUnharmed DEF Refresh, Awaited, accountVars, mailVars
    <2> QED BY <1>a, <1>c, <1>d, <2>1, UnharmedInTime
  <1>3. CASE TickerFires
    <2>1. /\ run = "select" /\ ticker = 0 /\ run' = "refresh"
          /\ UNCHANGED <<watching, phase, timer>>
      BY <1>3 DEF TickerFires, goroutineVars
    <2>2. Remaining(a)' = Remaining(a)
      BY <2>1 DEF Remaining, Waiting
    <2>3. Unharmed(a)
      BY <1>3, <1>e, <2>2 DEF TickerFires, Unharmed, Awaited, accountVars, mailVars
    <2> QED BY <1>a, <1>c, <1>d, <2>3, UnharmedInTime
  <1>4. CASE Tick
    <2>1. a \in Awaited
      BY <1>4 DEF Tick, Awaited, accountVars
    <2> QED BY <1>4, <1>a, <1>c, <2>1, TickInTime
  <1>5. ASSUME NEW b \in Accounts, GoroutineStep(b)
        PROVE  (late[a] + Remaining(a) <= Promptness + run_faults * Setback)'
    <2>1. CASE Dial(b)
      <3>1. Unharmed(a)
        BY <2>1, GoToUnharmed DEF Dial, Waiting, Awaited, accountVars, mailVars
      <3> QED BY <1>a, <1>c, <1>d, <3>1, UnharmedInTime
    <2>2. CASE Scan(b)
      <3>1. Unharmed(a)
        <4>1. CASE a = b
          BY <2>2, <4>1 DEF Scan
        <4>2. CASE a # b
          <5>1. Remaining(a)' = Remaining(a)
            BY <2>2, <4>2 DEF Scan, GoTo, Remaining, Waiting, SupervisorTypeOK,
                              processVars
          <5> QED BY <1>e, <2>2, <4>2, <5>1
                  DEF Scan, Unharmed, Awaited, accountVars, SupervisorTypeOK
        <4> QED BY <4>1, <4>2
      <3> QED BY <1>a, <1>c, <1>d, <3>1, UnharmedInTime
    <2>3. CASE IdleReturns(b)
      <3>1. Unharmed(a)
        BY <2>3, GoToUnharmed DEF IdleReturns, Awaited, accountVars, mailVars
      <3> QED BY <1>a, <1>c, <1>d, <3>1, UnharmedInTime
    <2>4. CASE BackoffElapsed(b)
      <3>1. Unharmed(a)
        BY <2>4, GoToUnharmed DEF BackoffElapsed, Awaited, accountVars, mailVars
      <3> QED BY <1>a, <1>c, <1>d, <3>1, UnharmedInTime
    <2>5. CASE ScanHangs(b)
      <3>1. a # b
        BY <2>5 DEF ScanHangs, mailVars
      <3>2. Remaining(a)' = Remaining(a)
        BY <2>5, <3>1 DEF ScanHangs, GoTo, Remaining, Waiting, SupervisorTypeOK,
                          processVars
      <3>3. Unharmed(a)
        BY <1>e, <2>5, <3>2 DEF ScanHangs, Unharmed, Awaited, accountVars, mailVars
      <3> QED BY <1>a, <1>c, <1>d, <3>3, UnharmedInTime
    <2> QED BY <1>5, <2>1, <2>2, <2>3, <2>4, <2>5 DEF GoroutineStep
  <1>6. CASE RefreshShort
    <2>1. Unharmed(a)
      BY <1>6 DEF RefreshShort, RunFail, Unharmed, Awaited, accountVars, mailVars
    <2> QED BY <1>a, <1>c, <1>d, <2>1, UnharmedInTime
  <1>7. CASE Die
    <2>1. Unharmed(a)
      BY <1>7 DEF Die, RunFail, Unharmed, Awaited, mailVars
    <2> QED BY <1>a, <1>c, <1>d, <2>1, UnharmedInTime
  <1>8. ASSUME NEW b \in Accounts, GoroutineFault(b)
        PROVE  (late[a] + Remaining(a) <= Promptness + run_faults * Setback)'
    <2>1. CASE ScanWithoutBody(b)
      <3>1. Unharmed(a)
        <4>1. CASE a = b
          BY <2>1, <4>1 DEF ScanWithoutBody
        <4>2. CASE a # b
          BY <2>1, <4>2
          DEF ScanWithoutBody, RunFail, Unharmed, Awaited, accountVars, SupervisorTypeOK
        <4> QED BY <4>1, <4>2
      <3> QED BY <1>a, <1>c, <1>d, <3>1, UnharmedInTime
    <2>2. CASE DialFails(b) \/ ScanFails(b) \/ IdleFails(b)
      <3>1. Unharmed(a)
        BY <2>2
        DEF DialFails, ScanFails, IdleFails, RunFail, Unharmed, Awaited, accountVars,
            mailVars
      <3> QED BY <1>a, <1>c, <1>d, <3>1, UnharmedInTime
    <2> QED BY <1>8, <2>1, <2>2 DEF GoroutineFault
  <1>9. ASSUME NEW b \in Accounts, World(b)
        PROVE  (late[a] + Remaining(a) <= Promptness + run_faults * Setback)'
    <2>1. Remaining(a)' = Remaining(a) /\ run_faults' = run_faults
      BY <1>9
      DEF World, Activate, Deactivate, Arrive, ArriveUnparsable, processVars,
          goroutineVars, Remaining, Waiting
    <2>2. \/ late'[a] = 0
          \/ a \in Awaited /\ late'[a] = late[a]
      BY <1>9
      DEF World, Activate, Deactivate, Arrive, ArriveUnparsable, Awaited, accountVars,
          mailVars, SupervisorTypeOK
    <2>3. Unharmed(a)
      BY <1>e, <2>1, <2>2 DEF Unharmed
    <2> QED BY <1>a, <1>c, <1>d, <2>3, UnharmedInTime
  <1>10. CASE UNCHANGED superVars
    <2>1. Remaining(a)' = Remaining(a)
      BY <1>10 DEF superVars, processVars, goroutineVars, Remaining, Waiting
    <2>2. Unharmed(a)
      BY <1>10, <1>e, <2>1 DEF superVars, accountVars, mailVars, Unharmed, Awaited
    <2> QED BY <1>a, <1>c, <1>d, <2>2, UnharmedInTime
  <1> QED
    BY <1>1, <1>2, <1>3, <1>4, <1>5, <1>6, <1>7, <1>8, <1>9, <1>10
    DEF SuperNext, SuperStep, World

LEMMA DelayInvCorrect == SuperSpec => []DelayInv
  BY DelayInit, DelayNext, SupervisorTypeCorrect, WatchInvCorrect, PTL DEF SuperSpec

\* Mail of an active account without an unparsable message is scanned within one
\* wait and one more per failure, for whatever times of IDLE, refresh and backoff
\* (SeenInTime).
THEOREM SeenInTimeCorrect == SuperSpec => []SeenInTime
  <1>1. SupervisorTypeOK /\ DelayInv => SeenInTime
    <2> SUFFICES ASSUME SupervisorTypeOK, DelayInv, NEW a \in (unseen \cap active) \ jammed
                 PROVE  late[a] <= Promptness + run_faults * Setback
      BY DEF SeenInTime
    <2>1. a \in Accounts /\ late[a] \in Nat /\ run_faults \in Nat
      BY MaxLateNat, TimesAssumption DEF SupervisorTypeOK
    <2>2. Remaining(a) \in Nat
      BY <2>1, RemainingFacts DEF DelayInv, RemainingBounded
    <2>3. late[a] + Remaining(a) <= Bound(run_faults) /\ Bound(run_faults) \in Nat
      BY <2>1, BoundGrows DEF DelayInv, DelayBounded, Bound
    <2>4. late[a] <= Bound(run_faults)
      BY <2>1, <2>2, <2>3
    <2> QED BY <2>4 DEF Bound
  <1> QED BY <1>1, SupervisorTypeCorrect, DelayInvCorrect, PTL

==============================================================================
