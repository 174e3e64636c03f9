--------------------------- MODULE ProcessesProofs ----------------------------
(***************************************************************************)
(* Proofs about Processes: its type invariant, and that a service runs     *)
(* with the configuration of its highest source only - for any variables,  *)
(* kinds and number of faults.                                             *)
(***************************************************************************)
EXTENDS Processes, TLAPS

------------------------------------------------------------------------------
(* config.Load.                                                             *)

\* What the two sources hold, and the depth at which the file is looked for.
SourcesOK ==
    /\ environ \in [Keys -> Values]
    /\ dotenv.vars \in [Keys -> Values]
    /\ dotenv.depth \in 1 .. MaxLevels + 1
    /\ dotenv.parses \in BOOLEAN

LEMMA NoConfigFacts ==
    /\ NoConfig \in [Keys -> Values]
    /\ NoConfig \in [Keys -> (Values \ {""}) \cup {"default"}]
    /\ "DATABASE_URL" \in Keys /\ NoConfig["DATABASE_URL"] = "unset"
  BY RequiredAssumption DEF NoConfig, Values, Keys

LEMMA SourcesFacts ==
    ASSUME environ \in Variables, dotenv \in DotEnv
    PROVE  SourcesOK
  <1>1. environ \in [Keys -> Values]
    BY DEF Variables
  <1>2. 1 .. MaxLevels \subseteq 1 .. MaxLevels + 1
        /\ {1, MaxLevels + 1} \subseteq 1 .. MaxLevels + 1
    BY DEF MaxLevels
  <1>3. CASE dotenv \in [depth: 1 .. MaxLevels, parses: {TRUE}, vars: Variables]
    <2>1. /\ dotenv.depth \in 1 .. MaxLevels
          /\ dotenv.parses = TRUE
          /\ dotenv.vars \in Variables
      BY <1>3
    <2> QED BY <1>1, <1>2, <2>1 DEF SourcesOK, Variables
  <1>4. CASE dotenv \in [depth: {1, MaxLevels + 1}, parses: BOOLEAN, vars: {NoConfig}]
    <2>1. /\ dotenv.depth \in {1, MaxLevels + 1}
          /\ dotenv.parses \in BOOLEAN
          /\ dotenv.vars = NoConfig
      BY <1>4
    <2> QED BY <1>1, <1>2, <2>1, NoConfigFacts DEF SourcesOK
  <1> QED BY <1>3, <1>4 DEF DotEnv

LEMMA EnvironmentType == SourcesOK => Environment \in [Keys -> Values]
  BY DEF SourcesOK, Environment

\* A variable that Load takes as given has the value of its highest source.
LEMMA GivenIsEffective ==
    ASSUME SourcesOK, NEW k \in Keys, ~Empty(Environment[k])
    PROVE  Environment[k] = Effective(k)
  <1>1. FindDotEnv <=> dotenv.depth \in 1 .. 6
    BY DEF SourcesOK, FindDotEnv, MaxLevels
  <1>2. CASE FindDotEnv /\ dotenv.parses
    BY <1>1, <1>2 DEF Environment, Effective, Empty
  <1>3. CASE ~(FindDotEnv /\ dotenv.parses)
    BY <1>1, <1>3 DEF Environment, Effective, Empty
  <1> QED BY <1>2, <1>3

\* What Load leaves when nothing is missing.
LEMMA LoadFacts ==
    ASSUME SourcesOK, Load, Missing = {}
    PROVE  /\ cfg' \in [Keys -> (Values \ {""}) \cup {"default"}]
           /\ cfg' # NoConfig
           /\ \A k \in Required : cfg'[k] = Effective(k) /\ ~Empty(cfg'[k])
  <1>1. ASSUME NEW k \in Keys PROVE Environment[k] \in Values
    BY <1>1, EnvironmentType
  <1>2. ASSUME NEW k \in Required PROVE k \in Keys /\ ~Empty(Environment[k])
    BY <1>2 DEF Missing, Keys
  <1>3. cfg' = [k \in Keys |-> IF k \in Required
                               THEN Environment[k]
                               ELSE EnvOrDefault(Environment[k])]
    BY DEF Load
  <1>4. ASSUME NEW k \in Keys
        PROVE  cfg'[k] \in (Values \ {""}) \cup {"default"}
    <2>1. CASE k \in Required
      BY <1>1, <1>2, <1>3, <2>1 DEF Empty
    <2>2. CASE k \notin Required
      <3>1. cfg'[k] = EnvOrDefault(Environment[k])
        BY <1>3, <2>2
      <3> QED BY <1>1, <3>1 DEF EnvOrDefault, Empty
    <2> QED BY <2>1, <2>2
  <1>5. cfg' \in [Keys -> (Values \ {""}) \cup {"default"}]
    BY <1>3, <1>4
  <1>6. \A k \in Required : cfg'[k] = Effective(k) /\ ~Empty(cfg'[k])
    BY <1>2, <1>3, GivenIsEffective
  <1>7. cfg' # NoConfig
    <2>1. cfg'["DATABASE_URL"] # "unset"
      BY <1>6, RequiredAssumption DEF Empty
    <2> QED BY <2>1, NoConfigFacts
  <1> QED BY <1>5, <1>6, <1>7

------------------------------------------------------------------------------
(* Type correctness.                                                        *)

LEMMA ProcTypeInit == ProcInit => ProcTypeOK
  <1>1. 0 \in 0 .. MaxFaults
    BY MaxFaultsAssumption
  <1> QED BY <1>1, NoConfigFacts DEF ProcInit, ProcTypeOK, Phases

LEMMA FailType ==
    ASSUME NEW kind, ProcTypeOK, Fail(kind)
    PROVE  faults' \in 0 .. MaxFaults
  <1>1. faults \in 0 .. MaxFaults /\ faults < MaxFaults /\ faults' = faults + 1
    BY DEF ProcTypeOK, Fail
  <1> QED BY <1>1, MaxFaultsAssumption

LEMMA ProcTypeNext == ProcTypeOK /\ [ProcNext]_procVars => ProcTypeOK'
  <1> SUFFICES ASSUME ProcTypeOK, [ProcNext]_procVars PROVE ProcTypeOK'
    OBVIOUS
  <1>1. SourcesOK
    BY SourcesFacts DEF ProcTypeOK
  <1> USE NoConfigFacts DEF given
  <1>2. CASE Load
    <2>1. CASE Missing = {}
      BY <1>1, <1>2, <2>1, LoadFacts DEF Load, ProcTypeOK, Phases
    <2>2. CASE Missing # {}
      BY <1>2, <2>2 DEF Load, ProcTypeOK, Phases
    <2> QED BY <2>1, <2>2
  <1>3. CASE Connect
    BY <1>3 DEF Connect, Exit, ProcTypeOK, Phases
  <1>4. CASE Start
    BY <1>4 DEF Start, Exit, ProcTypeOK, Phases
  <1>5. CASE Drained
    BY <1>5 DEF Drained, Exit, ProcTypeOK, Phases
  <1>6. CASE ListenFails
    BY <1>6, FailType DEF ListenFails, Exit, ProcTypeOK, Phases
  <1>7. CASE Terminate
    BY <1>7, FailType DEF Terminate, Exit, ProcTypeOK, Phases
  <1>8. CASE Killed
    BY <1>8, FailType DEF Killed, Exit, ProcTypeOK, Phases
  <1>9. CASE Restart \/ StartedAgain
    BY <1>9 DEF Restart, StartedAgain, ProcTypeOK, Phases
  <1>10. CASE DbFails
    BY <1>10, FailType DEF DbFails, ProcTypeOK
  <1>11. CASE DbRecovers
    BY <1>11 DEF DbRecovers, ProcTypeOK
  <1>12. CASE UNCHANGED procVars
    BY <1>12 DEF procVars, ProcTypeOK
  <1> QED
    BY <1>2, <1>3, <1>4, <1>5, <1>6, <1>7, <1>8, <1>9, <1>10, <1>11, <1>12
    DEF ProcNext, ProcStep

\* The state of a process is of the declared shape, and it holds a configuration
\* exactly while main works with one.
THEOREM ProcTypeCorrect == ProcSpec => []ProcTypeOK
  BY ProcTypeInit, ProcTypeNext, PTL DEF ProcSpec

------------------------------------------------------------------------------
(* The configuration that a service runs with.                              *)

LEMMA ProcInvInit == ProcInit => ProcInv
  BY DEF ProcInit, ProcInv, LoadedWhole, TickersFit

\* A step that leaves the sources and the configuration alone, and enters none of
\* the working phases from outside of them.
LEMMA StaysWhole ==
    ASSUME LoadedWhole, UNCHANGED <<given, cfg>>,
           phase' \notin {"load", "exited", "stopped"}
               => phase \notin {"load", "exited", "stopped"}
    PROVE  LoadedWhole'
  BY DEF LoadedWhole, given, Effective

LEMMA ProcInvNext ==
    ProcTypeOK /\ ProcInv /\ [ProcNext]_procVars => ProcInv'
  <1> SUFFICES ASSUME ProcTypeOK, ProcInv, [ProcNext]_procVars PROVE ProcInv'
    OBVIOUS
  <1>1. SourcesOK
    BY SourcesFacts DEF ProcTypeOK
  <1> USE DEF ProcInv
  <1>2. CASE Load
    <2>1. UNCHANGED given /\ phase' # "run"
      BY <1>2 DEF Load
    <2>2. CASE Missing = {}
      <3>1. \A k \in Required : Effective(k)' = Effective(k)
        BY <2>1 DEF Effective, given
      <3>2. \A k \in Required : cfg'[k] = Effective(k)' /\ ~Empty(cfg'[k])
        BY <1>1, <1>2, <2>2, <3>1, LoadFacts
      <3> QED BY <2>1, <3>2 DEF LoadedWhole, TickersFit, Empty
    <2>3. CASE Missing # {}
      BY <1>2, <2>1, <2>3 DEF Load, LoadedWhole, TickersFit
    <2> QED BY <2>2, <2>3
  <1>3. CASE Connect
    <2>1. TickersFit'
      BY <1>3 DEF Connect, Exit, TickersFit
    <2>2. LoadedWhole'
      <3>1. CASE phase' = "exited"
        BY <3>1 DEF LoadedWhole
      <3>2. CASE phase' = "start" /\ UNCHANGED cfg
        BY <1>3, <3>2, StaysWhole DEF Connect
      <3> QED BY <1>3, <3>1, <3>2 DEF Connect, Exit
    <2> QED BY <2>1, <2>2
  <1>4. CASE Start
    <2>1. CASE TickersPanic
      BY <1>4, <2>1 DEF Start, Exit, LoadedWhole, TickersFit
    <2>2. CASE ~TickersPanic
      <3>1. LoadedWhole'
        BY <1>4, <2>2, StaysWhole DEF Start
      <3>2. TickersFit'
        BY <1>4, <2>2 DEF Start, TickersFit, TickersPanic, given
      <3> QED BY <3>1, <3>2
    <2> QED BY <2>1, <2>2
  <1>5. CASE Drained \/ ListenFails \/ Killed
    BY <1>5 DEF Drained, ListenFails, Killed, Exit, LoadedWhole, TickersFit
  <1>6. CASE Terminate
    <2>1. TickersFit'
      BY <1>6 DEF Terminate, Exit, TickersFit
    <2>2. CASE phase \in {"load", "connect", "exited"}
      BY <1>6, <2>1, <2>2 DEF Terminate, Exit, LoadedWhole
    <2>3. CASE phase \notin {"load", "connect", "exited"}
      BY <1>6, <2>1, <2>3, StaysWhole DEF Terminate
    <2> QED BY <2>2, <2>3
  <1>7. CASE Restart \/ StartedAgain
    BY <1>7 DEF Restart, StartedAgain, LoadedWhole, TickersFit
  <1>8. CASE UNCHANGED <<given, cfg, phase>>
    <2>1. LoadedWhole'
      BY <1>8, StaysWhole
    <2> QED BY <1>8, <2>1 DEF TickersFit, TickersPanic, given
  <1>9. DbFails \/ DbRecovers \/ UNCHANGED procVars
            => UNCHANGED <<given, cfg, phase>>
    BY DEF DbFails, DbRecovers, procVars
  <1> QED
    BY <1>2, <1>3, <1>4, <1>5, <1>6, <1>7, <1>8, <1>9 DEF ProcNext, ProcStep

\* A service that runs was given every required variable, each with the value of
\* the highest source that sets it, and the reconciler intervals that a ticker
\* takes (config.Load, main).
THEOREM RunsConfiguredCorrect == ProcSpec => []RunsConfigured
  <1>1. ProcInv => RunsConfigured
    BY DEF ProcInv, LoadedWhole, TickersFit, TickersPanic, RunsConfigured, Empty
  <1> QED
    BY <1>1, ProcTypeInit, ProcTypeNext, ProcInvInit, ProcInvNext, PTL DEF ProcSpec

==============================================================================
