------------------------------ MODULE Processes -------------------------------
(***************************************************************************)
(* One of the three binaries (cmd/api, cmd/watcher, cmd/reconciler) from   *)
(* the start of its process to its end, under Docker's "restart: always":  *)
(* config.Load, db.NewPool, the start of its work, the end by a signal.    *)
(*                                                                         *)
(*   service   which of the three                                          *)
(*   environ   the variables its container gives the process               *)
(*   dotenv    the nearest .env file above the working directory: how many *)
(*             directories up (1 is the working directory), whether it can *)
(*             be parsed, and its variables; no file is one too far up     *)
(*   cfg       the *Config of the running process                          *)
(*   phase     what main is doing                                          *)
(*   db        whether PostgreSQL accepts connections                      *)
(*   faults    how many faults have happened                               *)
(***************************************************************************)
EXTENDS Naturals

CONSTANTS
    Required,       \* variables Load insists on
    Intervals,      \* the durations given to time.NewTicker by the reconciler
    Faults,         \* kinds of fault that may happen
    MaxFaults       \* bound on their number

ASSUME RequiredAssumption == "DATABASE_URL" \in Required
ASSUME MaxFaultsAssumption == MaxFaults \in Nat

VARIABLES service, environ, dotenv, cfg, phase, db, faults

given == <<service, environ, dotenv>>
procVars == <<given, cfg, phase, db, faults>>

Services == {"api", "watcher", "reconciler"}

Keys == Required \cup Intervals

\* What a variable may be set to: text that is of use, text that cannot be
\* parsed as what it should be, and a number or duration that is not positive.
Values == {"unset", "", "good", "bad", "zero"}

ValuesOf(k) ==
    {"unset", "", "good"}
    \cup (IF k = "DATABASE_URL" \/ k \in Intervals THEN {"bad"} ELSE {})
    \cup (IF k \in Intervals THEN {"zero"} ELSE {})

Variables == {vars \in [Keys -> Values] : \A k \in Keys : vars[k] \in ValuesOf(k)}

\* The directories that findDotEnv looks into.
MaxLevels == 6

NoConfig == [k \in Keys |-> "unset"]

\* A file out of reach or that cannot be parsed is as good as an empty one.
DotEnv ==
    [depth: 1 .. MaxLevels, parses: {TRUE}, vars: Variables]
    \cup [depth: {1, MaxLevels + 1}, parses: BOOLEAN, vars: {NoConfig}]

Phases == {"load", "connect", "start", "run", "drain", "exited", "stopped"}

ProcTypeOK ==
    /\ service \in Services
    /\ environ \in Variables
    /\ dotenv \in DotEnv
    /\ cfg \in [Keys -> (Values \ {""}) \cup {"default"}]
    /\ phase \in Phases
    /\ phase \in {"load", "exited", "stopped"} <=> cfg = NoConfig
    /\ db \in BOOLEAN
    /\ faults \in 0 .. MaxFaults

Fail(kind) ==
    /\ kind \in Faults
    /\ faults < MaxFaults
    /\ faults' = faults + 1

------------------------------------------------------------------------------
(* config.Load.                                                            *)

\* (Mutant.) The loop looks into one directory less.
FindDotEnvOneShort == dotenv.depth < MaxLevels

FindDotEnv == dotenv.depth <= MaxLevels

\* (Mutant.) godotenv.Overload.
EnvironmentOverloaded ==
    IF FindDotEnv /\ dotenv.parses
    THEN [k \in Keys |-> IF dotenv.vars[k] = "unset" THEN environ[k]
                                                      ELSE dotenv.vars[k]]
    ELSE environ

\* After godotenv.Load, which adds the variables that are not set at all: one
\* that is set to "" stays so.
Environment ==
    IF FindDotEnv /\ dotenv.parses
    THEN [k \in Keys |-> IF environ[k] = "unset" THEN dotenv.vars[k]
                                                 ELSE environ[k]]
    ELSE environ

\* os.Getenv cannot tell the two apart.
Empty(v) == v \in {"unset", ""}

Missing == {k \in Required : Empty(Environment[k])}

\* envIntOrDefault and envDurationOrDefault: what does not parse is the default,
\* and no range is checked.
EnvOrDefault(v) == IF Empty(v) \/ v = "bad" THEN "default" ELSE v

Load ==
    /\ phase = "load"
    /\ IF Missing = {}
       THEN /\ cfg' = [k \in Keys |-> IF k \in Required
                                      THEN Environment[k]
                                      ELSE EnvOrDefault(Environment[k])]
            /\ phase' = "connect"
       ELSE /\ phase' = "exited"
            /\ UNCHANGED cfg
    /\ UNCHANGED <<given, db, faults>>

------------------------------------------------------------------------------
(* main.                                                                   *)

\* The process ends; its configuration goes with it.
Exit(how) == phase' = how /\ cfg' = NoConfig

\* NewPool parses the URL and pings the server; log.Fatal when either fails.
Connect ==
    /\ phase = "connect"
    /\ IF cfg["DATABASE_URL"] # "bad" /\ db
       THEN phase' = "start" /\ UNCHANGED cfg
       ELSE Exit("exited")
    /\ UNCHANGED <<given, db, faults>>

\* time.NewTicker panics in the reconciler's goroutine, which ends the process.
TickersPanic ==
    service = "reconciler" /\ \E k \in Intervals : cfg[k] = "zero"

Start ==
    /\ phase = "start"
    /\ IF TickersPanic
       THEN Exit("exited")
       ELSE phase' = "run" /\ UNCHANGED cfg
    /\ UNCHANGED <<given, db, faults>>

\* The API server cannot listen; log.Fatal.
ListenFails ==
    /\ phase = "start"
    /\ service = "api"
    /\ Fail("listen")
    /\ Exit("exited")
    /\ UNCHANGED <<given, db>>

\* (Mutant.) The signal is waited for before the pool exists.
TerminateAlwaysDrains ==
    /\ phase \notin {"stopped", "drain"}
    /\ Fail("terminate")
    /\ phase' = "drain"
    /\ UNCHANGED <<given, cfg, db>>

\* SIGTERM, from docker stop: until signal.Notify it ends the process at once.
\* Docker does not restart what was stopped by hand.
Terminate ==
    /\ phase \notin {"stopped", "drain"}
    /\ Fail("terminate")
    /\ IF phase \in {"load", "connect", "exited"}
       THEN Exit("stopped")
       ELSE phase' = "drain" /\ UNCHANGED cfg
    /\ UNCHANGED <<given, db>>

\* The API server shuts down; the watcher and the reconciler cancel their context
\* and sleep for 2 and 3 seconds.  Then the pool is closed.
Drained ==
    /\ phase = "drain"
    /\ Exit("stopped")
    /\ UNCHANGED <<given, db, faults>>

\* The process is killed (memory limit, panic outside of a handler), on its own or
\* while docker stop waits for it.
Killed ==
    /\ phase \notin {"exited", "stopped"}
    /\ Fail("kill")
    /\ Exit(IF phase = "drain" THEN "stopped" ELSE "exited")
    /\ UNCHANGED <<given, db>>

------------------------------------------------------------------------------
(* Docker and PostgreSQL (external).                                       *)

\* "restart: always", of a container that ended by itself.
Restart ==
    /\ phase = "exited"
    /\ phase' = "load"
    /\ UNCHANGED <<given, cfg, db, faults>>

\* One that was stopped by hand is started by hand, or never.
StartedAgain ==
    /\ phase = "stopped"
    /\ phase' = "load"
    /\ UNCHANGED <<given, cfg, db, faults>>

DbFails ==
    /\ db
    /\ Fail("db")
    /\ db' = FALSE
    /\ UNCHANGED <<given, cfg, phase>>

DbRecovers ==
    /\ ~db
    /\ db' = TRUE
    /\ UNCHANGED <<given, cfg, phase, faults>>

------------------------------------------------------------------------------

ProcInit ==
    /\ service \in Services
    /\ environ \in Variables
    /\ dotenv \in DotEnv
    /\ cfg = NoConfig
    /\ phase = "load"
    /\ db \in BOOLEAN
    /\ faults = 0

ProcStep == Load \/ Connect \/ Start \/ Drained

ProcNext ==
    \/ ProcStep
    \/ ListenFails \/ Terminate \/ Killed
    \/ Restart \/ StartedAgain \/ DbFails \/ DbRecovers

\* main goes on by itself; Docker restarts what ended by itself; PostgreSQL comes
\* back, for it has the same restart policy.  Nobody has to start what was
\* stopped by hand.
ProcFairness ==
    /\ WF_procVars(ProcStep)
    /\ WF_procVars(Restart)
    /\ WF_procVars(DbRecovers)

ProcSpec == ProcInit /\ [][ProcNext]_procVars /\ ProcFairness

------------------------------------------------------------------------------

\* "Loading order (highest priority first)" (config.go:3): the value a variable
\* has for the service, "" if none.
Effective(k) ==
    IF environ[k] # "unset" THEN environ[k]
    ELSE IF dotenv.depth \in 1 .. 6 /\ dotenv.parses /\ dotenv.vars[k] # "unset"
    THEN dotenv.vars[k]
    ELSE ""

\* A service works only with what it was given: each required variable has the
\* value of the highest source that sets it, even "", and none is empty; the
\* reconciler has intervals that a ticker takes.
RunsConfigured ==
    /\ phase \in {"run", "drain"} =>
          \A k \in Required : cfg[k] = Effective(k) /\ cfg[k] # ""
    /\ phase = "run" /\ service = "reconciler" =>
          \A k \in Intervals : cfg[k] # "zero"

\* The configuration was complete when it was loaded, and stays what it was for
\* as long as main works with it; the tickers were looked at before it runs.
LoadedWhole ==
    phase \notin {"load", "exited", "stopped"} =>
        \A k \in Required : cfg[k] = Effective(k) /\ ~Empty(cfg[k])

TickersFit == phase = "run" => ~TickersPanic

\* What makes RunsConfigured inductive.
ProcInv == LoadedWhole /\ TickersFit

\* What the service needs of its environment in order to run.
WellConfigured ==
    /\ \A k \in Required : Effective(k) # ""
    /\ Effective("DATABASE_URL") # "bad"
    /\ service = "reconciler" => \A k \in Intervals : Effective(k) # "zero"

\* A well configured service is up for good once the faults end, unless it stays
\* stopped by hand: it gives up at once when PostgreSQL is not there or it cannot
\* listen, may be killed, or stopped and started in any phase, and whichever way
\* main ends the next start finds what it needs again.
ComesUp == WellConfigured => <>[](phase = "run") \/ <>[](phase = "stopped")

------------------------------------------------------------------------------
(* What the documents say of the deployment, and the files do not do.      *)

\* deploy/docker-compose.yml: the environment of a container; API_SECRET is among
\* the variables of the api service alone.  No .env is copied into an image.
ComposeEnvironment ==
    /\ environ = [k \in Keys |-> IF k = "API_SECRET" /\ service # "api"
                                 THEN "unset"
                                 ELSE "good"]
    /\ dotenv = [depth |-> MaxLevels + 1, parses |-> TRUE, vars |-> NoConfig]

DeployedSpec ==
    ProcInit /\ ComposeEnvironment /\ [][ProcNext]_procVars /\ ProcFairness

\* "Build and start" (README.md:66): after the steps of the production deployment
\* each of the three services runs.
EveryServiceRuns == <>(phase = "run")

==============================================================================
