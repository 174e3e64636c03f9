----------------------------- MODULE MCProcesses ------------------------------
(* Instances of Processes for TLC.                                           *)
EXTENDS Processes

\* Two of the four required variables (the others are treated alike), and one of
\* the two intervals.
MCRequired == {"DATABASE_URL", "API_SECRET"}
MCIntervals == {"RECONCILER_LIGHT_INTERVAL"}

EveryFault == {"listen", "terminate", "kill", "db"}

==============================================================================
