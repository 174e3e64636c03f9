-------------------------- MODULE MCWatchSupervisor ---------------------------
(* Instances of WatchSupervisor for TLC.                                     *)
EXTENDS WatchSupervisor

EveryRunFault == {"list", "crash", "dial", "scan", "body", "idle"}

==============================================================================
