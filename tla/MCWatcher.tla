------------------------------ MODULE MCWatcher -------------------------------
(* Instances of Watcher alone for TLC.                                      *)
EXTENDS Watcher

OneUid == {1}
FiveUids == 1 .. 5

\* Faults a later scan makes up for, and the end of the process.
Transient == {"connect", "idle", "headers", "query", "truncated", "upsert", "body",
              "crash"}

==============================================================================
