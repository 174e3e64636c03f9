----------------------------- MODULE MCEventFeed ------------------------------
(* Instances of EventFeed for TLC.                                           *)
EXTENDS EventFeed

MCUids == {1, 2}

Patch(isRead, isStarred) ==
    [op |-> "patch", is_read |-> isRead, is_starred |-> isStarred]

ReadAndStar == {Patch("true", "true")}

\* Every fault of the writers and of the page that is read.
FeedFaults == {"connect", "idle", "headers", "query", "truncated", "upsert", "body",
               "insert", "emit", "crash", "lookup", "update", "abort", "rollback",
               "page"}

==============================================================================
