------------------------------ MODULE MCMailSync ------------------------------
(* Instances of MailSync for TLC.                                           *)
EXTENDS MailSync, TLC

MCUids == {1, 2}
ThreeUids == 1 .. 3

Symmetry == Permutations(Requests)

Patch(isRead, isStarred) ==
    [op |-> "patch", is_read |-> isRead, is_starred |-> isStarred]

DeleteCall(permanent) == [op |-> "delete", permanent |-> permanent]

\* One call of each kind of effect.
EachCall == {Patch("true", "true"), Patch("false", "absent"),
             DeleteCall(FALSE), DeleteCall(TRUE)}

\* The calls that change what the scan sees.
ReadAndTrash == {Patch("true", "absent"), DeleteCall(FALSE)}

AllFaults == {"connect", "idle", "headers", "query", "upsert", "body",
              "insert", "emit", "crash", "lookup", "update", "abort"}
EveryFault == AllFaults \cup {"truncated"}

==============================================================================
