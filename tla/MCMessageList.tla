---------------------------- MODULE MCMessageList -----------------------------
(* Instances of MessageList for TLC.                                         *)
EXTENDS MessageList

MCUids == {1, 2}

Patch(isRead) == [op |-> "patch", is_read |-> isRead, is_starred |-> "absent"]
Trash == [op |-> "delete", permanent |-> FALSE]

\* The calls that take a row out of a listing, or put it back.
Moves == {Patch("true"), Patch("false"), Trash}

==============================================================================
