---------------------------- MODULE MCMailFolders -----------------------------
(* Instances of MailFolders for TLC.                                        *)
EXTENDS MailFolders

OneUid == {1}

OnlyTrash == [op: {"delete"}, permanent: {FALSE}]

NoneListed == {}
ClientNames == {"Trash", "Work"}

EveryFolderFault == {"connect", "refresh", "emit", "crash", "count", "remove", "request"}

==============================================================================
