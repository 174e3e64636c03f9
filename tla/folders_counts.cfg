SPECIFICATION FoldersSpec
CONSTANTS
    Uids <- OneUid
    Requests = {r1}
    Calls <- OnlyTrash
    Faults = {}
    MaxFaults = 0
    Unparsable = {}
    Unstorable = {}
    Unquotable = {}
    Listed <- NoneListed
    Syncs = {s1, s2}
    FolderRequests = {q1}
    FolderNames <- ClientNames
    FolderFaults <- EveryFolderFault
    MaxFolderFaults = 1
INVARIANT FolderTypeOK
PROPERTIES MailFoldersStay CountsConverge
