SPECIFICATION WebSpec
CONSTANTS
    Folders <- TwoFolders
    Messages = {m1, m2}
    Places = {1, 2}
    MaxSessions = 2
    MaxActs = 2
    NetFaults = {"net", "auth"}
    MaxNetFaults = 2
    MaxInAll = 3
INVARIANTS WebTypeOK ListIsTitled ReaderIsActive
PROPERTIES SignedOutInTheEnd FoldersConverge
CHECK_DEADLOCK FALSE
