SPECIFICATION WSpec
CONSTANTS
    Uids <- FiveUids
    Unstorable = {1}
    Unquotable = {3}
    Unparsable = {5}
    Faults <- Transient
    MaxFaults = 2
PROPERTY EveryMessageAnnounced
\* Extracting the body of message 5 never ends.
CHECK_DEADLOCK FALSE
