SPECIFICATION WSpec
CONSTANTS
    Uids <- OneUid
    Unparsable = {}
    Unstorable = {}
    Unquotable = {}
    Faults = {"crash"}
    MaxFaults = 1
PROPERTY NewMessagesAnnounced
