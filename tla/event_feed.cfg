SPECIFICATION FeedSpec
CONSTANTS
    Uids <- MCUids
    Requests = {r1}
    Calls <- ReadAndStar
    Faults <- FeedFaults
    MaxFaults = 1
    Unparsable = {}
    Unstorable = {}
    Unquotable = {}
    Limit = 2
INVARIANT FeedTypeOK
PROPERTIES PassComplete HoldsWholeLog
