SPECIFICATION Spec
CONSTANTS
    Uids <- MCUids
    Requests = {r1, r2}
    Calls <- EachCall
    Faults <- AllFaults
    MaxFaults = 1
    Unparsable = {}
    Unstorable = {}
    Unquotable = {}
SYMMETRY Symmetry
INVARIANTS TypeOK EventsBacked RepeatOnlyAfterTrash AnnouncedAtMostTwice ReadHasCause
PROPERTY ImplementsLifecycle
