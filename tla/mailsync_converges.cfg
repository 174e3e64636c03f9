SPECIFICATION Spec
CONSTANTS
    Uids <- ThreeUids
    Requests = {r1, r2}
    Calls <- ReadAndTrash
    Faults <- EveryFault
    MaxFaults = 1
    Unparsable = {3}
    Unstorable = {1}
    Unquotable = {}
INVARIANT BodylessOnlyAfterTrash
PROPERTY ViewConverges
\* Extracting the body of message 3 never ends.
CHECK_DEADLOCK FALSE
