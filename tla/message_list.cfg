SPECIFICATION ListSpec
CONSTANTS
    Uids <- MCUids
    Requests = {r1}
    Calls <- Moves
    Faults = {"page"}
    MaxFaults = 1
    Unparsable = {}
    Unstorable = {}
    Unquotable = {}
    Limit = 1
    Dates = {0, 1, 2}
INVARIANTS ListTypeOK PagesMissNothing ListedCanBeOpened
