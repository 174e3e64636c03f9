SPECIFICATION ProcSpec
CONSTANTS
    Required <- MCRequired
    Intervals <- MCIntervals
    Faults <- EveryFault
    MaxFaults = 2
CHECK_DEADLOCK FALSE
INVARIANTS ProcTypeOK RunsConfigured
PROPERTY ComesUp
