SPECIFICATION DeployedSpec
CONSTANTS
    Required <- MCRequired
    Intervals <- MCIntervals
    Faults = {}
    MaxFaults = 0
CHECK_DEADLOCK FALSE
PROPERTY EveryServiceRuns
