SPECIFICATION Spec
CONSTANTS
    NumberOfHosts = 3
    TotalBandwidth = 10
    DynamicAllocation = TRUE
    Demands <- BusyOrBusier
    SafetyFactor = 1
    Word = 64
    MaxRounds = 1
CHECK_DEADLOCK FALSE
INVARIANTS AllocationIsKnown RoundsMoveBandwidth
