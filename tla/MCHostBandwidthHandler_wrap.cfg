SPECIFICATION Spec
CONSTANTS
    NumberOfHosts = 3
    TotalBandwidth = 10
    DynamicAllocation = TRUE
    Demands <- IdleOrBusy
    SafetyFactor = 1
    Word = 64
    MaxRounds = 3
CHECK_DEADLOCK FALSE
INVARIANTS GuaranteesFitTheTenant
