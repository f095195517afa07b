CONSTANTS
    NumberOfHosts = 2
    TotalBandwidth = 5
    DynamicAllocation = FALSE
    Demands <- Idle
    SafetyFactor = 1
    Word = 32
    MaxRounds = 0
SPECIFICATION SharingSpec
INVARIANTS LimitsNeedEveryHost
PROPERTIES StartsOnceAllReport ToldHostsEnforce
CHECK_DEADLOCK FALSE
