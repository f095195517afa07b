SPECIFICATION FairSpec
CONSTANTS
    Rates <- SomeRates
    Guarantees <- SomeGuarantees
    InverseFactor = 20
INVARIANTS FlowIsSound
PROPERTIES CongestionKeepsItOff NewFlowsAreDecided
