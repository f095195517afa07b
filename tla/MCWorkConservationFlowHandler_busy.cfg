SPECIFICATION FairSpec
CONSTANTS
    Rates <- SomeRates
    Guarantees <- OneGuarantee
    InverseFactor = 20
PROPERTIES BusyHostsAreNotSufficient
