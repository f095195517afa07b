SPECIFICATION FairSpec
CONSTANTS
    NumberOfMappers = 3
    RetryThreshold = 4
    MaxSamePasses = 3
INVARIANTS ClientsAreReaped DoneMeansAllSucceeded ReducersAreAskedInTime AttemptsAreBounded
PROPERTIES JobEnds
