SPECIFICATION FairSpec
CONSTANTS
    NumberOfHosts = 3
    BytesPerHost = 2
    MaximumJobsPerTest = 3
    DynamicBWG = TRUE
    JobNames = {"a", "b", "c", "y", "z"}
    EmptyLine = EmptyLine
    WorkFiles <- ThreeHostFiles
INVARIANTS SlotsAreSound JobsArePlaced RunIsComplete
PROPERTIES ImplementsSlotPool TakenJobStarts RunEnds
