CONSTANTS
    PrivateDirs <- Dirs
    Bound <- BoundDirs
    MaxBytes = 2
    PtySize = 3
    MaxOutput = 2
    MaxNoise = 1
    MaxCmds = 2
    PipeSize = 2
    ReadSize = 2
    MaxWrites = 4
SPECIFICATION FairShellSpec
INVARIANTS NodeIsReady OutputIsComplete AnswersAreTheCommands
PROPERTIES EveryOperationReturns
CHECK_DEADLOCK FALSE
