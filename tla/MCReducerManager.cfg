SPECIFICATION FairSpec
CONSTANTS
    NumberOfHosts = 2
    KillTargets <- BothOfHost0
    MaxKillRequests = 3
    ExitingServers <- FirstOfHost0
CHECK_DEADLOCK FALSE
INVARIANTS ServersAreSound
PROPERTIES PortsComeBack ManagerStops DropsOnlyWhatItKilled RequestsAreCarriedOut
