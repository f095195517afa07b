CONSTANTS
    PodCounts = {2, 3, 4}
    CrashingPodCounts = {2}
    LocalControllers = {"controller", "ovs-testcontroller"}
    MaxRuns = 2
SPECIFICATION Spec
INVARIANTS NetworkIsBuilt SwitchesQueueByTos AgentsReachTheAdaptor StopLeavesNothing CleanupMakesRoom PortsIdentifyTheLinks
