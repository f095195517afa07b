CONSTANTS
    Hosts = {"h1", "h2"}
    Clients <- ClientSets
    WorkFiles <- Files
    Threshold = 2
    Directories <- Names
    MaxRuns <- Runs
    MaxLeft = 1
SPECIFICATION Spec
INVARIANTS LogsAreSound ResultsAreOfThisTest DoneJobsAreMeasured EvaluationCanBeRepeated
CHECK_DEADLOCK FALSE
