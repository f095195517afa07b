CONSTANTS
    Agents = {host}
    Guarantees = {0, 1, 2}
    Word = 16
    MaxBytes = 1
SPECIFICATION FairSpec
INVARIANTS QueuesEnforceTheGuarantee
PROPERTIES SpikesPass
CHECK_DEADLOCK FALSE
