SPECIFICATION Spec
CONSTANTS
    Channels = {0, 1}
    SplitPair = {0, 1}
    MaxTasks = 1
    MaxIdle = 0
    MaxFaults = 0
    Faults = {}
    RejectedPlans = TRUE
INVARIANTS StopAckMeansCommitted
