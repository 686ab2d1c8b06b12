SPECIFICATION Spec
CONSTANTS
    Channels = {0, 1, 2}
    SplitPair = {0, 1}
    MaxTasks = 1
    MaxIdle = 1
    MaxFaults = 1
    Faults = {"resume"}
    RejectedPlans = FALSE
INVARIANTS FailureHasCause
