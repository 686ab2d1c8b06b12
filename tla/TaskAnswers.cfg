SPECIFICATION Spec
CONSTANTS
    Channels = {0, 1}
    SplitPair = {0, 1}
    MaxTasks = 1
    MaxIdle = 1
    MaxFaults = 1
    Faults = {"crash", "hang", "resume"}
    RejectedPlans = TRUE
PROPERTIES StopAnswered StartAnswered
