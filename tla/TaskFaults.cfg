SPECIFICATION Spec
CONSTANTS
    Channels = {0, 1}
    SplitPair = {0, 1}
    MaxTasks = 1
    MaxIdle = 1
    MaxFaults = 1
    Faults = {"fork", "boot", "gate", "boundary", "worker", "event", "bad", "crash", "deadline", "db"}
    RejectedPlans = FALSE
INVARIANTS CommitOnlyWhole RunBarrier QuietIsReady
INVARIANTS StopAckMeansCommitted FailureHasCause
