SPECIFICATION Spec
CONSTANTS
    Tasks = {t1, t2}
    Nil = Nil
    NumChannels = 2
    NumSlots = 2
    MaxCaptures = 2
    MaxFaults = 1
    FaultyThreads = {"main", "job"}
    SilentFaults = {"fopen", "count", "index", "query"}
    MaxCrashes = 1
    MaxJobs = 1
    OperatorWaits = TRUE
CHECK_DEADLOCK FALSE
INVARIANT ReplicaOrPending
PROPERTIES CommitIsAtomic SuccessMeansBoth MarkerOutlivesDebt
