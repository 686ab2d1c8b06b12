SPECIFICATION Spec
CONSTANTS
    Tasks = {t1}
    Nil = Nil
    NumChannels = 2
    NumSlots = 2
    MaxCaptures = 2
    MaxFaults = 1
    FaultyThreads = {"main", "job"}
    SilentFaults = {"fopen", "count", "index", "query"}
    MaxCrashes = 0
    MaxJobs = 1
    OperatorWaits = FALSE
CHECK_DEADLOCK FALSE
PROPERTIES CommitEnds JobEnds
