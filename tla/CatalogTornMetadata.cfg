SPECIFICATION Spec
CONSTANTS
    Tasks = {t1, t2}
    Nil = Nil
    NumChannels = 2
    NumSlots = 2
    MaxCaptures = 3
    MaxFaults = 0
    FaultyThreads = {"main", "job"}
    SilentFaults = {}
    MaxCrashes = 1
    MaxJobs = 0
    OperatorWaits = TRUE
CHECK_DEADLOCK FALSE
INVARIANT RangesDisjoint
