SPECIFICATION Spec
CONSTANTS
    Tasks = {t1, t2}
    Nil = Nil
    NumChannels = 2
    NumSlots = 2
    MaxCaptures = 3
    MaxFaults = 1
    FaultyThreads = {"main"}
    SilentFaults = {"fopen"}
    MaxCrashes = 0
    MaxJobs = 1
    OperatorWaits = TRUE
CHECK_DEADLOCK FALSE
INVARIANT RangesDisjoint
