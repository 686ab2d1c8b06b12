SPECIFICATION Spec
CONSTANTS
    Tasks = {t1}
    Nil = Nil
    NumChannels = 2
    NumSlots = 2
    MaxCaptures = 2
    MaxFaults = 0
    FaultyThreads = {}
    SilentFaults = {}
    MaxCrashes = 0
    MaxJobs = 1
    OperatorWaits = FALSE
CHECK_DEADLOCK FALSE
INVARIANT RangesDisjoint
