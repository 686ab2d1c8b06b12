SPECIFICATION Spec
CONSTANTS
    Tasks = {t1, t2}
    Nil = Nil
    NumChannels = 2
    NumSlots = 2
    MaxCaptures = 2
    MaxFaults = 1
    FaultyThreads = {"main", "job"}
    SilentFaults = {"count"}
    MaxCrashes = 0
    MaxJobs = 1
    OperatorWaits = TRUE
CHECK_DEADLOCK FALSE
PROPERTY OnlyNamedFilesGo
