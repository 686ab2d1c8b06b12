SPECIFICATION Spec
CONSTANTS
    NSlots = 3
    MaxFrames = 4
    Kinds = {"eof"}
    HarvestMax = 2
    Faults = {}
    CrossSlot = TRUE
    MaxActive = 2
    StableScans = 2
INVARIANTS
    GoodCaptureIsComplete
