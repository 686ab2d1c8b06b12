SPECIFICATION Spec
CONSTANTS
    NSlots = 2
    MaxFrames = 2
    Kinds = {"eof"}
    HarvestMax = 1
    Faults = {"nvme"}
    CrossSlot = FALSE
    MaxActive = 1
    StableScans = 1
INVARIANTS
    NoCloseUnderNvme
