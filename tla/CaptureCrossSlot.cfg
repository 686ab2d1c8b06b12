SPECIFICATION Spec
CONSTANTS
    NSlots = 2
    MaxFrames = 4
    Kinds = {"mid", "eof"}
    HarvestMax = 2
    Faults = {"nvme", "slow_writer", "ipc"}
    CrossSlot = TRUE
    MaxActive = 2
    StableScans = 1
INVARIANTS
    NoCloseUnderNvme
    WriterLeavesNothing
    OwnersAgree
PROPERTIES
    StopEnds
