SPECIFICATION Spec
CONSTANTS
    NSlots = 3
    MaxFrames = 4
    Kinds = {"mid", "eof", "short", "inv", "bad"}
    HarvestMax = 2
    Faults = {"dma", "reset", "ipc", "sched", "nvme", "slow_writer"}
    CrossSlot = FALSE
    MaxActive = 1
    StableScans = 2
INVARIANTS
    TypeOK
    GoodCaptureIsComplete
    MediumHoldsQueuedFrames
    NoRequeueAfterLatch
    OwnersAgree
    NoCloseUnderDma
    NoStaleFetch
PROPERTIES
    EngineWindowShrinksAfterStop
