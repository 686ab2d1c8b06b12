SPECIFICATION Spec
CONSTANTS
    Chunks = 4
    SlotCounts = {1, 2, 3}
    MaxDownloads = 2
    MaxStops = 2
    Reuse = FALSE
    Faults = {"open", "nvme", "tcp", "halt", "task"}
INVARIANTS
    SendsTheFile
    NoReuseUnderDma
    StopAckEndsSending
PROPERTIES
    DownloadEnds
CHECK_DEADLOCK FALSE
