SPECIFICATION Spec
CONSTANTS
    NSlots = 3
    CmdsPerSlot = 2
    QD = 3
    MaxActive = 2
    SqDepth = 2
    CidCount = 5
    Modes = {"cross_slot", "tight", "legacy"}
    Leftover = {4}
    Faults = {"error", "slow", "bell", "callback", "abort"}
INVARIANTS
    OwnershipAgrees
    EngineOutlivesAbort
PROPERTIES
    ImplementsSlotWriter
    WriterEnds
