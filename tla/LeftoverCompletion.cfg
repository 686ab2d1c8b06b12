SPECIFICATION Spec
CONSTANTS
    NSlots = 2
    CmdsPerSlot = 2
    QD = 2
    MaxActive = 2
    SqDepth = 2
    CidCount = 5
    Modes = {"cross_slot", "tight"}
    Leftover = {1}
    Faults = {}
PROPERTIES
    ImplementsSlotWriter
