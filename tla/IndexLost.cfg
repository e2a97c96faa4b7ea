SPECIFICATION Spec
CONSTANTS
    SlotsPerEpoch = 4
    RequestTypes = {"withdrawal"}
    Capacity <- OneEach
    PragueSlot = 0
    NativeSlots = {}
    Commands = {"Mine"}
    Faults = {"crash"}
    Branches = {"x"}
    Checkpoints = {}
    MaxSlot = 2
    MaxBlocks = 4
    MaxSnapshots = 0
    MaxRequests = 0
INVARIANTS
    StoredIndexCoversChain
