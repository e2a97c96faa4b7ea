SPECIFICATION Spec
CONSTANTS
    SlotsPerEpoch = 4
    RequestTypes = {"deposit", "withdrawal"}
    Capacity <- TwoDeposits
    PragueSlot = 1
    NativeSlots = {2}
    Commands = {"Mine", "MissSlots", "Snapshot", "Checkpoint"}
    Faults = {"crash", "error"}
    Branches = {}
    Checkpoints = {"c"}
    MaxSlot = 2
    MaxBlocks = 3
    MaxSnapshots = 1
    MaxRequests = 2
INVARIANTS
    MemoryMatchesDisk
    RequestsConserved
    SwitchesAccepted
