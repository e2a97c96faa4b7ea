SPECIFICATION Spec
CONSTANTS
    SlotsPerEpoch = 1
    RequestTypes = {"withdrawal"}
    Capacity <- OneEach
    PragueSlot = 2
    NativeSlots = {}
    Commands = {"Mine", "ApplyControl", "PauseFinality"}
    Faults = {"crash", "torn"}
    Branches = {"x"}
    Checkpoints = {}
    MaxSlot = 4
    MaxBlocks = 5
    MaxSnapshots = 0
    MaxRequests = 1
INVARIANTS
    SafetyExact
    FollowerAtHead
    StateComplete
    StartSucceeds
    ReadersStayCanonical
PROPERTIES
    FinalizedHistoryKept
    SessionTaintMonotonic
    AnnouncedFinality
