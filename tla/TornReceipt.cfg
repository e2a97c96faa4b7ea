SPECIFICATION SyncSpec
CONSTANTS
    EventCapacity = 2
    MaxRevision = 6
    MaxAdded = 1
INVARIANTS
    ReceiptIsWhole
CHECK_DEADLOCK FALSE
