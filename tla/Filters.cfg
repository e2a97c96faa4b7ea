SPECIFICATION FilterFairSpec
CONSTANTS
    EventCapacity = 3
    MaxRevision = 5
    MaxAdded = 2
    FilterIDs = {"f"}
    FilterKinds = {"logs", "blocks", "pending"}
    Ranges <- MCRanges
    MaxFilters = 1
    MaxLogResults = 2
    FilterTimeout = 1
    MaxPendingEvents = 4
INVARIANTS
    PolledOnce
    LogsAreCanonical
PROPERTIES
    AbandonedFilterRemoved
