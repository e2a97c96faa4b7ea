SPECIFICATION SubscriptionSpec
CONSTANTS
    EventCapacity = 2
    MaxRevision = 4
    MaxAdded = 2
    Clients = {"c"}
    Streams = {"newHeads", "logs", "newPendingTransactions"}
    Ranges <- MCRanges
    MaxSubscriptions = 1
    MaxPendingEvents = 1
INVARIANTS
    StreamHasNoHole
PROPERTIES
    EventsArrive
    GoroutinesEnd
CHECK_DEADLOCK FALSE
