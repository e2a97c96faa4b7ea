SPECIFICATION StreamSpec
CONSTANTS
    EventCapacity = 2
    MaxRevision = 5
    MaxAdded = 2
    BlockOrdinals = {0, 1}
    OtherOrdinals = {2}
    MaxDrops = 2
INVARIANTS
    LogIsTail
    ReceivedOnce
PROPERTIES
    MessagesArrive
CHECK_DEADLOCK FALSE
