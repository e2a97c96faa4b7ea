SPECIFICATION Spec
SYMMETRY RecipientSymmetry
CONSTANTS
    a = a
    b = b
    Senders <- MCSenders
    Tx <- MCTx
    Order = "fifo"
    BlockCapacity = 2
    LowBaseFee = 7
    HighBaseFee = 12
    MaxWithdrawals = 2
    MaxRequests = 2
    Recipients = {r1, r2}
    MaxArrivals = 2
    MaxBlocks = 1
    Commands = {"manual", "transaction", "interval", "send", "mine", "automine", "miner", "drop", "withdrawal", "recipient", "restore"}
    Faults = {"build", "journal", "apply", "rebuild"}
INVARIANTS
    QueuesAreAccepted
    ViewExact
    InArrivalOrder
    BlobsKept
    WithdrawalIndexesContiguous
    TickerFollowsMode
CHECK_DEADLOCK FALSE
