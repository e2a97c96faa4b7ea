SPECIFICATION CallSpec
CONSTANTS
    EventCapacity = 2
    MaxRevision = 5
    MaxAdded = 1
    Amounts = {0, 1, 2, 3, 4, 5, 6}
    RPCGasCap = 5
    MaxUint = 7
    MaxSimulateBlocks = 3
    TimeIncrement = 2
    Bases <- MCBases
    Numbers = {3, 7}
    Times = {4, 7}
    GasLimits = {3, 5}
    GasCap = 5
    CallGas = {2, 4}
    Needs = {2, 3}
    IntrinsicGas = 2
    MaxResponseBytes = 8
    MaxRequested = 2
    MaxCalls = 2
    MaxTotalCalls = 3
    Callers = {"send", "sign", "simulate", "trace"}
INVARIANTS
    EstimateExact
    SimulationSound
    BuildsWhole
PROPERTIES
    SyncReturns
CHECK_DEADLOCK FALSE
