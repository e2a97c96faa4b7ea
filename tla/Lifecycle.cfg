SPECIFICATION Spec
CONSTANTS
    Starters = {"s"}
    Closers = {"x", "y"}
    IPCClients = {"i"}
    HTTPClients = {"h"}
    Embedders = {}
    Calls = {"execute", "subscribe"}
    StartupFaults = {"ipc", "http"}
    ServerFaults = TRUE
    Panics = TRUE
INVARIANTS
    StorageClosedLast
    EndIsReported
PROPERTIES
    OneShot
    CallsReturn
CHECK_DEADLOCK FALSE
