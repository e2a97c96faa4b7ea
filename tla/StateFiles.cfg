SPECIFICATION FilesSpec
CONSTANTS
    MaxCommits = 1
    MaxDumps = 2
    Loaders = {l}
    Nodes = {n}
    Placeholder = TRUE
    Replaces = TRUE
    Faults = {"rename", "sync", "open"}
INVARIANTS DestinationLoads InstalledKept LoadsReportedDump
CHECK_DEADLOCK FALSE
