SPECIFICATION BatchSpec
CONSTANTS
    Batches = {b1}
    Paths <- MCPaths
    Announced = {0, 1}
    MaxSize = 2
    MaxEntries = 3
    Parallel = 2
    Faults = {"cut", "close", "remove", "crash"}
CHECK_DEADLOCK FALSE
INVARIANTS LeftoverHasCause CompleteAtTx TreeFollowsManifest
PROPERTIES CleanupEnds
