SPECIFICATION Spec
CONSTANTS
    Schemas = {"a", "other"}
    Databases = {"a"}
    Transactions <- MixedTransactions
    RecordsPerFile = 2
    PreserveFiles = 0
    SearchWindow = 10
    SavedPosition = 0
    MaxLog = 4
    MaxCrashes = 1
    MaxStops = 1
INVARIANTS TypeOK NoSilentLoss SavedPositionsCovered RelayFilesSorted CheckpointFound
PROPERTIES RelayAppendOnly UnreadEventsKept
