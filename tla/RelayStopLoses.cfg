SPECIFICATION Spec
CONSTANTS
    Schemas = {"a", "other"}
    Databases = {"a"}
    Transactions <- QueryTransactions
    RecordsPerFile = 1
    PreserveFiles = 0
    SearchWindow = 10
    SavedPosition = 1
    MaxLog = 3
    MaxCrashes = 0
    MaxStops = 2
INVARIANTS EveryEventRelayed
