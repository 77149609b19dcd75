SPECIFICATION FairSpec
CONSTANTS
    Schemas = {"a", "other"}
    Databases = {"a"}
    Transactions <- QueryTransactions
    RecordsPerFile = 2
    PreserveFiles = 0
    SearchWindow = 10
    SavedPosition = 0
    MaxLog = 3
    MaxCrashes = 1
    MaxStops = 1
PROPERTY EventuallyRelayed
