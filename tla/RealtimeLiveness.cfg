SPECIFICATION FairSpec
CONSTANTS
    Tables = {"a"}
    Keys = {"k", "l"}
    Statements <- RestartableStatements
    InitialTables = {}
    EraseBatchSize = 1
    MaxLog = 3
    MaxReplays = 1
    MaxStops = 1
    MaxCrashes = 1
PROPERTY EventuallyUploaded
