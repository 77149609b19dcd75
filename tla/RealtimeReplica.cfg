SPECIFICATION Spec
CONSTANTS
    Tables = {"a", "b"}
    Keys = {"k", "l"}
    Statements <- ReplicaStatements
    InitialTables = {"a", "b"}
    EraseBatchSize = 1
    MaxLog = 4
    MaxReplays = 1
    MaxStops = 1
    MaxCrashes = 0
PROPERTY ImplementsReplica
