SPECIFICATION Spec
CONSTANTS
    Tables = {"a", "b"}
    Keys = {"k", "l"}
    Statements <- AllStatements
    InitialTables = {"a"}
    EraseBatchSize = 1
    MaxLog = 3
    MaxReplays = 1
    MaxStops = 1
    MaxCrashes = 1
INVARIANTS TypeOK CheckpointSent StructureKnown KeysInSync
