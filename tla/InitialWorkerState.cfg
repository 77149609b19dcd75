SPECIFICATION Spec
CONSTANTS
    TableCount = 2
    KeyCount = 3
    InitialKeys = {1, 3}
    BatchSize = 1
    Setups <- RestartedSetups
    Renamed = {2}
    MaxLog = 1
INVARIANT SnapshotCovered
