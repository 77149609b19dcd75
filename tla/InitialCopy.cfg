SPECIFICATION FairSpec
CONSTANTS
    TableCount = 2
    KeyCount = 3
    InitialKeys = {1, 3}
    BatchSize = 1
    Setups <- CopySetups
    Renamed = {2}
    MaxLog = 1
INVARIANTS TypeOK SnapshotCovered SnapshotUnmixed VersionsCover
PROPERTY EventuallyRealtime
