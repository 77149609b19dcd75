SPECIFICATION Spec
CONSTANTS
    Databases = {d1, d2}
    RecordsPerFile = 2
    EventsPerBinlog = 2
    MaxLog = 3
    MaxLosses = 1
    MaxFailures = 1
    MaxCrashes = 2
INVARIANTS TypeOK CheckpointsFound
PROPERTIES NoEventSkipped FailureRestores RebuiltToPosition
CHECK_DEADLOCK FALSE
SYMMETRY DatabaseSymmetry
