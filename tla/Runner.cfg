SPECIFICATION FairSpec
CONSTANTS
    Databases <- TwoDatabases
    WaitInitialReplication = TRUE
    MaxRequests = 2
    MaxDeaths = 1
    MaxChanges = 1
INVARIANTS TypeOK OneInitialAtATime AnsweredAfterRestart NoOrphans
PROPERTIES DatabasesServed RequestsAnswered SignalEnds
CHECK_DEADLOCK FALSE
