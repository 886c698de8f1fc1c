CONSTANTS
    Fixes = {1, 2}
    Uploaders = {engine, flush}
    Engine = engine
    Requests = {q1, q2}
    BatchSize = 2
    MaxFailures = 2
    Crashes = TRUE
    Patient = FALSE
    Expiring = {1}
SPECIFICATION FairSpec
INVARIANTS InsertedOnce SyncedIsStored
PROPERTY AllUploaded
CHECK_DEADLOCK FALSE
