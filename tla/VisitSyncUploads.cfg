CONSTANTS
    Passes = {p1}
    MaxNotes = 2
    MaxOrders = 2
    MaxFailures = 2
    MaxRetries = 2
    Quiet = TRUE
SPECIFICATION FairSpec
INVARIANTS NothingSavedIsLost CompleteComesLast OnceUnlessLost CustomerStaysResolvable
PROPERTY Drains
CHECK_DEADLOCK FALSE
