CONSTANTS
    Rows = {1, 2, 3, 4, 5}
    Table <- DayTable
    Customer <- DayCustomer
    Verdicts <- DayVerdicts
    MaxRetries = 2
    MaxFailures = 1
    MaxTouches = 1
    BatchSize = 2
SPECIFICATION FairSpec
INVARIANTS LeavesOnceLanded CustomerComesFirst
PROPERTY Settles
CHECK_DEADLOCK FALSE
