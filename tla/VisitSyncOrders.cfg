CONSTANTS
    Passes = {p1, p2}
    MaxNotes = 0
    MaxOrders = 2
    MaxFailures = 0
    MaxRetries = 2
    Quiet = TRUE
SPECIFICATION Spec
PROPERTY OrdersLeaveOnceLanded
CHECK_DEADLOCK FALSE
