CONSTANTS
    Farmers = {f1}
    LastDay = 2
    MaxStops = 1
    MaxRows = 3
    MaxInFlight = 2
    Apart = TRUE
SPECIFICATION Spec
INVARIANTS LeaveStrandsNothing VisitedIsNotPlanned NoDuplicateFollowUp
PROPERTIES WarmVisitIsFollowedUp
CHECK_DEADLOCK FALSE
