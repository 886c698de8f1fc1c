CONSTANTS
    Requests = {r1, r2}
    LastDay = 2
    LastPart = 1
    MaxVisits = 1
    MaxTasks = 1
SYMMETRY Symmetry
SPECIFICATION ReportSpec
INVARIANTS DraftPastCutoffIsLate SubmittedOnce UnattendedEndIsSubmitted
CHECK_DEADLOCK FALSE
