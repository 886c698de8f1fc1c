CONSTANTS
    Handlers = {h1, h2}
    Days = {1}
    Today = 1
    Kinds <- FailingKinds
    Noon = 4
    DupWindow = 0
    Corrections = {2}
    MaxClock = 5
    MaxId = 3
SYMMETRY Permutation
SPECIFICATION Spec
INVARIANTS StartIsFirst LeaveHasNoWork EverySessionJustified TotalFromLog
CHECK_DEADLOCK FALSE
