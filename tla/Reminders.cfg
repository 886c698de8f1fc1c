CONSTANTS
    Workers = {w1, w2}
    Dues = {d1}
    Day = 8
    Morning = 2
    LastSlot = 15
    MaxDeaths = 1
SPECIFICATION Spec
INVARIANTS RemindedOnce RemindedInAdvance
PROPERTIES OnlyARunOvertakes
CHECK_DEADLOCK FALSE
