CONSTANTS
    Handlers = {h1}
    Days = {0, 1, 2}
    Today = 2
    Kinds <- DayKinds
    Noon = 3
    DupWindow = 1
    Corrections = {1}
    MaxClock = 6
    MaxId = 4
    CorrectedUntil = 4
SPECIFICATION DaySpec
ACTION_CONSTRAINT DayUses
INVARIANT RedisTellsTheDay
PROPERTIES ImplementsDayMachine EndedTotalIsFresh WorkLostOnlyWithLeave
CHECK_DEADLOCK FALSE
