SPECIFICATION Spec
CONSTANTS
    NO_NEW_ORDER = 2
    MaxTime = 5
    MaxOrders = 2
    MaxSnapshot = 4
    MaxDays = 0
    CanCrash = FALSE
    None = None
CHECK_DEADLOCK FALSE
INVARIANTS
    ResetOnlyByGrowth
