CONSTANTS
    Programs <- Mixed
    Posters = {p1}
    MaxDepth = 1
    MaxTime = 1
    MaxEvents = 1
SPECIFICATION Safe
INVARIANTS BatchBudget OneShot
PROPERTIES ResetSilences
CHECK_DEADLOCK FALSE
