CONSTANTS
    Programs <- Waiting
    Posters = {p1}
    MaxDepth = 1
    MaxTime = 1
    MaxEvents = 0
SPECIFICATION Spec
PROPERTIES TasksRun TimersRun AwaitsEnd
CHECK_DEADLOCK FALSE
