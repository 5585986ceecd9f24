CONSTANTS
    Threads = {A, B}
    N = 2
    Void = FALSE
    Schedulers = {"inline", "queue", "reject"}
    MaxStops = 2
SPECIFICATION Spec
INVARIANTS JoinOutlivesChildren FailurePropagates
PROPERTIES FailureDrains
CHECK_DEADLOCK FALSE
