CONSTANTS
    Threads = {A, B}
    N = 2
    Void = TRUE
    Schedulers = {"inline", "queue", "reject"}
    MaxStops = 1
SPECIFICATION Spec
INVARIANTS FailurePropagates
CHECK_DEADLOCK FALSE
