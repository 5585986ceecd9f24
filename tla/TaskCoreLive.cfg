CONSTANTS
    Threads = {A, B}
    Kinds <- Waits
    Schedulers = {"inline", "queue", "reject"}
    MaxStops = 1
SPECIFICATION Spec
PROPERTIES ClaimedResumes StopCompletes
CHECK_DEADLOCK FALSE
