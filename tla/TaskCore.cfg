CONSTANTS
    Threads = {A, B, C}
    Kinds <- AllKinds
    Schedulers = {"inline", "queue", "reject"}
    MaxStops = 1
SPECIFICATION Safe
SYMMETRY Symmetry
INVARIANTS OneRunner OneTicketEach CallableKeepsFrame CompletedIsQuiet
CHECK_DEADLOCK FALSE
