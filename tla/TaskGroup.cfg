CONSTANTS
    Callers = {C}
    Loops = {L}
    Parent <- Family
    MaxStops = 2
    MaxJoins = 1
SPECIFICATION Spec
INVARIANTS FinishedIsQuiet
PROPERTIES ShutdownEnds
CHECK_DEADLOCK FALSE
