CONSTANTS
    Poppers = {p1, p2, p3}
    MaxPushes = 4
    MaxShutdowns = 2
    MaxThrows = 1
SPECIFICATION Spec
INVARIANTS WakeupsSuffice
PROPERTIES ShutdownReleases
CHECK_DEADLOCK FALSE
