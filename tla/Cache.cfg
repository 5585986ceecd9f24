CONSTANTS
    Keys = {J, K}
    Half = 2
    MaxLoads = 2
    MaxDepth = 2
SPECIFICATION CacheSpec
INVARIANTS CacheContract
CHECK_DEADLOCK FALSE
