CONSTANTS
    Callers = {c1}
    Workers = {w1, w2}
    Plans <- Programs
    Handlers = {"inline", "queue", "drop", "throw"}
    MaxCancels = 1
SPECIFICATION ChainSpec
INVARIANTS OutcomeFollows NoneForgotten ChainSerialized
PROPERTIES AllSettle
CHECK_DEADLOCK FALSE
