CONSTANTS
    Callers = {c1}
    Tasks = {t1, t2}
    NumWorkers = 2
    MaxGen = 2
    NoTask = NoTask
SPECIFICATION Spec
INVARIANTS TypeOK NoStrandedWaiter NoLostWakeup DrainedBeforeExit
PROPERTIES StopDrains ImplementsExecutor AcceptedTasksFinish GenerationRetires StopsReturn
CHECK_DEADLOCK FALSE
