SPECIFICATION Spec
CONSTANTS
    MAX_NUM_PROCESSES = 6
    Proc <- CrowdProc
    IProc <- CrowdIProc
    InitPriority <- CrowdPriority
    PROCESS_NULL_PID = 1
    NUM_PRIORITIES = 2
    Env = {e1}
    NULL = NULL
    TailMoves = FALSE
VIEW LiveLinks
INVARIANTS
    QueuesMatchStatus
PROPERTIES
    ImplementsScheduler
