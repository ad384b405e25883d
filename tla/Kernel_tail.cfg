SPECIFICATION Spec
CONSTANTS
    MAX_NUM_PROCESSES = 6
    Proc <- MixedProc
    IProc <- MixedIProc
    InitPriority <- MixedPriority
    PROCESS_NULL_PID = 1
    NUM_PRIORITIES = 2
    Env = {e1}
    NULL = NULL
    TailMoves = TRUE
INVARIANTS
    UnqueuedHasNoLink
