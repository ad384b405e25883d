SPECIFICATION Spec
CONSTANTS
    MAX_NUM_PROCESSES = 6
    Proc <- MixedProc
    IProc <- MixedIProc
    InitPriority <- MixedPriority
    PROCESS_NULL_PID = 1
    NUM_PRIORITIES = 2
    Env = {e1, e2}
    NULL = NULL
    TailMoves = FALSE
VIEW LiveLinks
INVARIANTS
    TypeOK
    StatusFollowsProcessor
    InterruptedComesBack
    NullProcessStandsBy
    UnqueuedHasNoLink
    EnvelopesConserved
    NoEnvelopeIdleWhileOneSleeps
    NoSleepOverMail
PROPERTIES
    MostUrgentDispatched
    MostUrgentWaiterWoken
