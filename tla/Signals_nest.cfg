SPECIFICATION Spec
CONSTANTS
    User = {a, b}
    Signal = {SIGALRM, SIGUSR2}
    NULL = NULL
INVARIANTS
    IProcessesDoNotNest
CHECK_DEADLOCK FALSE
