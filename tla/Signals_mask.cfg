SPECIFICATION FairSpec
CONSTANTS
    User = {a, b}
    Signal = {SIGALRM, SIGUSR1, SIGUSR2}
    NULL = NULL
INVARIANTS
    TypeOK
    PrimitivesNotInterrupted
    UserCodeInterruptible
PROPERTIES
    SignalsHandled
CHECK_DEADLOCK FALSE
