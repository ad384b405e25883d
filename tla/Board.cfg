SPECIFICATION FairSpec
CONSTANTS
    Proc <- BoardProc
    itable <- BoardTable
    NULL = NULL
    Leftover = Leftover
    NULL_PID = "null"
    SysPid <- BoardSysPid
    TIMER_I_PROCESS_PID = "timer"
    UART_I_PROCESS_PID = "uart"
    CCI_PID = "cci"
    NUM_PRIORITIES = 2
    Env = {e1}
    SysEnv = {s1}
    Target = {"user", "cci"}
    Delay = {0, 1}
    Text = {1}
    Line = {0}
    MaxTime = 3
INVARIANTS
    TypeOK
    EnvelopesAccounted
    ReportMatchesQueues
    NobodySleepsOverWork
    MaskFollowsOutput
PROPERTIES
    ImplementsDelayService
    TextsLoadedOrSilenced
