SPECIFICATION AppFairSpec
CONSTANTS
    Proc <- AppProc
    itable <- AppTable
    NULL = NULL
    Leftover = Leftover
    NULL_PID = "null"
    SysPid <- AppSysPid
    TIMER_I_PROCESS_PID = "timer"
    UART_I_PROCESS_PID = "uart"
    CCI_PID = "cci"
    WALLCLOCK_PID = "wallclock"
    PROC_A_PID = "a"
    PROC_B_PID = "b"
    PROC_C_PID = "c"
    NUM_PRIORITIES = 3
    Env = {e1, e2, e3, e4, e5, e6, e7, e8, e9}
    SysEnv = {s1}
    Target = {"wallclock", "cci"}
    Delay = {}
    Text = {}
    Line <- AppLine
    MaxTime = 3
    ONE_SECOND_DELAY = 1
    TEN_SECONDS = 1
    PERIOD = 2
    Counts = 4
    TableRows = 1
    Keys <- AppKeys
INVARIANTS
    EnvelopesInHand
PROPERTIES
    CountsInOrder
    CommandsEnd
