INIT Init
NEXT Next
CONSTANTS
    INPUT_BUFFER_SIZE = 6
    CR = CR
    HOTKEY = HOTKEY
    Char = {x, y}
    MaxLine = 6
    IPC_MESSAGE_TRACE_HISTORY_SIZE = 4
    UINT32 = 16
    NONE = NONE
    Event = {m1, m2}
    TICKS = 2
    Command <- TheCommands
    MaxNow = 12
    KEYBOARD_BUF_SIZE = 2
    Key = {x, y}
    MaxTyped = 3
    MaxRequests = 1
INVARIANTS
    LineReachesCci
    TraceInOrder
    ShowsTheTime
    LineReadAsTyped
