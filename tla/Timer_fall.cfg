SPECIFICATION Spec
CONSTANTS
    Env = {e1, e2, e3}
    Delay = {0, 1, 3}
    MaxTime = 6
INVARIANTS
    InsertionPointFound
CHECK_DEADLOCK FALSE
