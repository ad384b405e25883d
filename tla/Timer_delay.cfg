SPECIFICATION FairSpec
CONSTANTS
    Env = {e1, e2, e3}
    Delay = {0, 1, 3}
    MaxTime = 10
INVARIANTS
    ListedOnce
    Sorted
    BoundedLateness
PROPERTIES
    NeverEarly
    ImplementsDelayService
    DelayAnswered
CHECK_DEADLOCK FALSE
