SPECIFICATION FairSpec
CONSTANTS
    Sender = {cci, wallclock, c}
    NULL = NULL
INVARIANTS
    TypeOK
PROPERTIES
    ImplementsDisplay
    BufferStable
    EveryTextShown
CHECK_DEADLOCK FALSE
