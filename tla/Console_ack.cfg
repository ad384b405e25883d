SPECIFICATION FairSpec
CONSTANTS
    Sender = {cci, wallclock}
    NULL = NULL
PROPERTIES
    EveryTextAcknowledged
CHECK_DEADLOCK FALSE
