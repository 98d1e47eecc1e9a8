CONSTANTS
    Producers = {p1, p2}
    NULL = NULL
    Capacity = 2
    Modulus = 32
    Starts <- MCStarts
    MaxCalls = 3
SPECIFICATION FairSpec
INVARIANT SlotExclusive
PROPERTIES ImplementsFifo Delivered
CHECK_DEADLOCK FALSE
