CONSTANTS
    c0 = c0
    c1 = c1
    c2 = c2
    NULL = NULL
    Cores = {c0, c1, c2}
    BSP = c0
    Peers <- Line
    RingSize = 3
    MaxSends = 3
SPECIFICATION Spec
INVARIANTS Kept 
CHECK_DEADLOCK FALSE
