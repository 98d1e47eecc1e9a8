CONSTANTS
    t1 = t1
    t2 = t2
    Threads = {t1, t2}
    NULL = NULL
    MayDo <- OwnerAndPeer
    MsgKinds <- AllMsgs
    RecvKinds <- AllRecvs
    Timeouts = {"never", "zero", "finite"}
    MaxGen = 4
SPECIFICATION UseSpec
INVARIANTS ClaimExclusive LifeCycle 
PROPERTIES  UntimedClaimResolved
CHECK_DEADLOCK FALSE
