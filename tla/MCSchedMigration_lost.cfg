SPECIFICATION Spec
CONSTANTS
    t1 = t1
    t2 = t2
    NONE = NONE
    Cores = {0, 1}
    Threads = {t1, t2}
    Home <- MCHome
    Prio <- MCPrio
    Migrators <- MCMigrators
    Wakers <- MCWakers
    Balancer = 0
    Uses <- MCUses
    RingCap = 1
    EntityCap = 1
    MaxEpoch <- MCMaxEpoch
INVARIANT RunnableOwned
CHECK_DEADLOCK FALSE
