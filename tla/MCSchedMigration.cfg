SPECIFICATION FairSpec
CONSTANTS
    t1 = t1
    t2 = t2
    NONE = NONE
    Cores = {0, 1}
    Threads = {t1, t2}
    Home <- MCHome
    Prio <- MCPrio
    Migrators <- MCMigrators
    Wakers <- MCWakers
    Balancer = 1
    Uses <- MCUses
    RingCap = 1
    EntityCap = 1
    MaxEpoch <- MCMaxEpoch
INVARIANTS QueueSound Coordinated
PROPERTIES FrozenReturns 
CHECK_DEADLOCK FALSE
