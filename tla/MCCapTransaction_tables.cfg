CONSTANTS
    c1 = c1
    c2 = c2
    h1 = h1
    h2 = h2
    h3 = h3
    ca = ca
    cb = cb
    ra = ra
    rb = rb
    NULL = NULL
    Threads = {h1}
    Cores = {c1}
    Tables = {ca, cb}
    Registered = {ca}
    Granted = {ca}
    Home <- HomeOf
    Owner <- OwnerOf
    MayDo <- Tabling
    Late = {FALSE}
    NumSlots = 2
    NumTx = 1
    InboxSize = 2
    MaxGen = 3
    MaxTx = 2
SPECIFICATION FairSpec
INVARIANTS  TreeLinked
 
CHECK_DEADLOCK FALSE
