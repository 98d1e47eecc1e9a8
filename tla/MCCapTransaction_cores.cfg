CONSTANTS
    c1 = c1
    c2 = c2
    h1 = h1
    h2 = h2
    h3 = h3
    ca = ca
    cb = cb
    ra = ra
    rb = rb
    NULL = NULL
    Threads = {h1, h2}
    Cores = {c1, c2}
    Tables = {ca, ra}
    Registered = {ca, ra}
    Granted = {ca}
    Home <- HomeOf
    Owner <- OwnerOf
    MayDo <- Pinning
    Late = {TRUE, FALSE}
    NumSlots = 2
    NumTx = 1
    InboxSize = 2
    MaxGen = 3
    MaxTx = 3
SPECIFICATION FairSpec
   
PROPERTIES FailsClosed 
CHECK_DEADLOCK FALSE
