\* Two changes over a batch cap of one, three clients over two slots.
SPECIFICATION FairSpec
CONSTANTS
    x1 = x1
    x2 = x2
    x3 = x3
    c1 = c1
    c2 = c2
    c3 = c3
    Changes <- MCChanges2
    Clients <- MCClients3
    MaxBatch = 1
    MaxClients = 2
    BufCap = 1
    MaxDropped = 1
INVARIANTS
    TypeOK
    DroppedMeansFull
    SlotsMatchHandlers
PROPERTIES
    NoSilentLoss
    PendingReachesClient
    StalePileCleared
CHECK_DEADLOCK FALSE
