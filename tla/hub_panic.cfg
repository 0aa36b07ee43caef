\* A release that overlaps a flush.
SPECIFICATION Spec
CONSTANTS
    x1 = x1
    x2 = x2
    x3 = x3
    c1 = c1
    c2 = c2
    c3 = c3
    Changes <- MCChanges2
    Clients <- MCClients2
    MaxBatch = 2
    MaxClients = 2
    BufCap = 1
    MaxDropped = 1
INVARIANT
    FlushesUntilDone
CHECK_DEADLOCK FALSE
