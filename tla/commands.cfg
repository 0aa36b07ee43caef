\* One call of run(), any answer of the worker, and the tries cut from
\* six to two.
SPECIFICATION FairSpec
CONSTANTS
    c1 = c1
    o1 = o1
    o2 = o2
    o3 = o3
    Runs = {c1}
    Objects = {o1, o2, o3}
    Asks <- MCAsks
    Replies = {200, 400, 401, 503}
    MaxVerify = 2
    Attempts = 2
    MaxFaults = 1
    Requests <- MCRequests
    Selections <- MCSelections
    Callers <- MCCallers
    Now = 6
    MaxBulkCommands = 3
    DemoMaxTargets = 2
INVARIANTS
    AuditIsComplete
    SuccessMeansQueued
    ConfirmedWasSeen
    ReadsBack
    EveryTargetOnce
PROPERTIES
    CommandsAreAnswered
CHECK_DEADLOCK FALSE
