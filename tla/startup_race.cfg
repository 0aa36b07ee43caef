\* Two processes of one build start on the database of an older one.
SPECIFICATION Spec
CONSTANTS
    p1 = p1
    p2 = p2
    Processes = {p1, p2}
    Launches <- MCLaunches
    Migrations <- MCMigrations
    OldRoles <- MCOldRoles
    MaxStarts = 2
    MaxFaults = 0
INVARIANTS TogetherStartsSucceed
CHECK_DEADLOCK FALSE
