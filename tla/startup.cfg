\* Two processes, three starts and one that is killed, over every kind of
\* configuration.
SPECIFICATION FairSpec
CONSTANTS
    p1 = p1
    p2 = p2
    Processes = {p1, p2}
    Launches <- MCLaunches
    Migrations <- MCMigrations
    OldRoles <- MCOldRoles
    MaxStarts = 3
    MaxFaults = 1
INVARIANTS
    ConfiguredAsAsked
    OneMigrates
    RecordedIsComplete
    ServesComplete
    LoneStartSucceeds
    DemoMatches
PROPERTIES
    StartsAndStopsEnd
CHECK_DEADLOCK FALSE
