\* An hour is two units; a page is two rows when nothing is asked,
\* and the page of an object shows two downtimes.
SPECIFICATION Spec
CONSTANTS
    Hour = 2
    DefaultPageSize = 2
    MaxPageSize = 3
    MaxDowntimes = 2
    Scenes <- MCScenes
    NewRows <- NewStatus
    MaxClock = 28
INVARIANTS
    HostPagesCoverOnce
    AnswersAreWhole
    RowsWithinPolicy
    StatesFitTotals
    TilesMatchLists
    OldestWaitsLongest
    HoursAddUp
    DetailExplains
PROPERTIES
    RequestsEnd
CHECK_DEADLOCK FALSE
