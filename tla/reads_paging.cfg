\* Two services of one host, one to a page.
SPECIFICATION Spec
CONSTANTS
    Hour = 2
    DefaultPageSize = 2
    MaxPageSize = 3
    MaxDowntimes = 25
    Scenes <- ManyServices
    NewRows <- NewStatus
    MaxClock = 28
INVARIANT PagingIsStable
CHECK_DEADLOCK FALSE
