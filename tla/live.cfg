\* Timers shorter than the code's, in the same order; streams are cut after the
\* silence and a poll, or by the network; some deployments have no events.
SPECIFICATION FairSpec
CONSTANTS
    EventsEnabled = {TRUE, FALSE}
    PollEvery = 1
    SilenceMax = 2
    Retry = 1
    WriteTimeout = 3
    MaxChanges = 1
    MaxFaults = 2
    StreamCap = 2
INVARIANTS
    TypeOK
    ModeMatchesTimers
PROPERTIES
    CatchesUpWhenWatched
    AbandonedStreamsEnd
CHECK_DEADLOCK FALSE
