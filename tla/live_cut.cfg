\* The code's defaults, in heartbeats of 20 s: polls after 30 s, silence after
\* 90 s, a pause of 5 s, and a write timeout of 60 s.  Nothing else goes wrong.
SPECIFICATION FairSpec
CONSTANTS
    EventsEnabled = {TRUE}
    PollEvery = 2
    SilenceMax = 5
    Retry = 1
    WriteTimeout = 3
    MaxChanges = 1
    MaxFaults = 0
    StreamCap = 2
PROPERTIES
    CatchesUp
CHECK_DEADLOCK FALSE
