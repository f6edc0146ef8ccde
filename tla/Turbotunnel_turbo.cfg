CONSTANTS
    MaxConn = 2
    QueueSize = 1
SPECIFICATION FairSpec
INVARIANTS
    OneStranded
    StaleTakesOne
PROPERTIES
    CloseReleases
    WellConnected
\* A closed connection stops.
CHECK_DEADLOCK FALSE
