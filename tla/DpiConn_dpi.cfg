CONSTANTS
    MaxUp = 2
    MaxEvents = 2
    Window = 2
    DataCap = 1
    ReadCap = 1
    MaxFail = 1
SPECIFICATION FairSpec
INVARIANTS DownloadIsPrefix EofMeansAll EntryHasPump
PROPERTIES AckedArrives ClosedIsRemoved
\* A connection ends.
CHECK_DEADLOCK FALSE
