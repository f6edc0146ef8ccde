CONSTANTS
    NUp = 1
    NDown = 2
    RetryMin = 2
    RetryMax = 3
    MaxLoops = 2
    MaxChan = 6
    MaxFault = 2
SPECIFICATION FairSpec
INVARIANTS DialsItsOwnPool PublishedIsRead
PROPERTIES DownloadsSettle 
\* The client ends when it is cancelled.
CHECK_DEADLOCK FALSE
