CONSTANTS
    MaxData = 3
    MaxChan = 2
    MaxBreak = 1
SPECIFICATION Spec
INVARIANTS AtMostOnce OneReconnectKeepsBatches OneReconnectAgrees QueueIsWatched
\* The flow ends when its frames are used up.
CHECK_DEADLOCK FALSE
