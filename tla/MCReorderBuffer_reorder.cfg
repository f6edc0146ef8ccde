CONSTANTS
    r1 = r1
    r2 = r2
    Readers <- TwoReaders
    MaxSeq = 4
    OutCap = 2
SPECIFICATION FairSpec
INVARIANTS NoAcceptedFrameLost GapIsWatched
PROPERTIES ImplementsOrderedDelivery HeldIsFlushed
\* A flow ends when its frames are used up.
CHECK_DEADLOCK FALSE
