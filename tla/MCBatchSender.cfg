SPECIFICATION FairSpec
CONSTANTS
    Sender = {k1, k2}
    Sizes = {2, 5, 7}
    BufferMaxSize = 4
    PrefixLen = 2
    ChanSize = 1
    MaxItems = 2
INVARIANTS InOnePlace BatchBound InOrder CleanStop
PROPERTIES ImplementsDelivery FlushedEventually StopsWhenClosed
CHECK_DEADLOCK FALSE
