SPECIFICATION FairSpec
CONSTANTS
    Conn     = {h1, h2}
    None     = None
    RingSize = 2
    MaxBatch = 2
    MaxSeq   = 4
CHECK_DEADLOCK FALSE
INVARIANTS
    NothingSlipsThrough
PROPERTIES
    ImplementsFeed
    GoneHandlersLeave
