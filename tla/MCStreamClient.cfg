\* Both hooks.  Five sockets are more than the two connections a gap leaves
\* behind can use.
SPECIFICATION FairSpec
CONSTANTS
    Socket   = {s1, s2, s3, s4, s5}
    None     = None
    RingSize = 1
    LastSeq  <- MCLastSeq
    Drops    <- MCDrops
CHECK_DEADLOCK FALSE
INVARIANTS
    SocketIsOwned
PROPERTIES
    EachEventOnce
    CatchesUp
