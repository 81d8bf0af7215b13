\* Two stop requests, two ticks, a writer that needs several batches.
SPECIFICATION FairSpec
CONSTANTS
    None = None
    Stopper = {s1, s2}
    HasGateway = TRUE
    MaxTicks = 2
    MaxDrafts = 2
    DrainBatchCap = 2
CHECK_DEADLOCK FALSE
INVARIANTS
    TypeOK
    StoppedIsTheLastEvent
    CompleteMeansEverything
PROPERTIES
    EveryStopIsAnswered
    EveryEndIsFinalized
