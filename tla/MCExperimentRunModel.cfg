\* A model that answers without text.
SPECIFICATION FairSpec
CONSTANTS
    None = None
    Stopper = {s1}
    HasGateway = TRUE
    MaxTicks = 2
    MaxDrafts = 2
    DrainBatchCap = 2
CHECK_DEADLOCK FALSE
PROPERTIES
    RunsEnd
