\* Either page, two comparisons, one failure anywhere.
SPECIFICATION FairSpec
CONSTANTS
    Record = {e1, e2}
    MaxRuns = 2
    MaxSeq = 1
    MaxMounts = 2
    MaxClicks = 2
    MaxLost = 1
    None = None
CHECK_DEADLOCK FALSE
INVARIANTS
    ArmsAreOnePair
    NumbersAreTrue
PROPERTIES
    EveryArmSettles
