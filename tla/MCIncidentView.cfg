\* The session and its screen: four calls over three workers.
SPECIFICATION ViewSpec
CONSTANTS
    Worker      = {w1, w2, w3}
    Artifact    = {a1}
    Inside      = {docs}
    Protected   = {env, key}
    Role        <- MCRole
    EventLogCap = 100
    None        = None
    MaxStep     = 4
SYMMETRY Symmetry
CHECK_DEADLOCK FALSE
INVARIANTS
    TypeOK
    TrustedHasActiveOwner
    
    CascadeIsPinned
    StoryIsComplete
PROPERTIES
    QuarantineIsOneBatch
    TaintIsSticky
    EventsCarryTheStatus
