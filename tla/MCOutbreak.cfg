\* Four kinds of attack; every patient zero.
SPECIFICATION OutbreakSpec
CONSTANTS
    None            = None
    Agent           <- FourAgents
    Edges           <- Triangle
    SentinelCount   = 2
    CredentialCount = 1
    Holder          <- FirstHolds
    Configs         <- SoundConfigs
    Threshold       <- AThird
    DefenseEnabled  = TRUE
    MaxTicks        = 3
CHECK_DEADLOCK FALSE
INVARIANTS
    EventsCarryTheWorld
    ChainsReachPatientZero
