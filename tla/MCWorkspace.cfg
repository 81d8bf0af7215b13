\* A live run and a replay, three nodes, three clicks.
SPECIFICATION FairSpec
CONSTANTS
    None = None
    Agent = {1, 2}
    Other = {3}
    Falls <- MCFalls
    LayerOf <- MCLayerOf
    Carries <- MCCarries
    PatientZero = 1
    History <- MCHistory
    EventLogCap = 3
    IncidentLogCap = 2
    MaxClicks = 3
    MaxLost = 1
CHECK_DEADLOCK FALSE
INVARIANTS
    WhatIsDrawn
    TraceSettles
PROPERTIES
    InsightsGoOn
