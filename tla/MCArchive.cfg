\* A run whose log is written while it is replayed; a list of up to six runs.
SPECIFICATION ArchiveSpec
CONSTANTS
    None = None
    Agent = {1, 2, 3}
    EventLogCap = 3
    IncidentLogCap = 2
    History <- MCHistory
    InitialCount = 2
    PatientZero = 1
    PageLimit = 2
    MaxRuns = 6
    MaxMoves = 3
CHECK_DEADLOCK FALSE
INVARIANTS
    ReplayIsThePrefix
    UnmarkedReplayIsWhole
    ListSkipsNothing
