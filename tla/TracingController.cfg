SPECIFICATION Spec
CONSTANTS
    N = 2
    Collectors = {2}
    SyncAgents = {1, 2}
    Timed = TRUE
    WriteJson = FALSE
INVARIANTS
    PhasesInOrder
    TracesAreSynced
    NothingSilentlyLost
    OrphansOnlyFromRefusals
PROPERTIES
    SessionEnds
CHECK_DEADLOCK FALSE
