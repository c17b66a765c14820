SPECIFICATION Spec
CONSTANTS
    MaxThreads = 2
    MaxLines = 2
INVARIANTS
    CopyIsConsistent
    StopIsComplete
PROPERTIES
    StopEnds
CHECK_DEADLOCK FALSE
