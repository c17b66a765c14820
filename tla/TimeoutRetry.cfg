SPECIFICATION Spec
CONSTANTS
    Timeout = 3
    Retries = 2
    JoinPeriod = 2
    RetryIf = {"TimeoutError", "Exception", "BaseException"}
INVARIANTS
    TriesInOrder
    OnlyOutsidersAbandon
    OutcomeOfLastTry
    BoundedWait
PROPERTIES
    RunEnds
    ImplementsRetriedCall
CHECK_DEADLOCK FALSE
