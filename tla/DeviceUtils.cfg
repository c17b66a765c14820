SPECIFICATION Spec
CONSTANTS
    Builds <- TwoVersions
    OtherBuilds <- Unsplit
    System <- SystemApp
    Unknown = Unknown
    Retries = 1
    MaxEvents = 2
    Values = {v1, v2}
    Empty = Empty
    PropRetries = 1
    MaxPropEvents = 4
INVARIANTS
    AppCacheAgrees
    
    PropAnswersAgree
CHECK_DEADLOCK FALSE
