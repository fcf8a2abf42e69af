CONSTANTS
    Actions <- AllActions
    MaxCalls = 2
    MaxOptional = 1
    MaxAttempts = 5
CHECK_DEADLOCK FALSE
SPECIFICATION FairSpec
INVARIANTS
    KnownIsTrue
    OncePerCall
    FailedDidNothing
PROPERTIES
    Returns
