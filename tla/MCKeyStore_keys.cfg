SPECIFICATION FairSpec
CONSTANTS
    Requests = {1, 2, 3}
    Stored = s0
    None = None
    PoolSize = 2
    Env <- Production
INVARIANT AuditTrail
PROPERTIES
    RegisterSpec
    Answered
CHECK_DEADLOCK FALSE
