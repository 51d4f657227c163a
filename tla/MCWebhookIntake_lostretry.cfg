SPECIFICATION Spec
CONSTANTS
    Deliveries = {d1}
    Requests = {q1}
    Kinds = {"ready_for_review"}
    Reviewed = TRUE
    DbErrors = FALSE
    Debounce = 1
    Retention = 3
    MaxTime = 1
    MaxPosts = 2
INVARIANT DedupedWasHandled
CHECK_DEADLOCK FALSE
