SPECIFICATION FairSpec
CONSTANTS
    Deliveries = {d1, d2}
    Requests = {q1, q2}
    Kinds = {"push", "ready_for_review", "review", "skip"}
    Reviewed = FALSE
    DbErrors = TRUE
    Debounce = 2
    Retention = 1
    MaxTime = 2
    MaxPosts = 2
INVARIANTS
    DedupWithinRetention
    DebouncesAfterReview
PROPERTY ConversionsEnqueued
CHECK_DEADLOCK FALSE
