SPECIFICATION FairSpec
CONSTANTS
    Jobs = {j1, j2}
    Workers = {w1, w2}
    Lambda = {w2}
    Kinds = {"synchronize", "command", "malformed"}
    BatchSize = 2
    Visibility = 1
    MaxReceive = 2
    MaxRun = 1
    Window = 2
INVARIANTS
    NothingLost
    NewestHeadReviewed
    OverlapsAreLate
PROPERTY JobsSettle
