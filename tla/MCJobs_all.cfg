SPECIFICATION JobsSpec
CONSTANTS
    Resolvers = {j1, j2, j3}
    TTL = 2
    FetchLimit = 1
    Horizon = 3
    MaxEdits = 1
    Files <- RepoFiles
    Dir <- RepoDirs
    Denied = {"env"}
    MaxDirs = 1
    MaxCommits = 2
    RetryAfters = {50}
    StepLists <- ToolSteps
    Paths <- ReviewPaths
    ReviewJobs <- ExploredJobs
    MaxFetchFiles = 2
    MaxBytesPerFile = 2
    MaxTotalBytes = 4
    Marker = 1
    FileSizes = {1, 4}
    MaxCalls = 1
    Procs = {p1, p2}
    Jobs = {k1, k2}
    Cap = 1
    DailyCap = 1
    MaxCost = 1
    MaxTurns = 1
    MaxDays = 2
    MaxStarts = 4
INVARIANTS
    ConfigIsExplained
    WorkspaceIsExplained
    LinesAreAccounted
    CommentsAreExplained
    WorkIsReported
    RetriesAreExplained
    PrOvershootBounded
    DailyOvershootBounded
    RefusedForTheDay
    TurnOvershootBounded
SYMMETRY Symmetry
CHECK_DEADLOCK FALSE
