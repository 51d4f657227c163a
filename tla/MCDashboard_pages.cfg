SPECIFICATION DashboardSpec
CONSTANTS
    NoData = NoData
    Changes = {1, 2, 3}
    Prompts = {"", "a"}
    Blanks = {""}
    ApiServer <- Production
    PageScenes <- ConsoleUses
    Jobs <- ReviewJobs
    JobRepo <- JobRepos
    Aborted = {"j3"}
    Platforms <- TwoPlatforms
    PerMs = 2
    MaxTime = 2
    Limit = 1
    Window = 1
    WalkScenes <- Walks
    Installations <- KeyInstallations
    Providers <- KeyProviders
    KeyCalls = {1, 2}
    KeyScenes <- KeyUses
INVARIANTS
    ConsoleShowsOwnChanges
    ConsoleOverwritesExplained
    ConsoleDeletesFinal
    HistoryIsComplete
    KeysAreShown
CHECK_DEADLOCK FALSE
