SPECIFICATION HostSpec
CONSTANTS
    Calls = {1, 2}
    Names = {"a", "b"}
    Scenes <- OnboardingScenes
    Batches <- OneBatch
    None = None
    Messages = {"m1", "m2", "m3", "m4"}
    Kind <- SnsKind
    Foreign = {"m4"}
    PRs = {"p", "q"}
    Reviews = {"v1", "v2"}
    Findings = {1}
    Recoveries = {"r1", "r2"}
    Authors = {"ann", "bob"}
    Allowlist = {"ann"}
    AwsScenes <- CodeCommitScenes
    Workers = {"w1", "w2"}
    Tasks = {"deliveries", "history"}
    PoolSize = 2
    MaxTicks = 2
INVARIANTS
    OnboardingExplained
    SnsAckedWasHandled
    CodeCommitApprovalBacked
    CodeCommitFeedbackRestored
    CommandsAreObeyed
    SweepsAreExplained
CHECK_DEADLOCK FALSE
