SPECIFICATION TablesSpec
CONSTANTS
    Appenders = {w1, w2}
    Tenants = {t1, t2}
    MaxRows = 3
    MaxTime = 1
    Findings = {"f", "g"}
    NSignals = 3
    FindingOf <- MCFindingOf
    Rejections = {1, 2}
    PrOf <- MCPrOf
    NPrs = 2
    Workers = {w1, w2}
    SuppressAfter = 2
    MaxWrites = 1
    MaxFacts = 2
    MaxReviews = 1
    MaxOps = 1
INVARIANTS
    NoDangling
    SerialChain
    SerialSegment
    SerialArchive
    QuietStaysQuiet
    ThresholdMutes
PROPERTY PruneKeepsTip
SYMMETRY Symmetry
CHECK_DEADLOCK FALSE
