SPECIFICATION Spec
CONSTANTS
    Runs = {r1, r2}
    Faults = TRUE
    Aborts = TRUE
    HeadRefs = {"pr", "default"}
    Drafts = FALSE
    Defers = TRUE
    Attempts = 2
    MaxCommits = 2
    MaxLines = 2
INVARIANTS
    RepeatsNeedALoss
    SkipsAreExplained
SYMMETRY Symmetry
