SPECIFICATION Spec
CONSTANTS
    Runs = {r1}
    Faults = FALSE
    Aborts = TRUE
    HeadRefs = {"pr"}
    Drafts = FALSE
    Defers = TRUE
    Attempts = 2
    MaxCommits = 2
    MaxLines = 1
INVARIANTS
    ReviewedIsCovered
