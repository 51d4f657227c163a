SPECIFICATION Spec
CONSTANTS
    Procs = {p1}
    Jobs = {j1}
    Cap = 1
    DailyCap = 0
    MaxCost = 2
    MaxTurns = 1
    MaxDays = 2
    MaxStarts = 2
INVARIANTS
    RefusalEndsWithTheDay
