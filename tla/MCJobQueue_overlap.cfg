SPECIFICATION Spec
CONSTANTS
    Jobs = {j1}
    Workers = {w1, w2}
    Lambda = {}
    Kinds = {"command"}
    BatchSize = 1
    Visibility = 1
    MaxReceive = 2
    MaxRun = 1
    Window = 1
INVARIANT SoleHandler
