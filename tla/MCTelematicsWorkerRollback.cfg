SPECIFICATION Spec
CONSTANTS
    Event = {e1, e2, m}
    Malformed = {m}
    Worker = {w1, w2}
    BatchSize = 2
    MaxRetries = 1
    MaxPublished = 3
    FaultModels = {{}}
SYMMETRY WorkerSymmetry
INVARIANTS NothingDropped
CHECK_DEADLOCK FALSE
