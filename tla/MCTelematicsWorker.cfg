SPECIFICATION Spec
CONSTANTS
    Event = {e1, e2, m}
    Malformed = {m}
    Worker = {w1, w2}
    BatchSize = 2
    MaxRetries = 1
    MaxPublished = 3
    FaultModels = {{"crash", "ack", "publish"}, {"crash", "marker"}}
SYMMETRY WorkerSymmetry
INVARIANTS StoredOnce LeftBehindIsExplained
CHECK_DEADLOCK FALSE
