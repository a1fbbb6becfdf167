SPECIFICATION Spec
CONSTANTS
    Event = {e1, e2}
    Worker = {w1, w2}
    BatchSize = 2
    MaxRetries = 1
    MaxPublished = 3
    FaultModels = {{"crash", "ack", "publish"}, {"crash", "ack", "publish", "marker", "raise"}}
SYMMETRY WorkerSymmetry
INVARIANTS TypeOK AppliedOnce LeftBehindIsMarked NothingDropped
PROPERTY ImplementsPromise
CHECK_DEADLOCK FALSE
