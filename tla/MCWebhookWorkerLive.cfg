SPECIFICATION FairSpec
CONSTANTS
    Event = {e1, e2}
    Worker = {w1, w2}
    BatchSize = 2
    MaxRetries = 1
    MaxPublished = 3
    FaultModels = {{}}
PROPERTY EventuallySettled
CHECK_DEADLOCK FALSE
