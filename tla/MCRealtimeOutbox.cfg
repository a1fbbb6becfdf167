SPECIFICATION FairSpec
CONSTANTS
    Row = {r1, r2}
    Process = {p1, p2}
    BatchSize = 2
    MaxAttempts = 2
    Budget = 2
    Free = Free
    Dead = Dead
INVARIANTS OneRuns ResentOnlyIfLost
PROPERTIES ImplementsChannel EventuallySettled
CHECK_DEADLOCK FALSE
