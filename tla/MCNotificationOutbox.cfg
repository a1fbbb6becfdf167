SPECIFICATION Spec
CONSTANTS
    Notification = {n1}
    Dispatcher = {d1, d2}
    MaxAttempts = 3
    Columns = {"app_scope"}
    Budget = 2
SYMMETRY Interchangeable
INVARIANTS ResentOnlyIfLost PublishedWasSent SentAgrees
PROPERTIES ImplementsChannel
CHECK_DEADLOCK FALSE
