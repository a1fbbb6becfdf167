SPECIFICATION ApiSpec
CONSTANTS
    User = {u1}
    Station = {s1}
    Battery = {b1, b2}
    Rental = {r1, r2}
    Order = {o1}
    Worker = {w1, w2}
    Null = Null
    PaymentColumns = {}
    MaxActive = 2
    PromoLimit = 1
    Swap = {x1}
    Routes = {"confirm", "terminate", "swap"}
SYMMETRY ApiSymmetry
INVARIANTS PendingExclusive
CHECK_DEADLOCK FALSE
