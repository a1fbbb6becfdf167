SPECIFICATION Spec
CONSTANTS
    User = {u1, u2}
    Station = {s1, s2}
    Battery = {b1, b2}
    Rental = {r1, r2}
    Order = {o1, o2}
    Worker = {w1, w2}
    Null = Null
    PaymentColumns = {"reference_type", "reference_id"}
    MaxActive = 1
    PromoLimit = 1
SYMMETRY Symmetry
INVARIANTS HeldByOne BatteryAgrees NoPhantomBattery ReservedForPending PaidOnce PromoWithinLimit
PROPERTY Lifecycle ImplementsLending
CHECK_DEADLOCK FALSE
