SPECIFICATION Spec
CONSTANTS
    User = {u1, u2}
    Battery = {b1, b2}
    BookingId = {r1, r2}
    Worker = {w1, w2}
    Null = Null
    Payment = {1}
    MaxBalance = 1
SYMMETRY Interchangeable
VIEW Relevant
INVARIANTS LedgerAgrees LiveExclusive PaidIsKept
PROPERTIES TerminalIsFinal
CHECK_DEADLOCK FALSE
