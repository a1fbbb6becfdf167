SPECIFICATION Spec
CONSTANTS
    User = {u1, u2}
    Order = {o1}
    Payment = {p1}
    Withdrawal = {w1}
    Refund = {f1}
    Clerk = {c1}
    Amount = {1, 2}
    MaxTxn = 3
    Hooks = {"legacy", "refund_events"}
    Null = Null
SYMMETRY WalletSymmetry
INVARIANTS NonNegative LedgerTallies WithdrawalAgrees
PROPERTY SuccessIsFinal
CHECK_DEADLOCK FALSE
