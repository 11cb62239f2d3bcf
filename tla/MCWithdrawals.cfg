SPECIFICATION Spec
CONSTANTS
    Vendors = {v1}
    WithdrawalIds = {w1, w2}
    Callers = {a1, a2}
    Debits = {1, 2}
    Sales = {1}
    Proofs = {p1, p2}
    InitialBalance = 2
    MaxCredit = 1
    NoRow = NoRow
CHECK_DEADLOCK FALSE
SYMMETRY MCSymmetry
INVARIANTS
    BalanceAccounted
    RefundsBounded
