SPECIFICATION LocksSpec
CONSTANTS
    v1 = v1
    v2 = v2
    s1 = s1
    s2 = s2
    o1 = o1
    o2 = o2
    Vendors = {v1, v2}
    Students = {s1, s2}
    Components <- MCComponents
    Canteen <- MCCanteen
    OrderIds = {o1, o2}
    Student <- MCStudent
    Maker <- MCMaker
    Referrer <- MCReferrer
    Transactions = {t1, t2, t3}
    Withdrawals = {w}
    Payee <- MCPayee
    Kinds = {"create", "empty"}
SYMMETRY MCSymmetry
INVARIANTS
    NoDeadlock
CHECK_DEADLOCK FALSE
