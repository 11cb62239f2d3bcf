SPECIFICATION Spec
CONSTANTS
    c1 = c1
    c2 = c2
    v1 = v1
    Students = {s1}
    Vendors = {v1}
    Components = {c1, c2}
    Canteen <- MCCanteen
    OrderIds = {o1, o2, o3}
    Requests = {r1, r2, r3}
    Carts <- MCPlate
    Totals = {2}
    NumberCount = 2
    InitialWallet = 6
    InitialStock = 3
    StockMoves = {1}
    MaxStock = 4
    MaxMoves = 0
    NoOrder = NoOrder
    NoRequest = NoRequest
SYMMETRY MCSymmetry
INVARIANTS
    UniqueActiveNumber
    SettledOnce
CHECK_DEADLOCK FALSE
