SPECIFICATION Spec
CONSTANTS
    c1 = c1
    c2 = c2
    v1 = v1
    Students = {s1}
    Vendors = {v1}
    Components = {c1, c2}
    Canteen <- MCCanteen
    OrderIds = {o1, o2}
    Requests = {r1, r2}
    Carts <- MCCarts
    Totals = {2}
    NumberCount = 2
    InitialWallet = 3
    InitialStock = 3
    StockMoves = {1}
    MaxStock = 4
    MaxMoves = 2
    NoOrder = NoOrder
    NoRequest = NoRequest
SYMMETRY MCSymmetry
INVARIANTS
    AccountsBalance
    StockConserved
PROPERTIES
    ImplementsEscrow
CHECK_DEADLOCK FALSE
