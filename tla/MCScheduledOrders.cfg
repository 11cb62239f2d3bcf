SPECIFICATION ScheduledSpec
CONSTANTS
    c1 = c1
    v1 = v1
    Students = {s1}
    Vendors = {v1}
    Components = {c1}
    Canteen <- MCCanteen
    Carts <- MCCarts
    Totals = {1}
    NumberCount = 2
    InitialWallet = 1
    InitialStock = 1
    StockMoves = {1}
    MaxStock = 2
    MaxMoves = 0
    OrderIds = {o1, o2}
    Requests = {h1, h2, p1, p2}
    Passes = {p1, p2}
    Jobs = {j1, j2}
    MaxPending = 1
    BatchSize = 2
    MaxFaults = 1
    NoOrder = NoOrder
    NoRequest = NoRequest
    NoJob = NoJob
SYMMETRY MCSymmetry
INVARIANTS
    PlacedOnce
    ToldOnlyOfFailures
    PendingCap
PROPERTIES
    ImplementsOrders
CHECK_DEADLOCK FALSE
