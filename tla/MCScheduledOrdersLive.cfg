SPECIFICATION ScheduledLiveSpec
CONSTANTS
    c1 = c1
    v1 = v1
    Students = {s1}
    Vendors = {v1}
    Components = {c1}
    Canteen <- MCCanteen
    Carts <- MCCarts
    Totals = {1}
    NumberCount = 1
    InitialWallet = 1
    InitialStock = 2
    StockMoves = {1}
    MaxStock = 2
    MaxMoves = 0
    OrderIds = {o1, o2}
    Requests = {h1, p1}
    Passes = {p1}
    Jobs = {j1, j2}
    MaxPending = 2
    BatchSize = 1
    MaxFaults = 1
    NoOrder = NoOrder
    NoRequest = NoRequest
    NoJob = NoJob
PROPERTIES
    DueIsSettled
    EveryRequestAnswered
CHECK_DEADLOCK FALSE
