SPECIFICATION MCSpec
CONSTANTS
    MaxAsked = 10600
    Starts <- MCStarts
    Step = 50
    Span = 50000
    v1 = v1
    v2 = v2
    s1 = s1
    s2 = s2
    o1 = o1
    o2 = o2
    Vendors = {v1, v2}
    Students = {s1, s2}
    Components <- MCComponents
    Canteen <- MCCanteen
    OrderIds = {o1, o2}
    Student <- MCStudent
    Maker <- MCMaker
    Referrer <- MCReferrer
    Transactions = {t1, t2, t3}
    Withdrawals = {w}
    Payee <- MCPayee
    Kinds = {"create", "cancel", "update", "adjust", "empty", "recharge", "vendor", "payout", "program", "report"}
    ComponentIds = {c1, c2}
    CategoryIds = {g}
    MenuIds = {m}
    Sides = {c1}
    Editors = {e1, e2}
    Creations = {n1}
    None = None
    b1 = b1
    b2 = b2
    Canteens = {k1, k2}
    Bills = {b1, b2}
    TopUps = {p1}
    Payouts = {w1}
    Ratings = {r1}
    Tickets <- MCTickets
    Gross <- MCGross
    RealCost <- MCRealCost
    CoveredFee <- MCCoveredFee
    LastDay = 2
    WeekStarts <- MCWeekStarts
    MonthStarts <- MCMonthStarts
    MaxDailyBuckets = 2
SYMMETRY MCSymmetry
INVARIANTS
    QuotesAgree
    FeesAddUp
    OnlyKnownCircles
    WholeButForOverlaps
    PlacedOrdersStand
    FiguresAgree
PROPERTIES
    MoreSendsMore
    PastRevenueIsFinal
CHECK_DEADLOCK FALSE
