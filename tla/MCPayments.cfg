SPECIFICATION FairSpec
CONSTANTS
    s1 = s1
    s2 = s2
    Students <- MCStudents
    PaymentIds = {p1, p2}
    Callers = {c1, c2, c3}
    Tickets = {2}
    Refusals = {"declined", "expired"}
    Referrer <- MCReferrer
    Reward = 1
    NoRow = NoRow
CHECK_DEADLOCK FALSE
INVARIANTS
    EndsAsFedapaySays
    WalletsAccounted
PROPERTIES
    ImplementsCredits
    PaidIsCredited
