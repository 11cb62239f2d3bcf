SPECIFICATION MCSpec
CONSTANTS
    c1 = c1
    c2 = c2
    r1 = r1
    r2 = r2
    a1 = a1
    a2 = a2
    o1 = o1
    o2 = o2
    v = v
    Parts = {"vote"}
    Phones = {a1, a2}
    VendorPhones = {v}
    ResetKeys = {k}
    CodeIds = {r1, r2}
    Callers = {c1, c2}
    MaxAttempts = 2
    NoRow = NoRow
    Sessions = {r1, r2}
    Requests = {c1, c2}
    MaxFailures = 2
    MaxEvents = 2
    MaxLost = 1
    MaxChallenges = 5
    BackupCodes = {r1, r2}
    BackupCodeCount = 1
    MaxVersion = 1
    Tabs = {c1, c2}
    None = None
    Supervisors = {root, a1, a2}
    Root = root
    Admins = {admin}
    Demands = {r1, r2}
    Calls = {c1, c2}
    Nobody = Nobody
    OrderIds = {o1, o2}
    Buyer <- MCBuyer
    Cook <- MCCook
    ReportIds = {r1, r2}
    ReviewIds = {r1, r2}
    Writers = {c1, c2}
    NoOrder = NoOrder
    Owners = {a1, a2}
    Tokens = {r1, r2}
    Posts = {c1, c2}
    NoOwner = NoOwner
    StudentCount = 3
    IntervalDays = 3
    ToleranceHours = 6
    BatchSize = 1
    PassLimit = 2
    Offsets = {3, 9}
    Users = {r1, r2}
    PhoneNumbers = {n1}
    Joined = {a1, a2}
    Spaced = {sp}
    Legacy = {a1, a2}
    Campuses = {o1, o2}
    Desks = {c1, c2}
    NoOne = NoOne
    Hits = {c1, c2}
    Ttl = 2
    Limit = 1
    BlockFor = 1
    MaxSkew = 1
    MaxHits = 3
    LastTick = 4
SYMMETRY MCSymmetry
INVARIANT
    TreatedOnce
CHECK_DEADLOCK FALSE
