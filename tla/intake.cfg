SPECIFICATION Spec
CONSTANTS
    t1 = t1  t2 = t2  s1 = s1  s2 = s2
    r1 = r1  r2 = r2  r3 = r3  r4 = r4  c1 = c1  c2 = c2  g1 = g1
    None = None
    NoLimit = NoLimit
    Tables = {t1}
    Scans = {}
    Requests = {r1, r2, r3, r4}
    Req <- IntakeReq
    Guids = {g1}
    Transactional = FALSE
    StaffStatuses = {}
    ManualStatuses = {}
    ManualOrders = {}
    MaxStaffWrites = 0
    MaxLost = 1
    Coupons = {c1}
    InitialLimit <- IntakeLimits
    MinOrderAmount <- IntakeMin
    NewLimits = {1, 2}
    MaxCouponEdits = 2
CHECK_DEADLOCK FALSE
INVARIANTS
    DuplicatesOnlyOverlap
    UseInv
    LimitNeverOverrun
    EachUseCountedOnce
