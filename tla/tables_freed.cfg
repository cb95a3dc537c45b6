SPECIFICATION FairSpec
CONSTANTS
    t1 = t1  t2 = t2  r1 = r1  r2 = r2  r3 = r3  r4 = r4  c1 = c1  c2 = c2  g1 = g1
    s1 = s1  s2 = s2
    None = None
    NoLimit = NoLimit
    Tables = {t1}
    Scans = {s1}
    Requests = {r1, r2}
    Req <- CounterReq
    Guids = {g1}
    Transactional = TRUE
    StaffStatuses = {"PENDING", "PAID"}
    ManualStatuses = {"AVAILABLE"}
    ManualOrders = {None, r1}
    MaxStaffWrites = 3
    MaxLost = 1
    Coupons = {}
    InitialLimit <- NoCoupons
    MinOrderAmount <- NoCoupons
    NewLimits = {}
    MaxCouponEdits = 0
CHECK_DEADLOCK FALSE
PROPERTIES
    FinishedOrderEventuallyOff
