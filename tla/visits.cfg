SPECIFICATION Spec
CONSTANTS
    t1 = t1  t2 = t2  r1 = r1  r2 = r2  r3 = r3  r4 = r4  c1 = c1  c2 = c2  g1 = g1
    s1 = s1  s2 = s2
    None = None
    NoLimit = NoLimit
    Tables = {t1, t2}
    Scans = {s1, s2}
    Requests = {r1, r2}
    Req <- VisitReq
    Guids = {g1}
    Transactional = TRUE
    StaffStatuses = {"PENDING", "PAID", "CANCELLED"}
    ManualStatuses = {"AVAILABLE"}
    ManualOrders = {None, r1}
    MaxStaffWrites = 2
    MaxLost = 1
    Coupons = {}
    InitialLimit <- NoCoupons
    MinOrderAmount <- NoCoupons
    NewLimits = {}
    MaxCouponEdits = 0
CHECK_DEADLOCK FALSE
INVARIANTS
    TypeOK
    FinishedOrderLeavesTable
    SeatedTableOccupied
    QrOrderProof
    PlacementInv
    SessionInv
PROPERTIES
    SessionsNeverRevive
