SPECIFICATION FrontSpec
CONSTANTS
    t1 = t1  t2 = t2  r1 = r1  s1 = s1  s2 = s2  b1 = b1  b2 = b2  br = br
    d1 = d1  d2 = d2  k1 = k1  k2 = k2  h1 = h1
    None = None
    NoLimit = NoLimit
    Tables = {t1, t2}
    Scans = {s1, s2}
    Requests = {r1}
    Req <- FrontReq
    Guids = {}
    Transactional = TRUE
    StaffStatuses = {"PAID"}
    ManualStatuses = {}
    ManualOrders = {}
    MaxStaffWrites = 1
    MaxLost = 1
    Coupons = {}
    InitialLimit <- NoCoupons
    MinOrderAmount <- NoCoupons
    NewLimits = {}
    MaxCouponEdits = 0
    Bookings = {b1, b2}
    Booking <- FrontBooking
    Branches = {br}
    OverlapWindow = 2
    DeskCalls = {d1, d2}
    AssignTables = {t2}
    Binds = {k1, k2}
    Chats = {h1}
    MaxStarted = 3
    MaxChatWrites = 1
SYMMETRY FrontSymmetry
CHECK_DEADLOCK FALSE
INVARIANTS
    FrontTypeOK
    ClashOnlyOverlap
    ReservedTableHasReservation
    
    SpentTokenStaysSpent
    ChatServedForScannedTable
