SPECIFICATION Spec
CONSTANTS
    o1 = o1
    Orders = {o1}
    StaffStatuses = {"PENDING", "PREPARING", "PAID"}
    Watched = {"active_orders", "kitchen_orders"}
    MaxRetries = 1
    MaxWrites = 3
CHECK_DEADLOCK FALSE
PROPERTIES
    RetryRestoresProjection
