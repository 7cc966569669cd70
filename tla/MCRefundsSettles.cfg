SPECIFICATION FairRefundSpec
CONSTANTS
    o1 = o1
    l1 = l1
    l2 = l2
    Orders = {o1}
    Lines = {l1}
    OrderOf <- MCOrderOf
    Price <- MCPrice
    Refunds = {r1, r2}
    Hooks = {k1}
    NoLine = NoLine
PROPERTIES
    PendingRefundSettles
CHECK_DEADLOCK FALSE
