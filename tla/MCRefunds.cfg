SPECIFICATION RefundSpec
CONSTANTS
    o1 = o1
    l1 = l1
    l2 = l2
    Orders = {o1}
    Lines = {l1, l2}
    OrderOf <- MCOrderOf
    Price <- MCPrice
    Refunds = {r1, r2}
    Hooks = {k1, k2}
    NoLine = NoLine
SYMMETRY Symmetry
INVARIANTS
    HeadroomExact
    SentWithinTotal
CHECK_DEADLOCK FALSE
