SPECIFICATION FairSpec
CONSTANTS
    seller = seller
    b1 = b1
    b2 = b2
    Listings = {l1}
    Users = {seller, b1, b2}
    Seller <- MCSeller
    Holds = {h1}
    Requests = {}
    MaxQty = 1
    NoHold = NoHold
    NoEdit = "none"
    Orders = {o1}
    Workers = {w1, w2, w3}
    Sweepers = {w1}
    EditKinds = {}
    Kinds = {"pay", "cancel", "abandon", "reconcile", "webhook", "browser", "restart"}
INVARIANTS
    PaymentsRight
PROPERTIES
    EveryOrderSettles
    ChargeIsRecorded
CHECK_DEADLOCK FALSE
