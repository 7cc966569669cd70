SPECIFICATION Spec
CONSTANTS
    seller = seller
    b1 = b1
    b2 = b2
    Listings = {l1}
    Users = {seller, b1, b2}
    Seller <- MCSeller
    Holds = {h1, h2}
    Requests = {r1}
    MaxQty = 2
    NoHold = NoHold
    NoEdit = "none"
    Orders = {o1, o2}
    Workers = {w1, w2}
    Sweepers = {}
    EditKinds = {}
    Kinds = {"pay", "cancel"}
SYMMETRY Symmetry
INVARIANTS
    OrdersInv
CHECK_DEADLOCK FALSE
