SPECIFICATION FairStockSpec
CONSTANTS
    seller = seller
    b1 = b1
    b2 = b2
    Listings = {l1}
    Users = {seller, b1, b2}
    Seller <- MCSeller
    Holds = {h1, h2}
    Requests = {r1}
    MaxQty = 2
    EditKinds = {"publish", "unpublish", "quantity", "delete", "remove", "restore"}
    NoHold = NoHold
    NoEdit = "none"
INVARIANTS
    OneLiveHold
    NoStockLost
    StockConserved
PROPERTIES
    ReservationsEnd
CHECK_DEADLOCK FALSE
