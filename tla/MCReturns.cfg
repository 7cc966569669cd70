SPECIFICATION SellerSpec
CONSTANTS
    o1 = o1
    Orders = {o1}
    Lines = {l1, l2}
    OrderOf <- MCOrderOf
    Price <- MCPrice
    Refunds = {r1, r2}
    Hooks = {}
    NoLine = NoLine
    InPlay = {l1}
    MaxMishaps = 1
    Desks = {d1, d2}
    NoRefund = NoRefund
    Hands = {d1, d2}
    MaxAccounts = 2
    MaxChanges = 2
    Uploaders = {u1, u2}
    MAX_IMAGES_PER_LISTING = 2
    MaxUploads = 3
    MaxClaims = 1
SYMMETRY Symmetry
INVARIANTS
    ReturnsInv
    PayoutAccountInv
    UploadsInv
PROPERTIES
    FulfilmentAdvances
CHECK_DEADLOCK FALSE
