SPECIFICATION StorefrontSpec
CONSTANTS
    Listings = {l1}
    NoListing = NoListing
    Places = {"hero"}
    Offers <- SomeOffers
    Counters <- SomeCounters
    Unsaid = Unsaid
    Desks = {d1, d2}
    Sweepers = {s1}
    Batch = 2
    MaxRequests = 2
    MaxTime = 3
    MaxFailures = 1
    Readers = {r1, r2}
    Writers = {w1}
    MaxWrites = 2
    MaxFaults = 1
INVARIANTS
    PlacementInv
    ReviewsInv
PROPERTIES
    PlacementsRunOnTime
    CacheCatchesUp
CHECK_DEADLOCK FALSE
