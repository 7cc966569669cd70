SPECIFICATION TellingSpec
CONSTANTS
    Events = {e1}
    MaxBatch = 1
    MaxLength = 2
    MaxFailures = 2
    Workers = {w1, w2}
    Sweepers = {s1, s2}
    Rungs = 1
    Channels = {"EMAIL", "SMS"}
    MaxHour = 3
    NoEvent = NoEvent
    Accounts = {u1, u2}
    NoAccount = NoAccount
    Endpoints = {d1, d2}
    Pushers = {p1}
    MaxRows = 3
    Types = {"REFUND_ISSUED", "SALE_MADE"}
    Followers = {p1}
    MINUTES_PER_DAY = 8
SYMMETRY Symmetry
INVARIANTS
    DeliveryInv
    RestsOnlyWhenDecided
    DevicesInv
    PreferencesInv
    QuietHoursRight
CHECK_DEADLOCK FALSE
