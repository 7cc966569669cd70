SPECIFICATION BackOfficeSpec
CONSTANTS
    l1 = l1
    l2 = l2
    Lines = {l1, l2}
    Price <- MCPrice
    NoLine = NoLine
    MaxPayouts = 2
    Refunds = {r1, r2}
    Clerks = {w1, w2}
    Accounts = {u1, u2}
    NoAccount = NoAccount
    Callers = {w1, w2}
    MAX_ATTEMPTS = 2
    MaxCodes = 2
    Editors = {w1, w2}
    MaxAddresses = 3
    Visitors = {w1, w2}
    PageSize = 2
    MaxMessages = 3
    Subjects = {s1}
    Deletable = {s1}
    Staff = {w1, w2}
    MaxReports = 2
    Tabs = {t1, t2}
    Wishes = {g1, g2}
    MaxToggles = 2
    Ends = {1, 2, 3}
    Fast = 1
    MaxHolds = 3
    LastSecond = 5
    MaxLost = 1
SYMMETRY Symmetry
INVARIANTS
    PayoutsInv
    SettledAsDecided
    PhonesInv
    AddressesInv
    ThreadsInv
    ModerationInv
    HeartsInv
    BadgeInv
CHECK_DEADLOCK FALSE
