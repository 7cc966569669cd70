SPECIFICATION AccountsSpec
CONSTANTS
    Browsers = {b1}
    NoBrowser = NoBrowser
    Handlers = {h1, h2}
    MaxTokens = 3
    MaxLinks = 2
    MaxRows = 4
    Askers = {h1, h2}
    Limit = 1
    MaxWindows = 1
    MaxSecrets = 2
    MaxPeriods = 3
SYMMETRY Symmetry
INVARIANTS
    SessionsInv
    PasswordEndsAll
    StepUpInv
CHECK_DEADLOCK FALSE
