SPECIFICATION Spec
CONSTANTS
    Events = {e1, e2}
    Relays = {r1, r2}
    BatchSize = 2
    MaxFailures = 2
    MaxAttempts = 1
    Handlers = {h1, h2}
INVARIANTS
    VerificationInv
    PublishedInOrder
    ToldAsRecorded
PROPERTIES
    KeepsPromise
    DecisionsArrive
CHECK_DEADLOCK FALSE
