CONSTANTS
    Requests = {r1, r2}
    Handlers = {h1, h2, h3}
    Days = 2
    None = None
SPECIFICATION Spec
INVARIANTS
    TypeOK
    RecordedWasCollected
    ApprovedIsRecorded
    EveryPaymentCounts
SYMMETRY Interchangeable
CHECK_DEADLOCK FALSE
