CONSTANTS
    Requests = {w1, w2}
    Handlers = {h1}
    Members = {"m1"}
    Owner <- MCOneOwner
    Amount <- MCAmount
    Opening <- MCOpening
    MaxDaily = 2
    None = None
SPECIFICATION ReconciledSpec
INVARIANTS
    TypeOK
    StatusMatchesJournals
    CompletedWasPaid
    
PROPERTY SettledStaysSettled
SYMMETRY AnyRequest
VIEW LiveLocals
CHECK_DEADLOCK FALSE
