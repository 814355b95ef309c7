CONSTANTS
    w1 = w1
    w2 = w2
    Requests = {w1, w2}
    Handlers = {h1, h2}
    Members = {"m1"}
    Owner <- MCOneOwner
    Amount <- MCAmount
    Opening <- MCOpening
    MaxDaily = 4
    None = None
SPECIFICATION Spec
INVARIANT SettledOneWay
CHECK_DEADLOCK FALSE
