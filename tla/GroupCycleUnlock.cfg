CONSTANTS
    m1 = m1
    m2 = m2
    m3 = m3
    m4 = m4
    m5 = m5
    Members = {m1, m2, m3, m4, m5}
    TurnOrder <- MCTurnOrder
    DaysPerCycle = 1
    DailyAmount = 100
    ServiceMarginBps = 200
    MaxReserveBps = 3000
    DefaultGraceDays = 0
    AllowPayoutOverride = FALSE
    Handlers = {h1}
    MaxPaying = 1
    None = None
SPECIFICATION Spec
INVARIANT
    DuePaymentAccepted
CONSTRAINT OneByOne
CHECK_DEADLOCK FALSE
