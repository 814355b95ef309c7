CONSTANTS
    Groups = {g1, g2}
    Users = {u1, u2, u3}
    Requests = {r1, r2}
    MinSlots = 2
    MaxSlots = 3
    Deposits = {0, 1, 2}
    None = None
SPECIFICATION Spec
INVARIANTS
    TypeOK
    DepositsAccounted
    DebtorsHaveDeposited
    GroupsStartFull
CONSTRAINT Scope
SYMMETRY Interchangeable
CHECK_DEADLOCK FALSE
