SPECIFICATION Spec
CONSTANTS
    b1 = b1
    b2 = b2
    NumUsers = 2
    NumGoals = 3
    Owner <- Owners
    FirstPlan <- Plans
    Batches = {b1, b2}
    LastDay = 2
    Sundays = {2}
    MaxFaults = 1
    MaxManual = 1
CHECK_DEADLOCK FALSE
SYMMETRY BatchSymmetry
INVARIANTS
    TypeOK
    ClosedOnce
    NobodyIsLeftOut
    DeferredMeansClosed
PROPERTY DoneLostToStaleCloseOnly
