SPECIFICATION Spec
CONSTANTS
    b1 = b1
    b2 = b2
    NumUsers = 2
    NumGoals = 3
    Owner <- Owners
    FirstPlan <- Plans
    Batches = {b1, b2}
    LastDay = 2
    Sundays = {}
    MaxFaults = 0
    MaxManual = 0
CHECK_DEADLOCK FALSE
INVARIANT EveryDayIsClosed
