SPECIFICATION SweepSpec
CONSTANTS
    j1 = j1
    g1 = g1
    w1 = w1
    Nil = Nil
    Jobs = {j1}
    Goals = {g1}
    GoalOf <- OneGoal
    Workers = {w1}
    MaxRetries = 3
    MaxFaults = 1
    Lossy = FALSE
    Redeliveries = TRUE
    AmbiguousPublish = {}
    MaxSweeps = 1
CHECK_DEADLOCK FALSE
PROPERTY SweepFailsOverdueRuns
