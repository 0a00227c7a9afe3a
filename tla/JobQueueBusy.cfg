SPECIFICATION Spec
CONSTANTS
    j1 = j1
    j2 = j2
    j3 = j3
    g1 = g1
    g2 = g2
    w1 = w1
    w2 = w2
    w3 = w3
    Nil = Nil
    Jobs = {j1, j2}
    Goals = {g1}
    GoalOf <- OneGoal
    Workers = {w1, w2}
    MaxRetries = 3
    MaxFaults = 0
    Lossy = FALSE
    Redeliveries = TRUE
    AmbiguousPublish = {}
CHECK_DEADLOCK FALSE
INVARIANT OneBusyJobPerGoal
