SPECIFICATION FairSpec
CONSTANTS
    j1 = j1
    j2 = j2
    j3 = j3
    g1 = g1
    g2 = g2
    w1 = w1
    w2 = w2
    w3 = w3
    Nil = Nil
    Jobs = {j1, j2}
    Goals = {g1}
    GoalOf <- OneGoal
    Workers = {w1, w2, w3}
    MaxRetries = 3
    MaxFaults = 2
    Lossy = FALSE
    Redeliveries = FALSE
    AmbiguousPublish = {j1, j2}
CHECK_DEADLOCK FALSE
INVARIANT
    NoStrandedJob
PROPERTY EveryJobEnds
