SPECIFICATION Spec
CONSTANTS
    j1 = j1
    j2 = j2
    j3 = j3
    g1 = g1
    g2 = g2
    w1 = w1
    w2 = w2
    w3 = w3
    Nil = Nil
    Jobs = {j1, j2, j3}
    Goals = {g1, g2}
    GoalOf <- TwoGoals
    Workers = {w1, w2}
    MaxRetries = 2
    MaxFaults = 3
    Lossy = TRUE
    Redeliveries = TRUE
    AmbiguousPublish = {j1}
CHECK_DEADLOCK FALSE
INVARIANTS
    TypeOK
    OneGenerationPerJob
    SucceededIffGeneration
    FailedIsNeverRun
PROPERTY KeepsContract
