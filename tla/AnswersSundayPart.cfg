SPECIFICATION Spec
CONSTANTS
    NumTasks = 2
    Milestones = {1, 2}
    MilestoneOf <- TwoMilestones
    Questions <- QuestionsDef
    PlanReplies <- PlanRepliesDef
    ReplanReplies <- ReplanRepliesDef
    HeldRows <- HeldRowsDef
    Codes = {1, 2, 3}
CHECK_DEADLOCK FALSE
PROPERTY SundayFailureKeepsPlan
