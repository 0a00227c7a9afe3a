SPECIFICATION Spec
CONSTANTS
    a = a
    b = b
    Codes = {a}
    StartDay = 1
    FirstEnd = 2
    Horizon = 5
    LastToday = 1
    Sundays = {}
    MaxLag = 0
    MaxLead = 0
    MaxGens = 3
    MaxChanges = 2
CHECK_DEADLOCK FALSE
INVARIANTS
    TypeOK
    OneActivePlan
    OneReplanDraft
    RetiredPlansAreEmpty
    DeadlineIsApplied
PROPERTIES
    DeadlineMovesLater
    AnswersKeepContract
