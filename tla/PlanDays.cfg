SPECIFICATION Spec
CONSTANTS
    a = a
    b = b
    Codes = {a, b}
    StartDay = 1
    FirstEnd = 1
    Horizon = 4
    LastToday = 3
    Sundays = {2}
    MaxLag = 1
    MaxLead = 0
    MaxGens = 2
    MaxChanges = 1
SYMMETRY CodeSymmetry
CHECK_DEADLOCK FALSE
INVARIANTS
    PlanFitsDeadline
    PlanReachesDeadline
    FinishedHasNothingLeft
    HomeAgreesWithChart
PROPERTIES
    HistoryKept
    AnswersKeepContract
    ReportsSurvive
    DoneCellsStay
