SPECIFICATION Spec
CONSTANTS
    a = a
    b = b
    Codes = {a}
    StartDay = 1
    FirstEnd = 2
    Horizon = 5
    LastToday = 3
    Sundays = {2}
    MaxLag = 0
    MaxLead = 0
    MaxGens = 2
    MaxChanges = 1
CHECK_DEADLOCK FALSE
PROPERTY DoneSurvivesReplan
