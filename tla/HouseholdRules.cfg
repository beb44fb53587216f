SPECIFICATION Spec
CONSTANTS
    DaysPerWeek = 2
    MinutesPerDay = 3
    None = None
    All = All
    Devices = {tablet}
    People = {kid}
    Offered = {"kids"}
    Windows <- Overnight
    PauseLengths = {2}
    QuotaDays = {{1}, {0, 1}}
    Budgets = {1}
    Start = 4
    MaxRows = 2
    MaxMinutes = 1
    Horizon = 7
INVARIANTS TypeOK NoDanglingMember WindowIsOpening
PROPERTIES PauseHolds PurgeIsInvisible NoFlapping CutStaysCut
CHECK_DEADLOCK FALSE
