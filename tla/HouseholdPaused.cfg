SPECIFICATION Spec
CONSTANTS
    DaysPerWeek = 2
    MinutesPerDay = 3
    None = None
    All = All
    Devices = {tablet}
    People = {kid}
    Offered = {"kids", "unrestricted"}
    Windows <- Overnight
    PauseLengths = {2}
    QuotaDays = {}
    Budgets = {}
    Start = 3
    MaxRows = 2
    MaxMinutes = 0
    Horizon = 7
INVARIANT PauseCuts
CHECK_DEADLOCK FALSE
