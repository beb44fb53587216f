SPECIFICATION Spec
CONSTANTS
    Loop = loop
    Kicks = {kick}
    MACs = {tablet}
    Faults = {"request", "lostAnswer", "crash"}
    ApiKey = TRUE
    MaxKicks = 1
    MaxRules = 6
    MaxEdits = 2
    MaxFaults = 1
INVARIANTS TypeOK AtMostOneRule RecordIsTrue
PROPERTY EventuallyMirrored
