SPECIFICATION Spec
CONSTANTS
    Loop = loop
    Kicks = {kick}
    MACs = {tablet, tv}
    Faults = {"cut", "refused", "reboot", "crash"}
    MaxEdits = 3
    MaxFaults = 1
INVARIANTS TypeOK NothingForgotten ProbesCleanUp
PROPERTY EventuallyCovered
CHECK_DEADLOCK FALSE
