SPECIFICATION Spec
CONSTANTS
    Loop = loop
    Kicks = {kick}
    MACs = {tablet, console}
    Managed = {tablet}
    Faults = {"fetch", "write", "lostAnswer", "crash"}
    MaxEdits = 2
    MaxFaults = 1
INVARIANTS TypeOK HandRulesKept NothingForgotten
PROPERTY EventuallyMirrored
CHECK_DEADLOCK FALSE
