SPECIFICATION Spec
CONSTANTS
    IPs = {ip1, ip2}
    CatchAll = catchAll
    Profiles = {default, off}
    DefaultProfile = default
    UserGroups = {guests}
    None = None
    ConsoleKeys = {ip1, catchAll}
    Background = loop
    Kicks = {k1}
    Faults = {"fetch", "push", "lostAnswer", "seed", "backfill", "crash"}
    Legacy = TRUE
    MaxEdits = 3
    MaxFaults = 1
INVARIANTS TypeOK AdminWorkKept ChoiceKept SettledMeansApplied
PROPERTIES EventuallyApplied NetworkFollowsStore
