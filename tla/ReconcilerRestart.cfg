SPECIFICATION Spec
CONSTANTS
    IPs = {ip1}
    CatchAll = catchAll
    Profiles = {default, off}
    DefaultProfile = default
    UserGroups = {guests}
    None = None
    ConsoleKeys = {ip1, catchAll}
    Background = loop
    Kicks = {k1}
    Faults = {"crash"}
    Legacy = FALSE
    MaxEdits = 3
    MaxFaults = 1
INVARIANT BaseIsUsersChoice
