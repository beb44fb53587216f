SPECIFICATION Spec
CONSTANTS
    None = None
    Checks = {poll, now}
    Faults = {"kill", "crash", "offline", "slow", "install"}
    MaxCommits = 2
    MaxFaults = 1
    MaxRuns = 2
INVARIANTS TypeOK GoodReleaseRuns InstalledIsRunning
PROPERTY BannerTellsTruth
CHECK_DEADLOCK FALSE
