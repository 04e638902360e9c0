CONSTANTS
    Tasks = {t1}
    Names = {n1}
    MaxWorkers = 1
    Transports = {"pty", "tmux"}
    MaxRuns = 2
    MaxCrashes = 1
    MaxRemovals = 1
    NoTask = NoTask
    NoName = NoName
SPECIFICATION FairSpec
PROPERTIES ClaimsMoveOn FailedWorkersStop
