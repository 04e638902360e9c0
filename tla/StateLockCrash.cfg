CONSTANTS
    Procs = {p1, p2}
    NoProc = NoProc
    MaxAttempts = 5
    MaxCrashes = 1
SPECIFICATION FairSpec
INVARIANTS MutualExclusion
PROPERTIES BreaksDeadLocksOnly DeadLocksAreBroken
