CONSTANTS
    Procs = {p1, p2, p3}
    NoProc = NoProc
    MaxAttempts = 5
    MaxCrashes = 1
SPECIFICATION Spec
INVARIANT
    MutualExclusion
