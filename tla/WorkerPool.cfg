CONSTANTS
    Tasks = {t1, t2}
    Names = {n1, n2}
    MaxWorkers = 1
    Transports = {"pty", "tmux"}
    MaxRuns = 2
    MaxCrashes = 1
    MaxRemovals = 1
    NoTask = NoTask
    NoName = NoName
SPECIFICATION Spec
SYMMETRY Interchangeable
INVARIANTS  EnvelopeTypedOnce
 
