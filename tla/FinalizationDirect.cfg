CONSTANTS
    Strategy = "direct"
    MaxRuns = 2
    MaxReports = 2
    MaxFaults = 2
SPECIFICATION Spec
INVARIANTS DoneMeansMerged OneTerminalEvent WorkIsPreserved
CHECK_DEADLOCK FALSE
