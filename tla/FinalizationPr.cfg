CONSTANTS
    Strategy = "pr"
    MaxRuns = 1
    MaxReports = 3
    MaxFaults = 1
SPECIFICATION FairSpec

    
PROPERTIES
    EventsAreHandled
CHECK_DEADLOCK FALSE
