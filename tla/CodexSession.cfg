SPECIFICATION CodexFairSpec
CONSTANTS
    MaxSessions = 2
    MaxCommands = 2
    MaxTimeouts = 1
INVARIANTS
    InputBetweenTurns
    CompletedIsProven
PROPERTY SessionsComeFree
CHECK_DEADLOCK FALSE
