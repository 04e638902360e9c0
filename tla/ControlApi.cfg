CONSTANTS
    Operators = {o1}
    Answers = {yes, no}
    MaxRuns = 2
    MaxAsks = 2
    MaxAnswers = 2
    MaxCrashes = 1
    NoOne = NoOne
    NoAnswer = NoAnswer
    Clients = {c1}
    Keys = {k1}
    MaxStarts = 3
    MaxEvents = 3
    MaxSessions = 2
    HighWater = 2
    Transports = {"pty", "tmux"}
    MaxCalls = 3
    MaxScouts = 2
    MaxExits = 1
SPECIFICATION MCSpec
CONSTRAINT TerminalsOrQuestions
CHECK_DEADLOCK FALSE
INVARIANT TextIsSubmittedAlone
INVARIANT AwaitingIsUnanswered
INVARIANT RequestsAppliedOnce
INVARIANT StreamHasNoGaps
INVARIANT MessagesAreAnnounced
INVARIANT BriefReachesItsScout
PROPERTY KeysReachTheirRun
