CONSTANTS
    t1 = t1
    t2 = t2
    NoTask = NoTask
    NoAgent = NoAgent
    Tasks <- MCTasks
    DependsOn <- MCDependsOn
    Agents = {a1}
    MAX_ATTEMPTS = 2
    MaxRuns = 2
    MaxFaults = 1
SPECIFICATION FairSpec
INVARIANTS OneActiveClaimPerTask SettledAgreement DoctorSeesDisagreement AttemptsPaidByFailures
PROPERTIES  StrandedTaskRecovers ExpiredRunReleased
