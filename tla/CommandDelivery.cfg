CONSTANTS
    Runs = {r1}
    NoRun = NoRun
    Requests <- AllKinds
    MaxCommands = 1
    MaxAttempts = 2
    MaxCrashes = 2
SPECIFICATION FairSpec
INVARIANTS SideEffectsSentOnce UncertaintyIsHonest
PROPERTIES ReservationsEnd EndedRunsSettle
