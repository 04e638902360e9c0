CONSTANTS
    Tasks = {t1, t2}
    Editors = {e1, e2}
    Bodies = {0, 1}
    Runs = {r1}
    MaxRevisions = 3
    MaxStops = 1
    NoTask = NoTask
    Migrators = {m1}
    MaxVersions = 1
    MaxCrashes = 1
    QuietInventory = TRUE
SPECIFICATION Spec
INVARIANT NoEditIsOverwritten AnnouncedIsCommitted
 
CONSTRAINT Bounds
