CONSTANTS
    Sessions = {s1, s2, s3}
    Runs = {r1}
    MaxCoords = 3
    MaxCrashes = 2
    MaxStarting = 1
    NoRun = NoRun
SPECIFICATION FairSpec
CHECK_DEADLOCK FALSE
 
PROPERTY DoneTaskStaysDone
PROPERTY SessionGetsCoordinator
