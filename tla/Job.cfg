\* Model values, and the constants of JobProvider.
CONSTANTS
    v1 = v1  v2 = v2
    Values = {v1, v2}
    Nothing = Nothing
    Strategies = {"", "OnCreate", "OnComplete", "OnCompleteOrFailed"}
    MaxJobs = 7
    Patient = TRUE
    Disturbances = {"edit", "delete", "crash", "fail", "expire", "call", "touch", "status"}
    MaxDisturbances = 4

SPECIFICATION FairSpec

\* Users owe nothing: the system may come to rest.
CHECK_DEADLOCK FALSE

INVARIANTS
    TypeOK
    GoneLeavesNothing

PROPERTIES
    ReadyMeansPublished
    SettlesUnlessFailed
