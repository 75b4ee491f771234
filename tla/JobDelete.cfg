\* Model values, and the constants of JobProvider.
CONSTANTS
    v1 = v1  v2 = v2
    Values = {v1, v2}
    Nothing = Nothing
    Strategies = {"", "OnCreate", "OnComplete", "OnCompleteOrFailed"}
    MaxJobs = 7
    Patient = FALSE
    Disturbances = {"delete"}
    MaxDisturbances = 1

SPECIFICATION Spec

\* Users owe nothing: the system may come to rest.
CHECK_DEADLOCK FALSE

PROPERTIES
    DeletedByADeleteJob
