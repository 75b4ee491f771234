\* Model values, and the constants of GeneratorController.
CONSTANTS
    ingress = ingress  service = service  blue = blue  green = green
    Resources <- MCResources
    Finalized <- MCFinalized
    AtStart <- MCAtStart
    Labels <- MCLabels
    Selectors <- MCSelectors
    WatcherIds <- MCWatcherIds
    Modes <- MCModes
    Disturbances = {"create", "label", "delete", "retune", "touch", "crash", "api"}
    MaxDisturbances = 2

SPECIFICATION FairSpec

\* Users owe nothing: the system may come to rest.
CHECK_DEADLOCK FALSE

INVARIANTS
    TypeOK
    OneWatcherEach
    RestMeansFollowed

PROPERTIES
    EventuallySettled
