\* Model values, and the constants of ResourceWatcher.
CONSTANTS
    a = a  d1 = d1  d2 = d2  plain = plain  deep = deep  broken = broken
    None = None
    Names = {a}
    Kind = "Ingress"
    Data = {d1, d2}
    Texts = {plain, deep, broken}
    Broken = {broken}
    Deep = {deep}
    Inline = {TRUE, FALSE}
    Lags = {TRUE, FALSE}
    Disturbances = {"input", "template", "record", "touch", "crash", "api"}
    MaxDisturbances = 2

SPECIFICATION FairSpec

INVARIANTS
    TypeOK
    WatchedIsFollowed

PROPERTIES
    EventuallyRendered
