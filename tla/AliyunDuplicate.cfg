\* Model values, and the constants of DnsSync.
CONSTANTS
    r1 = r1  r2 = r2  p1 = p1  p2 = p2  v1 = v1  v2 = v2  here = here  there = there
    NoId = NoId
    MaxId = 3
    Records = {r1}
    Providers = {p1}
    ClusterProviders = {}
    Values = {v1, v2}
    Labels = {here}
    Selectors <- SelectAll
    Setups = {"plain"}
    Sites = {"home"}
    Config <- Aliyun
    StaleReads = FALSE
    Disturbances = {"edit", "dns"}
    MaxDisturbances = 3

SPECIFICATION Spec

\* Users owe nothing: the system may come to rest.
CHECK_DEADLOCK FALSE

PROPERTIES
    ReadyClaimIsTrue
