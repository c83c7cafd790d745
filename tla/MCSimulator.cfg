SPECIFICATION FairSpec
CONSTANTS
    Starts = {t1, t2}
    Stops = {p1, p2}
    MaxAttempts = 2
    Ships = 2
    MaxPayloads = 2
    None = none
CHECK_DEADLOCK FALSE
INVARIANTS
    TypeOK
    MetricsAddUp
    PostsOrderly
    RegistryExact
PROPERTIES
    StopsAnswered
