SPECIFICATION LiveSpec
CONSTANTS
    fired = fired
    ended = ended
    d1 = d1
    d2 = d2
    Reports <- Three
    Payload <- ThreePayload
    EventIds = {fired, ended}
    Deliveries = {d1, d2}
    s1 = s1
    a = a
    RowNames = {a}
    Stops = {s1}
    Creator = creator
    None = none
    Policies <- SomePolicies
    MaxPrunes = 2
    SmokeReport = 2
    SmokePost = d1
    Gateways = {TRUE, FALSE}
    ProbePosts <- TwoPosts
    ProbeReports <- TwoReports
    ProbeStop = s1
    Users = {"smoke", "probe", "simulator"}
    SimPosts = {d1}
    SimReports = {3}
CHECK_DEADLOCK FALSE
INVARIANTS
    PrunedWhole
    SmokeFailsOnlyByRace
    SmokePassMeans
    LeftRunningOnlyByLoss
    ProbeMeasuresEstimate
