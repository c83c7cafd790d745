SPECIFICATION Spec
CONSTANTS
    Reports <- Pair
    Payload <- PairPayload
    fired = fired
    ended = ended
    a = a
    b = b
    EventIds = {fired, ended}
    RowNames = {a, b}
    Deliveries = {d1, d2}
    Stops = {s1, s2}
    Creator = creator
    None = none
ACTION_CONSTRAINT FewRequests
SYMMETRY Symmetry
CHECK_DEADLOCK FALSE
INVARIANTS
    TypeOK
    TicksContiguous
    AnnouncedOnce
    LoneSnapshotExact
    LoneAckIsReplayed
