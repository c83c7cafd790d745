SPECIFICATION Spec
CONSTANTS
    Reports <- Mixed
    Payload <- MixedPayload
    fired = fired
    ended = ended
    a = a
    b = b
    EventIds = {fired, ended}
    RowNames = {a, b}
    Deliveries = {d1}
    Stops = {s1, s2}
    Creator = creator
    None = none

CHECK_DEADLOCK FALSE
PROPERTIES
    StoppedAtWrittenOnce
