SPECIFICATION Spec
CONSTANTS
    Starts = {t1, t2}
    Stops = {p1, p2}
    MaxAttempts = 1
    Ships = 2
    MaxPayloads = 2
    None = none

SYMMETRY Symmetry
CHECK_DEADLOCK FALSE
INVARIANTS
    StopStops
