SPECIFICATION Spec
CONSTANTS
    Events = {e1}
    Requests = {r1, r2, r3, r4}
SYMMETRY Symmetry
CHECK_DEADLOCK FALSE
INVARIANTS
    LogIsChain
    IllegalOnlyByOverlap
    AnnouncedOnce
