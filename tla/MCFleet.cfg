SPECIFICATION FairSpec
CONSTANTS
    Ships = {s1, s2}
    m1 = m1
    MMSIs = {m1, m2}
    Seeded <- OneDemoShip
    Requests = {r1, r2, r3}
    Nobody = nobody
CHECK_DEADLOCK FALSE
INVARIANTS
    AlarmTold
PROPERTIES
    RevivedOnlyByOverlap
    TracksOfLiveShips
    AckKept
    ServesSeeded
    StartEnds
