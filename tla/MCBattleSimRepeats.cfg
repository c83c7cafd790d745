SPECIFICATION Spec
CONSTANTS
    b1 = b1
    r1 = r1
    r2 = r2
    Blue <- MCBlue
    Red <- MCRed
    MaxHp = 2
    Damages = {1, 2}
    Cooldown = 2
    Cap = 2
    MaxShots = 3
    None = none
CHECK_DEADLOCK FALSE
INVARIANTS
    ReportHasNoRepeats
