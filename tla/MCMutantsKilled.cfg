SPECIFICATION MCSpec
CONSTANTS
    Parts = {"assertions"}
    FloatReads = FALSE
    None = None
    g = g
    h = h
INVARIANTS
    KilledIsDetected
CHECK_DEADLOCK FALSE
