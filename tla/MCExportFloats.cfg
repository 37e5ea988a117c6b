SPECIFICATION MCSpec
CONSTANTS
    Parts = {"assertions"}
    FloatReads = TRUE
    None = None
    g = g
    h = h
INVARIANTS
    WrittenAsItBehaves
CHECK_DEADLOCK FALSE
