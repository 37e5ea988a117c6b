SPECIFICATION MCSpec
CONSTANTS
    Parts = {"traces", "minimisation", "mutants", "assertions", "refinement"}
    FloatReads = FALSE
    None = None
    g = g
    h = h
INVARIANTS
    TracesTellTheTruth
    MutantsAreMade
    AssertionsHold
    WrittenAsItBehaves
PROPERTIES
    MinimisedIsTheSame
    RefinedIsTheSame
CHECK_DEADLOCK FALSE
