SPECIFICATION MCSpec
CONSTANTS
    Parts = {"cluster", "lines", "instrumentation", "graphs", "comparisons", "slices"}
INVARIANTS
    InstrumentationIsFaithful
    DependencesLeadToTheBlock
    SelectionIsKept
    OutcomeIsTold
    SlicesAreSound
    ClusterIsComplete
CHECK_DEADLOCK FALSE
