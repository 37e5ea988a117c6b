SPECIFICATION MCSpec
CONSTANTS
    Parts = {"archive", "mio", "suites", "local search", "files"}
    g1 = g1
    g2 = g2
    s1 = s1
    s2 = s2
    s3 = s3
    s4 = s4
    x1 = x1
    x2 = x2
    \* CoverageArchive
    Goals <- MCGoals
    Solutions <- MCSolutions
    Covers <- MCCovers
    Size <- MCSize
    Failing <- MCFailing
    MaxOffered = 3
    \* MIO
    Targets <- MCTargets
    Tests <- MCTests
    Heuristic <- MCHeuristic
    Full = 3
    TestSize <- MCTestSize
    FailingTests <- MCFailingTests
    Builtin <- MCBuiltin
    Initial <- MCInitial
    Focused <- MCFocused
    FocusAt = 2
    NoTest = none
    MaxProgress = 3
    MaxCounter = 2
    \* Suites
    Bodies <- MCBodies
    SuiteGoals <- MCGoals
    Reaches <- MCReaches
    Slots = {p1, p2}
    MaxTests = 2
    MaxChanges = 2
    None = none
    \* LocalSearch
    NumStatements = 2
    Values = {1, 2, 3}
    Landscapes <- MCLandscapes
    MaxTries = 2
    Generations = 2
    \* FsIsolation
    Names = {n1, n2}
    Depth = 2
INVARIANTS
    ArchiveSound
    AnswersRight
    EverythingIsSetBack
PROPERTIES
    BestKept
    PopulationsImprove
    FilesAreCleanedUp
