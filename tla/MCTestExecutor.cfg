SPECIFICATION FairSpec
CONSTANTS
    NumTests = 2
    NumStatements = 2
INVARIANTS
    LossExplained
    CleanlyIsolated
PROPERTY EveryTestReturns
