SPECIFICATION FairSpec
CONSTANT NumTests = 3
INVARIANTS
    OnlyCulpritsBlamed
    AnsweredOnce
PROPERTIES
    Returns
