SPECIFICATION ClusterSpec
CONSTANTS
    Universes <- MCUniverses
    KeptGuesses = 1
    CollectionSize = 1
    MaxExecutions = 2
INVARIANTS
    GeneratorsAreFound
CHECK_DEADLOCK FALSE
