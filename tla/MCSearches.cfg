SPECIFICATION MCFairSpec
CONSTANTS
    gLeaf = gLeaf
    gInner = gInner
    gLoop = gLoop
    gOther = gOther
    s1 = s1
    s2 = s2
    s3 = s3
    s4 = s4
    looping = looping
    straight = straight
    none = none
    Goals <- MCGoals
    Roots <- MCRoots
    Children <- MCChildren
    Accessibles <- MCAccessibles
    AccessibleOf <- MCAccessibleOf
    NoAccessible = none
    Solutions <- MCSolutions
    Covers <- MCCovers
    Size <- MCSize
    Failing <- MCFailing
    MaxOffered = 2
    MaxIterations = 2
    LocalSearch = TRUE
    \* MOSA
    Tests <- MosaTests
    GoalOrder <- MosaGoals
    Fitness <- MosaFitness
    Length <- MosaLength
    Descendants <- MosaDescendants
    PopulationSize = 3
    Insertions = 1
    Bias = 17
    \* Search
    Configurations <- MCConfigurations
    NumGoals = 3
    Executions <- MCExecutions
    Ticks = {0, 1}
    Usages = {1, 2}
    Window = 4
    Cap = 12
    \* Timeline
    Second = 100
    maximum_search_time = 4
    timeline_interval = 100
    timeline_interpolation = TRUE
    Unit = 2
    Values = {0, 1, 2}
    Steps = {50, 200}
    Names = {"Goals"}
    OutputVariables = {"Goals", "Timeline"}
    MaxUpdates = 3
    MaxTracked = 2
    Parts = {"dynamosa", "mosa", "stopping", "timeline"}
INVARIANTS
    FrontierExact
    NoLostCoverage
    ClusterInStep
    CountersTellTheTruth
    StatisticsTellTheTruth
PROPERTIES
    ExploresInOrder
    SearchEnds
    RankingKeepsTheBest
    SearchStops
CHECK_DEADLOCK FALSE
