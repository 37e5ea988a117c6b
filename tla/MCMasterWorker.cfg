SPECIFICATION FairSpec
CONSTANT Budget = 4
INVARIANTS
    RestartsContained
    HonestEnd
PROPERTIES
    ResultNotDropped
    ClientExits
