SPECIFICATION Spec
CONSTANTS
    Cost <- MCCost
    MaxCost = 5
INVARIANTS
    TypeOK
    ValuesArrive
    NothingMore
    JumpsStay
CHECK_DEADLOCK FALSE
