SPECIFICATION Spec
CONSTANTS
    c = c
    g = g
    h = h
    k = k
    Files <- MCFiles
    Graphs <- MCGraphs
    Limits = {1, 2, 4}
INVARIANTS
    TypeOK
    StoredIsReached
    CutIsSeen
CHECK_DEADLOCK FALSE
