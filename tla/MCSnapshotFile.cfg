SPECIFICATION Spec
CONSTANTS
    c = c
    h = h
    x = x
    NoFileName = NoFileName
    Empty = Empty
    Names <- MCNames
    Hash <- MCHash
    Size = 4
    Shift = 211
    LinkNames = {"f"}
    Included = {h}
    Removable = {c, x}
    Lines = {1, 2}
    Usages = {1}
    MaxReferences = 2
    MaxTime = 2
    MaxSaves = 1
INVARIANTS
    LookupsAreRight
PROPERTIES
    KeepsReferences
CHECK_DEADLOCK FALSE
