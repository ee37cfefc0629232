SPECIFICATION Spec
CONSTANTS
    c1 = c1
    c2 = c2
    h1 = h1
    h2 = h2
    NoFile = NoFile
    NoText = NoText
    CUs <- MCCUs
    Headers <- MCHeaders
    Includes <- MCIncludes
    Quoted <- MCHeaders
    Asked = {c2, NoFile}
    Holdable = {c1, h2}
    Removable = {}
    EditPhases = {"idle"}
    Ops = {"push", "menu"}
    Gap = 1
    MaxLag = 0
    Pace = 2
    MaxBuild = 2
    SaveEvery = 3
    Returnable = {}
    MaxEdits = 2
    MaxTime = 9
    MaxRestarts = 0
INVARIANTS
    MissingIsKnown
    StaleIsKnown
PROPERTIES
    NoDatedGhostsAfterRemoval
