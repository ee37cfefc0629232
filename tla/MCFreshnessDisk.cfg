SPECIFICATION Spec
CONSTANTS
    c1 = c1
    c2 = c2
    h1 = h1
    h2 = h2
    NoFile = NoFile
    NoText = NoText
    CUs <- MCCUs
    Headers <- MCHeaders
    Includes <- MCIncludes
    Quoted <- MCHeaders
    Asked = {c1, NoFile}
    Holdable = {}
    Removable = {c2}
    EditPhases = {"idle"}
    Ops = {"push", "unused"}
    Gap = 2
    MaxLag = 1
    Pace = 2
    MaxBuild = 1
    SaveEvery = 1
    Returnable = {}
    MaxEdits = 2
    MaxTime = 7
    MaxRestarts = 1
INVARIANTS
    MissingIsKnown
    StaleIsKnown
PROPERTIES
    NoDatedGhostsAfterRemoval
