SPECIFICATION FairSpec
CONSTANTS
    c1 = c1
    c2 = c2
    c3 = c3
    h1 = h1
    h2 = h2
    NoFile = NoFile
    NoText = NoText
    CUs <- MCCUs
    Headers <- MCHeaders
    Includes <- MCIncludes
    Quoted <- MCHeaders
    Asked = {c1}
    Holdable = {}
    Removable = {}
    EditPhases = {"idle"}
    Ops = {"push"}
    Gap = 1
    MaxLag = 0
    Pace = 2
    MaxBuild = 1
    SaveEvery = 3
    Returnable = {}
    MaxEdits = 1
    MaxTime = 9
    MaxRestarts = 0
PROPERTIES
    PartialWorkAddsUp
