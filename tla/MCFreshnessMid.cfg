SPECIFICATION Spec
CONSTANTS
    c1 = c1
    c2 = c2
    h1 = h1
    h2 = h2
    NoFile = NoFile
    NoText = NoText
    CUs <- MCCUs
    Headers <- MCHeaders
    Includes <- MCIncludes
    Quoted <- MCHeaders
    Asked = {c1}
    Holdable = {}
    Removable = {c2, h2}
    EditPhases = {"idle", "opened", "parse", "parsed"}
    Ops = {"push"}
    Gap = 2
    MaxLag = 1
    Pace = 2
    MaxBuild = 2
    SaveEvery = 3
    Returnable = {h2}
    MaxEdits = 1
    MaxTime = 6
    MaxRestarts = 0
INVARIANTS
    OwnTextIsKnown
    ChangesShow
