SPECIFICATION Spec
CONSTANTS
    fileA = fileA
    fileB = fileB
    new = new
    c1 = c1
    c2 = c2
    c3 = c3
    c4 = c4
    x = x
    y = y
    m1 = m1
    Name = {fileA, fileB, new}
    Char = {c1, c2, c3, c4, x, y}
    Marker = {m1}
    Opened <- MCOpened
    Strings <- MCStrings
    MaxEdits = 2
INVARIANTS
    TypeOK
    BuffersAreRight
    RecordsAreLive
    ClientFollows
    ReplayRepeats
    MarkersInText
PROPERTIES
    MarkersStick
