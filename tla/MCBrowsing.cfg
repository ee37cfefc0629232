SPECIFICATION Spec
CONSTANTS
    a = a
    b = b
    h = h
    name = name
    fun = fun
    macro = macro
    NoText = NoText
    NoRef = NoRef
    NoRequest = NoRequest
    CUs <- MCCUs
    Headers <- MCHeaders
    Includes <- MCIncludes
    NameOrder <- MCNameOrder
    Symbols = {name}
    ItemsOf <- MCItemsOf
    FittingOf <- MCFittingOf
    ShownAt <- MCShownAt
    LinkName <- MCLinkName
    MenuOrder <- MCMenuOrder
    Found <- MCFound
    AddedAt <- MCAddedAt
    Macros = {macro}
    Asked = {a, h}
    Held = {a}
    Limits = {8, 3}
    MenuLevels = {0, 1}
    MaxDepth = 1
    MaxEdits = 1
INVARIANTS
    CurrentIsListed
    ListIsSelected
    RoundTrip
    RefreshKeepsPlace
PROPERTIES
    UnmarkedIsRefreshed
    SessionsSurvive
