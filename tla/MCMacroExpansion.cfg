SPECIFICATION Spec
CONSTANTS
    ObjectLike = ObjectLike
    NoBody = NoBody
    Params <- MCParams
    Texts <- MCTexts
    Pasted <- MCPasted
    FileLexems <- MCFileLexems
    Bodies <- MCBodies
    Within <- MCWithin
    StackSize = 7
INVARIANTS
    TypeOK
    CallsNest
    ExpandsAsC
    ExpansionEnds
    NeverInItself
CHECK_DEADLOCK FALSE
