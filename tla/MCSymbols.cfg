SPECIFICATION Spec
CONSTANTS
  n1 = n1
  Names <- MCNames
  StackSize = 6
  PpmSize = 2
  Operations = {"extract"}
  MaxNesting = 4
INVARIANTS TypeOK NothingDangles InnermostFirst
PROPERTIES KeepsScopes
CHECK_DEADLOCK FALSE
