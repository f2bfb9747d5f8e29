CONSTANTS
  MAX_NESTING = 3
  ToC = FALSE
  MaxDepth = 4
  Tags = {"H1", "B"}
  Calls <- MCCalls
SPECIFICATION Spec
INVARIANT NestingStaysInStack
CHECK_DEADLOCK FALSE
