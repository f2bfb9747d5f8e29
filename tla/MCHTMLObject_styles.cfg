\* Documents nested less deeply than the style stack can hold.
CONSTANTS
  MAX_NESTING = 4
  ToC = FALSE
  MaxDepth = 3
  Tags = {"A", "H1", "B", "DL", "DLC", "DIR", "UL", "PRE", "XMP", "TITLE", "COMMENT", "P", "DT", "DD", "LI", "IMG"}
  Calls <- MCCalls
SPECIFICATION Spec
INVARIANTS TextExistsWhenUsed StyleIsOfInnermostElement
  StackMatchesElements FreeTextInStyleDue AnchorsEndWithTheirElement
\* A null pointer reached by an anchor without an address ends the program.
CHECK_DEADLOCK FALSE
