\* Conversion to C, nested more deeply than the style stack can hold.
CONSTANTS
  MAX_NESTING = 3
  ToC = TRUE
  MaxDepth = 4
  Tags = {"A", "H1", "PRE", "XMP", "TITLE", "P"}
  Calls <- MCCalls
SPECIFICATION Spec
INVARIANTS TypeOK PlainTextIsCommentedOut
\* A null pointer or a pop of the bottom entry ends the program.
CHECK_DEADLOCK FALSE
