\* The same with unnamed places only, which is enough.
CONSTANTS
  Addresses = {A, B, C}
  Tags = {""}
  hash <- MCHash
  upper <- MCUpper
  MaxAnchors = 4
  MaxLinks = 2
  MaxCalls = 6
SPECIFICATION Spec
SYMMETRY Renaming
INVARIANT LinksLeadToAnchors
\* Using freed memory or exhausting the stack ends the program.
CHECK_DEADLOCK FALSE
