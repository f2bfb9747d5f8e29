\* Every graph of up to 4 anchors of 3 documents with up to 2 links.
CONSTANTS
  Addresses = {A, B, C}
  Tags = {"", "n"}
  hash <- MCHash
  upper <- MCUpper
  MaxAnchors = 4
  MaxLinks = 2
  MaxCalls = 6
SPECIFICATION Spec
SYMMETRY Renaming
INVARIANTS TypeOK SourcesAreTheLinksMade ChildrenHaveTheirParent OneAnchorPerAddress OrderlyDeletionIsSafe
\* Using freed memory or exhausting the stack ends the program.
CHECK_DEADLOCK FALSE
