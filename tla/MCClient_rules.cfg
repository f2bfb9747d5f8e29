\* Two rules, of all kinds; the other parts hardly move.
SPECIFICATION Spec
CONSTANTS
  BUFFER_SIZE = 3
  MaxDefined = 1
  MaxLines = 1
  MaxChars = 1
  Keys = {1}
  MaxElements = 1
  NULL = NULL
  Documents = {d1, d2}
  Offsets <- MCOffsets
  MaxHistory = 3
  MaxLinks = 2
  References <- MCReferences
  Start <- MCStart
  MaxAddress = 7
  Lines <- MCLines
  Required <- MCRequired
  MaxRules = 2
CHECK_DEADLOCK FALSE
INVARIANT MostRecentRulesApplyFirst
