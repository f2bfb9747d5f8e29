\* Streams: one document of every kind through every stack, over a buffer of
\* three characters: strings of up to three, so one that fits exactly and one
\* that does not, and two flushes before the end.
\* Tree: six names of which some are equal, so that both rotations happen at
\* and below the top.  History: three places, two links.  Names: up to three
\* directories below the root.  Rules: all pairs.
SPECIFICATION Spec
CONSTANTS
  BUFFER_SIZE = 3
  MaxDefined = 1
  MaxLines = 2
  MaxChars = 3
  Keys = {1, 2, 3, 4}
  MaxElements = 6
  NULL = NULL
  Documents = {d1, d2}
  Offsets <- MCOffsets
  MaxHistory = 3
  MaxLinks = 2
  References <- MCReferences
  Start <- MCStart
  MaxAddress = 13
  Lines <- MCLines
  Required <- MCRequired
  MaxRules = 2
CHECK_DEADLOCK FALSE
INVARIANTS
  TypeOK
  SentInOrder
  OverrunIsTheTerminatorOnly
  HeaderIsUnderstood
  ParametersAreOfTheirFields
  NewlinesAreTranslated
  TreeIsInOrder
  RelativeNamesLeadBack
  WildcardsStandForText
PROPERTIES
  HistoryIsATrail
