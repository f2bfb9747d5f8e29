\* Every table of up to 4 names, in order or not, and the tables of HTMLDTD.c
\* as they are written there, with every key.
CONSTANTS
  MaxLen  = 4
  MaxRank = 5
  Tables <- MCTables
  Keys   <- MCKeys
SPECIFICATION Spec
INVARIANTS TypeOK EntriesInPlaceAreFound FoundNameIsTheKey
PROPERTY EveryLookupEnds
\* A lookup is one call: the behaviour stops when it returns.
CHECK_DEADLOCK FALSE
