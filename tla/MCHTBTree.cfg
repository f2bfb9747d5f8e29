\* Ten names: no order of nine different ones goes wrong.
SPECIFICATION Spec
CONSTANTS
  Keys = {1, 2, 3, 4, 5, 6, 7, 8, 9, 10}
  MaxElements = 10
  Before <- MCBefore
CHECK_DEADLOCK FALSE
INVARIANT TreeIsInOrder
