\* Strings of up to 4 of 2 characters, lists that start with one slot.
CONSTANTS
  NULL = NULL
  SNAP = 2
  Texts <- MCTexts
  Sets <- MCSets
  Separators <- MCSeparators
  Rooms = {1, 3}
  FIRST_SLOTS = 1
  MaxQty = 2
  Heaps <- MCHeaps
SPECIFICATION Spec
INVARIANTS ListRoom JoinRestores
PROPERTIES PiecesExact SplitsEnd
CHECK_DEADLOCK FALSE
