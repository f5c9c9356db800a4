\* Three keys, the largest but one of all among them, in maps of up to 5 slots.
CONSTANTS
  Base = 2
  Key = {1, 6, 14}
  Value = {x1, x2}
  Sizes = {0, 1, 2, 5}
  INT_MAX = 7
  NULL = NULL
  MayFail = {"map", "contents"}
SPECIFICATION Spec
INVARIANTS SortedAlways
PROPERTIES OlderStayPut FindReturns ImplementsAbstractRadixMap
