\* Three values the list owns (df = free) or not; capacities never below the default,
\* which is 2 here; blocks of at most 4 pointers.
CONSTANTS
  v1 = v1
  v2 = v2
  v3 = v3
  Value = {v1, v2, v3}
  NULL = NULL
  JUNK = JUNK
  UINT_MAX = 7
  ARRAYLIST_DEFAULT_CAPACITY = 2
  Capacities = {0, 2, 3}
  HeapLimit = 4
  Dfs = {TRUE, FALSE}
  Orders <- MCOrders
  MaxBatch = 2
SPECIFICATION Spec
INVARIANTS TypeOK CapacityReserved SpareSlotsNull OwnershipExact
PROPERTY ImplementsAbstractList
