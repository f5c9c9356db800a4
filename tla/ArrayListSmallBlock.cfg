\* A list created with a capacity of 1, below the default of 2, and cleared.
CONSTANTS
  v1 = v1
  v2 = v2
  v3 = v3
  Value = {v1, v2}
  NULL = NULL
  JUNK = JUNK
  UINT_MAX = 7
  ARRAYLIST_DEFAULT_CAPACITY = 2
  Capacities = {1}
  HeapLimit = 4
  Dfs = {TRUE}
  Orders <- MCOrders
  MaxBatch = 1
SPECIFICATION Spec
INVARIANT CapacityReserved
