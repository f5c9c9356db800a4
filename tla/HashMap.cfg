\* Three contents, one of them behind two pointers, in tables of 1 to 8 buckets.
CONSTANTS
  k1 = k1
  k2 = k2
  k3 = k3
  k4 = k4
  x1 = x1
  x2 = x2
  x3 = x3
  x4 = x4
  Key = {k1, k2, k3, k4}
  Value = {x1, x2, x3, x4}
  NULL = NULL
  ContentOf <- MCContentOf
  Hash <- MCHash
  Capacities = {1, 3}
  SIZE_MAX = 15
  HeapLimit = 8
  Heaps <- MCHeaps
SPECIFICATION Spec
INVARIANTS EntriesInPlace KeysUnique SizeExact LoadKept OwnershipExact
PROPERTIES RehashKeepsEntries ImplementsAbstractMap
SYMMETRY Likes
